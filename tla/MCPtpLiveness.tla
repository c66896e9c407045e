--------------------------- MODULE MCPtpLiveness ---------------------------
(***************************************************************************)
(* A network of two masters for PtpLiveness.                               *)
(***************************************************************************)
EXTENDS PtpLiveness

Near == <<1, 1>>
Far == <<3, 1>>
MCSelf == 2
Quality(priority1, class) == <<priority1, class, 254, 5000, 128>>
MCQuality == Quality(3, 248)

MCAnnounces ==
  {[source |-> Near, gm |-> 1, quality |-> Quality(1, 248), steps |-> 0],
   [source |-> Far, gm |-> 3, quality |-> Quality(2, 248), steps |-> 0]}
MCSyncs ==
  {[source |-> p, seq |-> 0, twoStep |-> p = Near] : p \in {Near, Far}}
MCFollowUps == {[source |-> Near, seq |-> 0]}
=============================================================================
