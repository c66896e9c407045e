------------------------------ MODULE PortRole ------------------------------
(***************************************************************************)
(* What the port state machine promises to the rest of the clock: the      *)
(* roles a port takes and the master it follows, without timers, events,   *)
(* tables or the steps of doState.                                         *)
(*                                                                         *)
(*  - A port follows a master as UNCALIBRATED first, and a SLAVE that      *)
(*    changes its master, or loses its synchronisation, is UNCALIBRATED    *)
(*    again: a SLAVE is calibrated for the master it follows.              *)
(*  - A faulty port keeps its role and the master it follows, except that  *)
(*    a SLAVE has to be calibrated anew.                                   *)
(*  - INITIALIZING is left once; a port takes no role but those allowed.   *)
(*  - Only a port that may not be master goes back to listening.           *)
(***************************************************************************)
CONSTANTS
  Port,        \* the ports that can be followed
  Nobody,      \* followed by a port that is no follower
  Allowed,     \* the roles the configuration allows
  StepsBack,   \* whether it lets a port go back to listening
  PeerDelay    \* the peer-to-peer mechanism: a port also sends as UNCALIBRATED

VARIABLES
  role,
  followed,    \* the master that is followed
  faulty       \* the port is in the state FAULTY

roleVars == <<role, followed, faulty>>

FollowerRole == {"UNCALIBRATED", "SLAVE"}
OwnRole == {"LISTENING", "MASTER", "PASSIVE"}
Role == FollowerRole \union OwnRole \union {"INITIALIZING"}

ASSUME RoleAssumption ==
  Nobody \notin Port /\ Allowed \subseteq Role \ {"INITIALIZING"}
ASSUME FlagAssumption == StepsBack \in BOOLEAN /\ PeerDelay \in BOOLEAN

RoleInit == role = "INITIALIZING" /\ followed = Nobody /\ faulty = FALSE

Active == ~faulty /\ role # "INITIALIZING"

TakeRole(new) == /\ role' = new
                 /\ followed' = Nobody
                 /\ UNCHANGED faulty

Start == /\ role = "INITIALIZING"
         /\ TakeRole("LISTENING")

\* The receipt timeout of a clock that may not be master, or a decision that it
\* should be.
ListenAgain == /\ Active
               /\ StepsBack
               /\ TakeRole("LISTENING")

\* By the best master clock algorithm or after a receipt timeout.
TakeOver == /\ Active
            /\ TakeRole("MASTER")

GiveWay == /\ Active
           /\ TakeRole("PASSIVE")

\* A new master, or a SLAVE that has lost its synchronisation.
Follow(p) == /\ Active
             /\ role' = "UNCALIBRATED"
             /\ followed' = p
             /\ UNCHANGED faulty

Calibrated == /\ Active
              /\ role = "UNCALIBRATED"
              /\ role' = "SLAVE"
              /\ UNCHANGED <<followed, faulty>>

\* With the peer-to-peer mechanism the port can fail to send a request after it
\* has been calibrated; it then becomes SLAVE of the next master it follows.
CalibratedForAnother(p) == /\ Active
                           /\ PeerDelay
                           /\ role = "UNCALIBRATED"
                           /\ role' = "SLAVE"
                           /\ followed' = p
                           /\ UNCHANGED faulty

Fail == /\ Active
        /\ faulty' = TRUE
        /\ role' = IF role = "SLAVE" THEN "UNCALIBRATED" ELSE role
        /\ UNCHANGED followed

Resume == /\ faulty
          /\ faulty' = FALSE
          /\ UNCHANGED <<role, followed>>

RoleNext ==
  /\ \/ Start \/ ListenAgain \/ TakeOver \/ GiveWay
     \/ \E p \in Port : Follow(p) \/ CalibratedForAnother(p)
     \/ Calibrated
     \/ Fail \/ Resume
  /\ role' \in Allowed

RoleSpec == RoleInit /\ [][RoleNext]_roleVars
=============================================================================
