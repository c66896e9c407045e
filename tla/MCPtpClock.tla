----------------------------- MODULE MCPtpClock -----------------------------
(***************************************************************************)
(* Small networks for PtpClock: this clock has identity 2, between the     *)
(* identities of two other clocks, Near (1) and Far (3).                   *)
(***************************************************************************)
EXTENDS PtpClock

MCSelf == 2
Near == <<1, 1>>
Far == <<3, 1>>

Quality(priority1, class) == <<priority1, class, 254, 5000, 128>>
MCSlaveQuality == Quality(2, 255)     \* slave only
MCDefaultQuality == Quality(2, 248)   \* may be master or slave
MCPrimaryQuality == Quality(2, 6)     \* may be master or passive

AnnounceOf(source, gm, quality, steps) ==
  [source |-> source, gm |-> gm, quality |-> quality, steps |-> steps]

\* Near is a better master than this clock; Far is better or, with the
\* quality it has before it is locked to its reference, worse.
NearAnnounce == AnnounceOf(Near, 1, Quality(1, 248), 0)
FarLocked == AnnounceOf(Far, 3, Quality(1, 6), 0)
FarFree == AnnounceOf(Far, 3, Quality(3, 248), 0)
\* Far as a boundary clock behind Near, and this clock's own messages: looped
\* back, or as a grandmaster whose announcements return through Far.
FarRelaysNear == AnnounceOf(Far, 1, Quality(1, 248), 1)
FarRelaysSelf == AnnounceOf(Far, 2, OwnQuality, 1)
OwnAnnounce == D0
MCAnnounces == {NearAnnounce, FarLocked, FarFree, FarRelaysNear,
                FarRelaysSelf, OwnAnnounce}

SyncOf(source, seq, twoStep) ==
  [source |-> source, seq |-> seq, twoStep |-> twoStep]
FollowUpOf(source, seq) == [source |-> source, seq |-> seq]

MCSyncs == {SyncOf(Near, 0, TRUE), SyncOf(Near, 1, TRUE),
            SyncOf(Far, 0, TRUE), SyncOf(Far, 0, FALSE)}
MCFollowUps == {FollowUpOf(Near, 0), FollowUpOf(Near, 1), FollowUpOf(Far, 0)}
=============================================================================
