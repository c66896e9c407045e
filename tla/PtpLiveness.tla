---------------------------- MODULE PtpLiveness ----------------------------
(***************************************************************************)
(* What PtpClock promises when masters disappear: ports of the network     *)
(* fall silent, one after the other and for ever, at any moment.           *)
(*                                                                         *)
(* The fairness is the code's scheduling.  The thread runs until it blocks *)
(* on the alert mailbox; an active timer is periodic and keeps posting     *)
(* alerts, so a blocked thread is woken as long as one is active; a timer  *)
(* that is neither stopped nor started anew expires.  Packets wake the     *)
(* thread too, but nothing guarantees that any arrive.                     *)
(***************************************************************************)
EXTENDS PtpClock

VARIABLE silent   \* the ports that send nothing any more

liveVars == <<vars, silent>>

NetworkPorts == {announce.source : announce \in Announces} \ {OwnPort}

\* The messages of the ports that are still heard.
Heard(messages) == {m \in messages : m.source \notin silent}

LiveInit == Init /\ silent = {}

\* A port falls silent.  Not while this one is FAULTY: no timer is active then,
\* and in a network without packets nothing wakes the thread to recover.
FallsSilent ==
  /\ portState # "FAULTY"
  /\ \E p \in NetworkPorts \ silent : silent' = silent \union {p}
  /\ UNCHANGED vars

\* From then on no send fails and no short message is received.
NoNewFault == silent # {} => portState' # "FAULTY"

LiveThread ==
  /\ Thread(Heard(Announces), Heard(Syncs), Heard(FollowUps))
  /\ NoNewFault
  /\ UNCHANGED silent

LiveWakeUp == WakeUp /\ UNCHANGED silent
TimerWakesUp == LiveWakeUp /\ \E t \in Timer : timers[t] # "stopped"
LiveTimer(t) == TimerExpires(t) /\ UNCHANGED silent

\* An Announce that starts the receipt timeout anew puts off its expiry.
PutsOff(t) ==
  /\ t = "ANNOUNCE_RECEIPT"
  /\ \E announce \in Heard(Announces) :
       KeepsWaiting(announce.source) /\ HandleAnnounce(announce)
  /\ NoNewFault
  /\ UNCHANGED silent

LiveNext == \/ FallsSilent
            \/ LiveThread
            \/ LiveWakeUp
            \/ \E t \in Timer : LiveTimer(t)

LiveSpec == /\ LiveInit /\ [][LiveNext]_liveVars
            /\ WF_liveVars(LiveThread)
            /\ WF_liveVars(TimerWakesUp)
            /\ \A t \in Timer : WF_liveVars(LiveTimer(t) \/ PutsOff(t))

(***************************************************************************)
(* Properties.                                                             *)
(***************************************************************************)

Follows(p) == portState \in SlaveState /\ parentDS.source = p

\* A master that falls silent is abandoned, and its records, which stay in the
\* table until a receipt timeout, cannot bring the port back to it for ever.
AbandonsSilentMaster ==
  \A p \in NetworkPorts : [](p \in silent => <>[]~Follows(p))

\* When the whole network falls silent, a clock that may be master takes over,
\* and one that may not listens, both for good.
TakesOverSilentNetwork ==
  [](silent = NetworkPorts =>
       <>[](portState = IF SlaveOnlyClock THEN "LISTENING" ELSE "MASTER"))
=============================================================================
