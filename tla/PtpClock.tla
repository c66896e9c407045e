------------------------------ MODULE PtpClock ------------------------------
(***************************************************************************)
(* The PTP port state machine of an ordinary clock: the ptpd thread of     *)
(* src/src/lwip-ptp.c, which calls doState of src/src/protocol.c once for  *)
(* every alert it receives, and everything doState calls.                  *)
(*                                                                         *)
(* One call of doState is cut into steps where timers can expire between   *)
(* two of its decisions:                                                   *)
(*    wait    blocked on the alert mailbox                                 *)
(*    decide  the state decision event: bmc                                *)
(*    follow  the second switch: portState follows recommendedState        *)
(*    act     the third switch: receipt timeout, master's messages         *)
(*    handle  one received message                                         *)
(*    request the delay request that ends the MASTER case                  *)
(*                                                                         *)
(* Abstractions.  Any message of the constant sets, or none, can be what   *)
(* the network hands to handle; a send can fail at any time.  Timers have  *)
(* no durations.  A timestamp is the port whose message it belongs to, an  *)
(* offset the two timestamps it was computed from and its size class.      *)
(***************************************************************************)
EXTENDS Bmc

CONSTANTS
  SlaveOnly,       \* defaultDS.slaveOnly
  DelayMechanism,  \* portDS.delayMechanism
  Announces,       \* the Announce messages of the network
  Syncs,           \* its Sync messages: [source, seq, twoStep]
  FollowUps        \* its Follow_Up messages: [source, seq]

ASSUME SlaveOnlyAssumption ==
  SlaveOnly \in BOOLEAN /\ (SlaveOnly => OwnClass = 255)
ASSUME MechanismAssumption == DelayMechanism \in {"E2E", "P2P"}
ASSUME MessageAssumption ==
  /\ Announces \subseteq DataSet
  /\ Syncs \subseteq [source : PortIdentity, seq : Nat, twoStep : BOOLEAN]
  /\ FollowUps \subseteq [source : PortIdentity, seq : Nat]

VARIABLES
  pc,                    \* where the thread is in doState
  portState,             \* portDS.portState
  recommendedState,
  events,                \* the flags of ptpClock->events that are set
  timers,                \* the timers of the platform
  foreignMasterDS,
  parentDS,              \* with currentDS.stepsRemoved as its steps
  waitingForFollowUp,
  recvSyncSequenceId,
  timestamp_syncRecieve, \* the sender of the Sync it is the receipt time of
  offsetFromMaster       \* currentDS.offsetFromMaster

portVars == <<portState, recommendedState, timers, waitingForFollowUp>>
syncVars == <<recvSyncSequenceId, timestamp_syncRecieve>>
masterVars == <<foreignMasterDS, parentDS>>
vars == <<pc, portVars, events, masterVars, syncVars, offsetFromMaster>>

Phase == {"wait", "decide", "follow", "act", "handle", "request"}
\* PRE_MASTER is entered only to fall through to MASTER; nothing sets DISABLED.
PortState == {"INITIALIZING", "FAULTY", "LISTENING", "MASTER", "PASSIVE",
              "UNCALIBRATED", "SLAVE"}
SlaveState == {"UNCALIBRATED", "SLAVE"}
ListenerState == SlaveState \union {"LISTENING", "PASSIVE"}
Event == {"STATE_DECISION_EVENT", "MASTER_CLOCK_SELECTED",
          "MASTER_CLOCK_CHANGED", "SYNCHRONIZATION_FAULT"}
Timer == {"ANNOUNCE_RECEIPT", "SYNC_INTERVAL", "ANNOUNCE_INTERVAL",
          "DELAYREQ_INTERVAL", "PDELAYREQ_INTERVAL"}

\* slaveOnly or clockClass 255: the clock that must not become master.
SlaveOnlyClock == SlaveOnly \/ OwnClass = 255

\* Below DEFAULT_CALIBRATED_OFFSET_NS, above DEFAULT_UNCALIBRATED_OFFSET_NS or
\* with seconds, and what lies between.  m1 sets the offset to zero.
OffsetClass == {"calibrated", "between", "uncalibrated"}
ZeroOffset == [ingress |-> <<Self, 0>>, origin |-> <<Self, 0>>,
               class |-> "calibrated"]
Offset == [ingress : PortIdentity, origin : PortIdentity, class : OffsetClass]

(***************************************************************************)
(* toState                                                                 *)
(***************************************************************************)

DelayTimer == IF DelayMechanism = "E2E" THEN "DELAYREQ_INTERVAL"
                                        ELSE "PDELAYREQ_INTERVAL"
PeerTimer == {"PDELAYREQ_INTERVAL"}

\* A mistake: forgets the delay timer of a port that leaves a slave state.
StoppedOnExitOfMaster(old, new) ==
  CASE old = "MASTER" -> {"SYNC_INTERVAL", "ANNOUNCE_INTERVAL"} \union PeerTimer
    [] old \in ListenerState /\ new \notin SlaveState -> {"ANNOUNCE_RECEIPT"}
    [] OTHER -> {}

\* A mistake: PASSIVE keeps its receipt timeout.
StoppedOnExitToPeers(old, new) ==
  IF old = "PASSIVE" THEN PeerTimer
  ELSE IF old = "LISTENING" THEN {"ANNOUNCE_RECEIPT"}
  ELSE {"SYNC_INTERVAL", "ANNOUNCE_INTERVAL"}

\* The `leaving state' switch.
StoppedOnExit(old, new) ==
  CASE old = "MASTER" -> {"SYNC_INTERVAL", "ANNOUNCE_INTERVAL"} \union PeerTimer
    [] old \in SlaveState /\ new \notin SlaveState ->
         {"ANNOUNCE_RECEIPT", DelayTimer}
    [] old = "PASSIVE" -> {"ANNOUNCE_RECEIPT"} \union PeerTimer
    [] old = "LISTENING" -> {"ANNOUNCE_RECEIPT"}
    [] OTHER -> {}

\* A mistake: the timers of the end-to-end mechanism, whatever the mechanism.
StartedOnEntryEndToEnd(new) ==
  CASE new \in {"LISTENING", "PASSIVE"} -> {"ANNOUNCE_RECEIPT"}
    [] new = "MASTER" -> {"SYNC_INTERVAL", "ANNOUNCE_INTERVAL"}
    [] new = "UNCALIBRATED" -> {"ANNOUNCE_RECEIPT", "DELAYREQ_INTERVAL"}
    [] OTHER -> {}

\* A mistake: a follower has no receipt timeout.
StartedOnEntryUnlessSlave(new) ==
  CASE new \in {"LISTENING", "PASSIVE"} -> {"ANNOUNCE_RECEIPT"}
    [] new = "MASTER" -> {"SYNC_INTERVAL", "ANNOUNCE_INTERVAL"}
    [] new = "UNCALIBRATED" -> {DelayTimer}
    [] OTHER -> {}

\* The `entering state' switch.
StartedOnEntry(new) ==
  LET Peer == IF DelayMechanism = "P2P" THEN PeerTimer ELSE {}
  IN  CASE new = "LISTENING" -> {"ANNOUNCE_RECEIPT"}
        [] new = "MASTER" -> {"SYNC_INTERVAL", "ANNOUNCE_INTERVAL"} \union Peer
        [] new = "PASSIVE" -> {"ANNOUNCE_RECEIPT"} \union Peer
        [] new = "UNCALIBRATED" -> {"ANNOUNCE_RECEIPT", DelayTimer}
        [] OTHER -> {}

\* A mistake: leaving a slave state keeps the Sync that waits.
InitsClockUnlessSlave(old, new) == old \in {"MASTER", "PASSIVE", "LISTENING"}

\* Leaving these states calls initClock, which forgets a Sync that waits for
\* its Follow_Up.
InitsClock(old, new) ==
  \/ old \in {"MASTER", "PASSIVE", "LISTENING"}
  \/ old \in SlaveState /\ new \notin SlaveState

\* A mistake: toState never touches recommendedState.
RecommendedAsBefore(new, recommended) == recommended

\* INITIALIZING and LISTENING are also recommended from now on.
RecommendedOnEntry(new, recommended) ==
  IF new \in {"INITIALIZING", "LISTENING"} THEN new ELSE recommended

\* The caller may have just assigned recommendedState and waitingForFollowUp:
\* it passes their values.
toState(new, recommended, waiting) ==
  /\ portState' = new
  /\ recommendedState' = RecommendedOnEntry(new, recommended)
  /\ timers' = [t \in Timer |->
                  IF t \in StartedOnEntry(new) THEN "running"
                  ELSE IF t \in StoppedOnExit(portState, new) THEN "stopped"
                  ELSE timers[t]]
  /\ waitingForFollowUp' = (waiting /\ ~InitsClock(portState, new))

\* What every failure does.
Fault(waiting) == toState("FAULTY", recommendedState, waiting)

\* These timers run (again): they were started, or LWIP_PTP_CHECK_TIMER has
\* answered true for them, which are periodic.
Restarted(ts) == [t \in Timer |-> IF t \in ts THEN "running" ELSE timers[t]]

(***************************************************************************)
(* The thread and its timers.                                              *)
(***************************************************************************)

\* doInit before any doState: toState(PTP_INITIALIZING) on zeroed memory.
Init ==
  /\ pc = "decide"
  /\ portState = "INITIALIZING"
  /\ recommendedState = "INITIALIZING"
  /\ events = {}
  /\ timers = [t \in Timer |-> "stopped"]
  /\ foreignMasterDS = EmptyTable
  /\ parentDS = BlankRecord
  /\ waitingForFollowUp = FALSE
  /\ recvSyncSequenceId = 0
  /\ timestamp_syncRecieve = <<0, 0>>
  /\ offsetFromMaster = ZeroOffset

\* An alert, posted by a timer or by a received packet, wakes the thread up.
WakeUp ==
  /\ pc = "wait"
  /\ pc' = "decide"
  /\ UNCHANGED <<portVars, events, masterVars, syncVars, offsetFromMaster>>

TimerExpires(t) ==
  /\ timers[t] = "running"
  /\ timers' = [timers EXCEPT ![t] = "expired"]
  /\ UNCHANGED <<pc, portState, recommendedState, waitingForFollowUp, events,
                 masterVars, syncVars, offsetFromMaster>>

(***************************************************************************)
(* First switch of doState: the state decision event runs bmc.             *)
(***************************************************************************)

Decides == /\ "STATE_DECISION_EVENT" \in events
           /\ portState \notin {"INITIALIZING", "FAULTY"}

\* A mistake: no slave-only guard after bmc.
PermittedToAll(state) == state

\* A clock that must not become master listens instead.
Permitted(state) ==
  IF state \in {"MASTER", "PASSIVE"} /\ SlaveOnlyClock THEN "LISTENING" ELSE state

\* A mistake: a change of parent is not noted.
NewParentUnnoticed(parent, decision, raised) ==
  /\ parentDS' = parent
  /\ recommendedState' = Permitted(decision)
  /\ events' = events \ {"STATE_DECISION_EVENT"}

\* parentDS becomes parent; s1 notes a change of the parent's port.
NewParent(parent, decision, raised) ==
  /\ parentDS' = parent
  /\ recommendedState' = Permitted(decision)
  /\ events' = (events \ {"STATE_DECISION_EVENT"}) \union raised

StateDecision ==
  /\ pc = "decide"
  /\ Decides
  /\ pc' = "follow"
  /\ \E best \in BestSlots(foreignMasterDS) :
       LET record == foreignMasterDS.records[best]
           decision == bmcStateDecision(portState, foreignMasterDS.count, record)
       IN  /\ foreignMasterDS' = Chosen(foreignMasterDS, best)
           /\ CASE decision = "MASTER" ->
                     /\ NewParent(m1, decision, {})
                     /\ offsetFromMaster' = ZeroOffset
                [] decision = "SLAVE" ->
                     /\ NewParent(s1(record), decision,
                          IF record.source = parentDS.source
                            THEN {} ELSE {"MASTER_CLOCK_CHANGED"})
                     /\ UNCHANGED offsetFromMaster
                [] OTHER ->
                     /\ NewParent(parentDS, decision, {})
                     /\ UNCHANGED offsetFromMaster
  /\ UNCHANGED <<portState, timers, waitingForFollowUp, syncVars>>

NoStateDecision ==
  /\ pc = "decide"
  /\ ~Decides
  /\ pc' = "follow"
  /\ UNCHANGED <<portVars, events, masterVars, syncVars, offsetFromMaster>>

(***************************************************************************)
(* Second switch: portState follows recommendedState.                      *)
(***************************************************************************)

\* The state toState is called with, portState itself when it is not called.
Target ==
  CASE recommendedState = "INITIALIZING" -> portState
    [] recommendedState = "SLAVE" /\ portState = "UNCALIBRATED" ->
         IF "MASTER_CLOCK_SELECTED" \in events THEN "SLAVE" ELSE "UNCALIBRATED"
    [] recommendedState = "SLAVE" /\ portState = "SLAVE" ->
         IF events \intersect {"SYNCHRONIZATION_FAULT", "MASTER_CLOCK_CHANGED"} = {}
           THEN "SLAVE" ELSE "UNCALIBRATED"
    [] recommendedState = "SLAVE" -> "UNCALIBRATED"
    [] OTHER -> recommendedState

\* A mistake: UNCALIBRATED does not clear the flags it has seen.
NoticedOnlyAsSlave ==
  IF recommendedState = "SLAVE" /\ portState = "SLAVE"
    THEN {"SYNCHRONIZATION_FAULT", "MASTER_CLOCK_CHANGED"} ELSE {}

\* The events this switch looks at, and clears.
Noticed ==
  CASE recommendedState # "SLAVE" -> {}
    [] portState = "UNCALIBRATED" ->
         {"MASTER_CLOCK_SELECTED", "MASTER_CLOCK_CHANGED"}
    [] portState = "SLAVE" -> {"SYNCHRONIZATION_FAULT", "MASTER_CLOCK_CHANGED"}
    [] OTHER -> {}

FollowRecommendation ==
  /\ pc = "follow"
  /\ pc' = "act"
  /\ events' = events \ Noticed
  /\ IF Target = portState
       THEN UNCHANGED portVars
       ELSE toState(Target, recommendedState, waitingForFollowUp)
  /\ UNCHANGED <<masterVars, syncVars, offsetFromMaster>>

(***************************************************************************)
(* Third switch: what the port does in its state.                          *)
(***************************************************************************)

\* A mistake: initialisation without m1.
doInitWithoutM1 ==
  /\ foreignMasterDS' = [foreignMasterDS EXCEPT !.count = 0]
  /\ UNCHANGED <<parentDS, offsetFromMaster>>

\* initData and m1; initClock is in toState's arguments.
doInit ==
  /\ foreignMasterDS' = [foreignMasterDS EXCEPT !.count = 0]
  /\ parentDS' = m1
  /\ offsetFromMaster' = ZeroOffset

\* INITIALIZING calls doInit, which has no failing path, and listens.  FAULTY
\* would go to INITIALIZING here.
Initialize ==
  /\ pc = "act"
  /\ portState \in {"INITIALIZING", "FAULTY"}
  /\ pc' = "wait"
  /\ IF portState = "FAULTY"
       THEN /\ toState("INITIALIZING", recommendedState, waitingForFollowUp)
            /\ UNCHANGED <<masterVars, offsetFromMaster>>
       ELSE /\ toState("LISTENING", recommendedState, FALSE)
            /\ doInit
  /\ UNCHANGED <<events, syncVars>>

\* A mistake: the new master keeps the data set of the lost one.
TakesOverAsBefore ==
  /\ toState("MASTER", "MASTER", waitingForFollowUp)
  /\ UNCHANGED <<parentDS, offsetFromMaster>>

\* A clock that may be master becomes its own parent: m1.
TakesOver ==
  /\ toState("MASTER", "MASTER", waitingForFollowUp)
  /\ parentDS' = m1
  /\ offsetFromMaster' = ZeroOffset

\* A mistake: a slave-only clock stays in its state after the timeout.
GoesOnFollowing ==
  /\ timers' = Restarted({"ANNOUNCE_RECEIPT"})
  /\ UNCHANGED <<portState, recommendedState, waitingForFollowUp, parentDS,
                 offsetFromMaster>>

\* A slave-only clock listens; in LISTENING the timer has just gone off again.
ListensAgain ==
  /\ IF portState # "LISTENING"
       THEN toState("LISTENING", recommendedState, waitingForFollowUp)
       ELSE /\ timers' = Restarted({"ANNOUNCE_RECEIPT"})
            /\ UNCHANGED <<portState, recommendedState, waitingForFollowUp>>
  /\ UNCHANGED <<parentDS, offsetFromMaster>>

\* ANNOUNCE_RECEIPT_TIMEOUT_EXPIRES.
AnnounceReceiptTimeout ==
  /\ pc = "act"
  /\ portState \in ListenerState
  /\ timers["ANNOUNCE_RECEIPT"] = "expired"
  /\ pc' = "wait"
  /\ foreignMasterDS' = ForgetForeign(foreignMasterDS)
  /\ IF SlaveOnlyClock THEN ListensAgain ELSE TakesOver
  /\ UNCHANGED <<events, syncVars>>

Listen ==
  /\ pc = "act"
  /\ portState \in ListenerState
  /\ timers["ANNOUNCE_RECEIPT"] # "expired"
  /\ pc' = "handle"
  /\ UNCHANGED <<portVars, events, masterVars, syncVars, offsetFromMaster>>

\* issueAnnounce, issueSync and the issueFollowup of a two-step clock, as they
\* are due.  A send that fails makes the port FAULTY, which stops the timers of
\* the messages still to come.
issue(due) ==
  \/ /\ timers' = Restarted(due)
     /\ UNCHANGED <<portState, recommendedState, waitingForFollowUp>>
  \/ /\ due # {}
     /\ Fault(waitingForFollowUp)

MasterSends ==
  /\ pc = "act"
  /\ portState = "MASTER"
  /\ pc' = "handle"
  /\ issue({t \in {"SYNC_INTERVAL", "ANNOUNCE_INTERVAL"} : timers[t] = "expired"})
  /\ UNCHANGED <<events, masterVars, syncVars, offsetFromMaster>>

\* issueDelayReqTimerExpired: the Delay_Req (in SLAVE only) or Pdelay_Req that
\* is due.  The caller may have just assigned waitingForFollowUp.
issueDelayReqTimerExpired(waiting) ==
  LET due == /\ timers[DelayTimer] = "expired"
             /\ DelayMechanism = "E2E" => portState = "SLAVE"
  IN  \/ /\ timers' = IF due THEN Restarted({DelayTimer}) ELSE timers
         /\ waitingForFollowUp' = waiting
         /\ UNCHANGED <<portState, recommendedState>>
      \/ /\ due
         /\ Fault(waiting)

RequestDelay ==
  /\ pc = "request"
  /\ pc' = "wait"
  /\ issueDelayReqTimerExpired(waitingForFollowUp)
  /\ UNCHANGED <<events, masterVars, syncVars, offsetFromMaster>>

(***************************************************************************)
(* handle: at most one received message.                                   *)
(***************************************************************************)

\* The MASTER case of doState goes on after handle, also when a send has
\* already made the port FAULTY; the other cases end.
Handled ==
  /\ pc = "handle"
  /\ pc' = IF portState \in ListenerState THEN "wait" ELSE "request"

\* Nothing received, or a message that this state, version, domain or delay
\* mechanism ignores.
Disregard ==
  /\ Handled
  /\ UNCHANGED <<portVars, events, masterVars, syncVars, offsetFromMaster>>

\* A message shorter than its type requires.
HandleShortMessage ==
  /\ Handled
  /\ Fault(waitingForFollowUp)
  /\ UNCHANGED <<events, masterVars, syncVars, offsetFromMaster>>

\* A mistake: the clock listens to itself.
IsFromNobody(source) == FALSE

IsFromSelf(source) == source = OwnPort

IsFromCurrentParent(source) ==
  portState \in SlaveState /\ source = parentDS.source

\* The Announce messages that restart the receipt timeout.
KeepsWaiting(source) == IsFromCurrentParent(source) \/ portState = "PASSIVE"

\* An Announce of the parent updates parentDS, any other the foreign masters.
HandleAnnounce(announce) ==
  /\ Handled
  /\ portState # "FAULTY"
  /\ ~IsFromSelf(announce.source)
  /\ events' = events \union {"STATE_DECISION_EVENT"}
  /\ IF IsFromCurrentParent(announce.source)
       THEN /\ parentDS' = s1(announce)
            /\ UNCHANGED foreignMasterDS
       ELSE /\ foreignMasterDS' = addForeign(foreignMasterDS, announce)
            /\ UNCHANGED parentDS
  /\ timers' = IF KeepsWaiting(announce.source)
                 THEN Restarted({"ANNOUNCE_RECEIPT"}) ELSE timers
  /\ UNCHANGED <<portState, recommendedState, waitingForFollowUp, syncVars,
                 offsetFromMaster>>

\* The offset from the master, and the events its size raises.
updateOffset(ingress, origin, class) ==
  /\ offsetFromMaster' =
       [ingress |-> ingress, origin |-> origin, class |-> class]
  /\ events' = events \union
       (IF class = "calibrated" /\ portState = "UNCALIBRATED"
          THEN {"MASTER_CLOCK_SELECTED"}
        ELSE IF class = "uncalibrated" /\ portState = "SLAVE"
          THEN {"SYNCHRONIZATION_FAULT"}
        ELSE {})

\* The messages that synchronize the clock.
FromParent(message) ==
  ~IsFromSelf(message.source) /\ IsFromCurrentParent(message.source)

\* A two-step Sync: its Follow_Up will bring the origin timestamp.
HandleTwoStepSync(sync) ==
  /\ Handled
  /\ FromParent(sync)
  /\ sync.twoStep
  /\ timestamp_syncRecieve' = sync.source
  /\ recvSyncSequenceId' = sync.seq
  /\ waitingForFollowUp' = TRUE
  /\ UNCHANGED <<portState, recommendedState, timers, events, masterVars,
                 offsetFromMaster>>

HandleOneStepSync(sync) ==
  /\ Handled
  /\ FromParent(sync)
  /\ ~sync.twoStep
  /\ timestamp_syncRecieve' = sync.source
  /\ \E class \in OffsetClass : updateOffset(sync.source, sync.source, class)
  /\ issueDelayReqTimerExpired(FALSE)
  /\ UNCHANGED <<recvSyncSequenceId, masterVars>>

HandleFollowUp(followUp) ==
  /\ Handled
  /\ FromParent(followUp)
  /\ waitingForFollowUp
  /\ followUp.seq = recvSyncSequenceId
  /\ \E class \in OffsetClass :
       updateOffset(timestamp_syncRecieve, followUp.source, class)
  /\ issueDelayReqTimerExpired(FALSE)
  /\ UNCHANGED <<syncVars, masterVars>>

\* A PASSIVE port sends its Pdelay_Req when it receives a Sync or a Follow_Up.
HandlePassiveSync ==
  /\ Handled
  /\ portState = "PASSIVE"
  /\ issueDelayReqTimerExpired(waitingForFollowUp)
  /\ UNCHANGED <<events, masterVars, syncVars, offsetFromMaster>>

\* The answer to a request cannot be sent.  One that is sent changes nothing of
\* the port's state: it is a Disregard here.
AnswerFails ==
  /\ Handled
  /\ Fault(waitingForFollowUp)
  /\ UNCHANGED <<events, masterVars, syncVars, offsetFromMaster>>

HandleDelayReq ==
  /\ DelayMechanism = "E2E"
  /\ portState = "MASTER"
  /\ AnswerFails

HandlePDelayReq ==
  /\ DelayMechanism = "P2P"
  /\ portState \in {"MASTER", "PASSIVE", "SLAVE"}
  /\ AnswerFails

(***************************************************************************)
(* The specification.                                                      *)
(***************************************************************************)

\* The thread's steps when these are the messages it can receive.
Thread(announces, syncs, followUps) ==
  \/ StateDecision \/ NoStateDecision
  \/ FollowRecommendation
  \/ Initialize \/ AnnounceReceiptTimeout \/ Listen
  \/ MasterSends
  \/ RequestDelay
  \/ Disregard
  \/ HandleShortMessage
  \/ \E announce \in announces : HandleAnnounce(announce)
  \/ \E sync \in syncs : HandleTwoStepSync(sync) \/ HandleOneStepSync(sync)
  \/ \E followUp \in followUps : HandleFollowUp(followUp)
  \/ HandlePassiveSync
  \/ HandleDelayReq \/ HandlePDelayReq

Next == \/ WakeUp
        \/ \E t \in Timer : TimerExpires(t)
        \/ Thread(Announces, Syncs, FollowUps)

Spec == Init /\ [][Next]_vars

(***************************************************************************)
(* Properties.                                                             *)
(***************************************************************************)

\* The values the variables take; indices stay inside the table of records.
TypeOK ==
  /\ pc \in Phase
  /\ portState \in PortState
  /\ recommendedState \in PortState
  /\ events \subseteq Event
  /\ timers \in [Timer -> {"stopped", "running", "expired"}]
  /\ foreignMasterDS \in [records : [Slots -> DataSet], count : 0..Capacity,
                          i : Slots, best : Slots]
  /\ parentDS \in DataSet
  /\ waitingForFollowUp \in BOOLEAN
  /\ recvSyncSequenceId \in Nat
  /\ timestamp_syncRecieve \in PortIdentity
  /\ offsetFromMaster \in Offset

\* The timers that drive each state.
DrivenBy(state) ==
  CASE state \in {"INITIALIZING", "FAULTY"} -> {}
    [] state = "LISTENING" -> {"ANNOUNCE_RECEIPT"}
    [] state \in SlaveState -> {"ANNOUNCE_RECEIPT", DelayTimer}
    [] state = "PASSIVE" -> {"ANNOUNCE_RECEIPT"} \union
         (IF DelayMechanism = "P2P" THEN PeerTimer ELSE {})
    [] state = "MASTER" -> {"SYNC_INTERVAL", "ANNOUNCE_INTERVAL"} \union
         (IF DelayMechanism = "P2P" THEN PeerTimer ELSE {})

\* The active timers are exactly those of the state, however it was reached:
\* the port cannot stop sending or wait for a timeout that never comes, and no
\* timer of an earlier role goes on waking it up.
TimersMatchState ==
  {t \in Timer : timers[t] # "stopped"} = DrivenBy(portState)

\* The third switch of doState runs in the state the decision asked for; a port
\* that waits for an alert has not drifted from it either, except into FAULTY.
RecommendationAgrees ==
  pc \in {"act", "wait"} =>
    \/ portState = recommendedState
    \/ portState = "UNCALIBRATED" /\ recommendedState = "SLAVE"
    \/ portState = "FAULTY" /\ pc = "wait"

\* A slave-only clock never acts as a master, not even when it recovers from a
\* fault, and its own recommendation never asks for it outside bmc.
SlaveOnlyNeverMaster ==
  SlaveOnlyClock => /\ portState \notin {"MASTER", "PASSIVE"}
                    /\ recommendedState \notin {"MASTER", "PASSIVE"}

\* The records in use have been received, and addForeign's index follows them:
\* no timeout or restart of the count brings a blank record into use.
RecordsReceived ==
  /\ \A k \in Slots : k < foreignMasterDS.count =>
       foreignMasterDS.records[k] \in Announces
  /\ foreignMasterDS.count < Capacity => foreignMasterDS.i = foreignMasterDS.count

\* bmc reads records[0] without testing the count: whenever it runs there is a
\* record, also when the decision event was raised by the parent's Announce,
\* which enters none, or has outlived a fault.
DecisionHasARecord == pc = "decide" /\ Decides => foreignMasterDS.count > 0

\* parentDS is what msgPackAnnounce sends beside the clock's own quality: a
\* MASTER (or PASSIVE) port describes itself, whatever it followed before, and a
\* port that follows a master has the data of one Announce of another port.
DataSetMatchesRole ==
  pc \notin {"decide", "follow"} =>
    /\ portState \in {"MASTER", "PASSIVE"} => parentDS = m1
    /\ portState \in SlaveState =>
         \E announce \in Announces :
           parentDS = s1(announce) /\ announce.source # OwnPort

\* A Sync waits for its Follow_Up only while the port follows a master: none is
\* left over for the master followed after a timeout, a fault or a master role.
PendingSyncHasAFollower == waitingForFollowUp => portState \in SlaveState

\* A SLAVE acts on an offset from its current parent that is not uncalibrated:
\* a lost master, a change of parent or a large offset has taken it back to
\* UNCALIBRATED first.
SlaveIsSynchronised ==
  pc = "act" /\ portState = "SLAVE" =>
    /\ offsetFromMaster.origin = parentDS.source
    /\ offsetFromMaster.class # "uncalibrated"

\* bmc selects a record that no other is better than ("Ebest").
BestIsBest ==
  pc = "follow" => \A k \in Slots : k < foreignMasterDS.count =>
    ~BetterThan(foreignMasterDS.records[k],
                foreignMasterDS.records[foreignMasterDS.best])

\* addForeign "checks if Foreign master is already known": one record each.
OneRecordPerMaster ==
  \A j, k \in Slots :
    /\ j < k
    /\ k < foreignMasterDS.count
    => foreignMasterDS.records[j].source # foreignMasterDS.records[k].source

\* A fault is cleared by "troubleshooting": FAULTY is left to INITIALIZING.
FaultIsCleared ==
  [][portState = "FAULTY" => portState' \in {"FAULTY", "INITIALIZING"}]_vars

\* The offset is computed from the two timestamps of one master.
OffsetFromOneMaster == offsetFromMaster.ingress = offsetFromMaster.origin

(***************************************************************************)
(* What the port promises, PortRole, and how this state machine keeps it:  *)
(* a role changes when bmc, or the lack of a decision, has determined what *)
(* toState will be called with.                                            *)
(***************************************************************************)

\* A FAULTY port comes back to what was recommended before the fault.
EffectiveState ==
  CASE pc = "follow" -> Target
    [] pc # "follow" /\ portState = "FAULTY" ->
         IF recommendedState = "SLAVE" THEN "UNCALIBRATED" ELSE recommendedState
    [] OTHER -> portState

AllowedStates ==
  {"LISTENING"} \union (IF SlaveOnlyClock THEN SlaveState
                        ELSE IF OwnClass < 128 THEN {"MASTER", "PASSIVE"}
                        ELSE {"MASTER"} \union SlaveState)

Promise == INSTANCE PortRole WITH
  Port <- {announce.source : announce \in Announces} \ {OwnPort},
  Nobody <- OwnPort,
  Allowed <- AllowedStates,
  StepsBack <- SlaveOnlyClock,
  PeerDelay <- DelayMechanism = "P2P",
  role <- EffectiveState,
  followed <- IF EffectiveState \in SlaveState THEN parentDS.source ELSE OwnPort,
  faulty <- portState = "FAULTY" /\ pc # "follow"

\* The port keeps its promise through every decision, timeout and fault: a
\* SLAVE is calibrated for the master it follows, a change of master goes
\* through UNCALIBRATED, a fault changes neither the role nor the master, and
\* the port is initialised once.
KeepsRolePromise == Promise!RoleSpec
=============================================================================
