---------------------------- MODULE PtpRoleProofs ----------------------------
(***************************************************************************)
(* PtpClock implements PortRole, and its SLAVE is synchronised, for every  *)
(* network, quality, capacity and mechanism.                               *)
(***************************************************************************)
EXTENDS PtpClockProofs

(***************************************************************************)
(* The pending Sync and the offset.                                        *)
(***************************************************************************)

\* toState keeps a pending Sync only between the two slave states.
LEMMA ToStatePending ==
  ASSUME PendingSyncHasAFollower, NEW new, NEW recommended, NEW waiting \in BOOLEAN,
         waiting => portState \in SlaveState,
         toState(new, recommended, waiting)
  PROVE  PendingSyncHasAFollower'
PROOF
  BY DEF toState, InitsClock, PendingSyncHasAFollower, SlaveState

LEMMA DelayRequestPending ==
  ASSUME PendingSyncHasAFollower, NEW waiting \in BOOLEAN,
         waiting => portState \in SlaveState,
         issueDelayReqTimerExpired(waiting)
  PROVE  PendingSyncHasAFollower'
PROOF
  <1>1. CASE Fault(waiting)
    BY <1>1, ToStatePending DEF Fault
  <1>2. CASE ~Fault(waiting)
    BY <1>2 DEF issueDelayReqTimerExpired, PendingSyncHasAFollower
  <1>3. QED
    BY <1>1, <1>2

\* No Sync waits for its Follow_Up outside the slave states.
THEOREM PendingSyncCorrect == Spec => []PendingSyncHasAFollower
PROOF
  <1>1. Init => PendingSyncHasAFollower
    BY DEF Init, PendingSyncHasAFollower
  <1>2. TypeOK /\ PendingSyncHasAFollower /\ [Next]_vars => PendingSyncHasAFollower'
    <2> SUFFICES ASSUME TypeOK, PendingSyncHasAFollower, [Next]_vars
                 PROVE  PendingSyncHasAFollower'
      OBVIOUS
    <2>1. waitingForFollowUp \in BOOLEAN
          /\ (waitingForFollowUp => portState \in SlaveState)
      BY DEF TypeOK, PendingSyncHasAFollower
    <2>2. CASE UNCHANGED <<waitingForFollowUp, portState>>
      BY <2>2 DEF PendingSyncHasAFollower
    <2>3. CASE \/ WakeUp \/ StateDecision \/ NoStateDecision \/ Listen \/ Disregard
               \/ \E t \in Timer : TimerExpires(t)
               \/ \E announce \in Announces : HandleAnnounce(announce)
               \/ UNCHANGED vars
      BY <2>2, <2>3 DEF WakeUp, StateDecision, NoStateDecision, Listen, Disregard,
                        TimerExpires, HandleAnnounce, vars, portVars
    <2>4. CASE FollowRecommendation
      BY <2>1, <2>2, <2>4, ToStatePending DEF FollowRecommendation, portVars
    <2>5. CASE Initialize
      BY <2>1, <2>5, ToStatePending DEF Initialize
    <2>6. CASE AnnounceReceiptTimeout
      <3>1. CASE TakesOver
        BY <2>1, <3>1, ToStatePending DEF TakesOver
      <3>2. CASE ListensAgain
        BY <2>1, <2>2, <3>2, ToStatePending DEF ListensAgain
      <3>3. QED
        BY <2>6, <3>1, <3>2 DEF AnnounceReceiptTimeout
    <2>7. CASE MasterSends
      BY <2>1, <2>2, <2>7, ToStatePending DEF MasterSends, issue, Fault
    <2>8. CASE RequestDelay \/ HandlePassiveSync
      BY <2>1, <2>8, DelayRequestPending DEF RequestDelay, HandlePassiveSync
    <2>9. CASE HandleShortMessage \/ HandleDelayReq \/ HandlePDelayReq
      BY <2>1, <2>9, ToStatePending
      DEF HandleShortMessage, HandleDelayReq, HandlePDelayReq, AnswerFails, Fault
    <2>10. ASSUME NEW sync \in Syncs, HandleTwoStepSync(sync)
           PROVE  PendingSyncHasAFollower'
      BY <2>10 DEF HandleTwoStepSync, FromParent, IsFromCurrentParent,
                   PendingSyncHasAFollower
    <2>11. ASSUME NEW sync \in Syncs, HandleOneStepSync(sync)
           PROVE  PendingSyncHasAFollower'
      BY <2>11, DelayRequestPending DEF HandleOneStepSync
    <2>12. ASSUME NEW followUp \in FollowUps, HandleFollowUp(followUp)
           PROVE  PendingSyncHasAFollower'
      BY <2>12, DelayRequestPending DEF HandleFollowUp
    <2>13. QED
      BY <2>3, <2>4, <2>5, <2>6, <2>7, <2>8, <2>9, <2>10, <2>11, <2>12
      DEF Next, Thread
  <1>3. QED
    BY <1>1, <1>2, TypeCorrect, PTL DEF Spec

(***************************************************************************)
(* A SLAVE is synchronised, end to end.  What is inductive also tells      *)
(* where MASTER_CLOCK_SELECTED can be set: between the offset that raised  *)
(* it and the next call of doState, in which no decision is made.          *)
(***************************************************************************)

Selected ==
  "MASTER_CLOCK_SELECTED" \in events =>
    /\ portState = "UNCALIBRATED" /\ recommendedState = "SLAVE"
    /\ pc \in {"wait", "decide", "follow"}
    /\ "STATE_DECISION_EVENT" \notin events
    /\ offsetFromMaster.origin = parentDS.source
    /\ offsetFromMaster.class # "uncalibrated"

Synchronised ==
  portState = "SLAVE" =>
    /\ \/ offsetFromMaster.origin = parentDS.source
       \/ /\ pc = "follow"
          /\ recommendedState # "SLAVE" \/ "MASTER_CLOCK_CHANGED" \in events
    /\ \/ offsetFromMaster.class # "uncalibrated"
       \/ "SYNCHRONIZATION_FAULT" \in events /\ pc # "act"

Settled == DelayMechanism = "E2E" => Selected /\ Synchronised

\* An offset that is received raises the event it calls for.
LEMMA OffsetSettled ==
  ASSUME TypeOK, Control, Settled, DelayMechanism = "E2E",
         NEW ingress, NEW origin, NEW class \in OffsetClass,
         updateOffset(ingress, origin, class),
         issueDelayReqTimerExpired(FALSE),
         Handled, portState \in SlaveState, origin = parentDS.source,
         UNCHANGED masterVars
  PROVE  Selected' /\ Synchronised'
PROOF
  <1>1. pc = "handle" /\ pc' = "wait" /\ parentDS' = parentDS
    BY DEF Handled, ListenerState, masterVars
  <1>2. /\ recommendedState = "SLAVE"
        /\ "STATE_DECISION_EVENT" \notin events
        /\ "MASTER_CLOCK_SELECTED" \notin events
    BY <1>1 DEF Control, Agreement, Undecided, Settled, Selected, SlaveState
  <1>3. /\ offsetFromMaster'.origin = parentDS.source
        /\ offsetFromMaster'.class = class
    BY DEF updateOffset
  <1>4. /\ "MASTER_CLOCK_SELECTED" \in events' =>
             portState = "UNCALIBRATED" /\ class = "calibrated"
        /\ "STATE_DECISION_EVENT" \notin events'
        /\ portState = "SLAVE" /\ class = "uncalibrated" =>
             "SYNCHRONIZATION_FAULT" \in events'
    BY <1>2 DEF updateOffset
  <1>5. /\ portState' = portState \/ (portState = "SLAVE" /\ portState' = "FAULTY")
        /\ recommendedState' = recommendedState
    BY DEF issueDelayReqTimerExpired, Fault, toState, RecommendedOnEntry
  <1>6. QED
    BY <1>1, <1>2, <1>3, <1>4, <1>5 DEF Selected, Synchronised, SlaveState

\* A step that only leaves a state, or keeps it, with neither flag nor offset.
LEMMA KeepSettled ==
  ASSUME Settled, DelayMechanism = "E2E",
         pc \in {"act", "handle", "request"}, pc' \notin {"follow", "act"},
         portState' = portState \/ portState' \notin SlaveState,
         events' \in {events, events \union {"STATE_DECISION_EVENT"}},
         portState' = "SLAVE" =>
           parentDS'.source = parentDS.source /\ UNCHANGED offsetFromMaster
  PROVE  Selected' /\ Synchronised'
PROOF
  <1>1. "MASTER_CLOCK_SELECTED" \notin events'
    BY DEF Settled, Selected
  <1>2. QED
    BY <1>1 DEF Settled, Selected, Synchronised, SlaveState

\* End to end, the flags and the offset keep up with the parent.
THEOREM SettledCorrect == Spec => []Settled
PROOF
  <1>1. Init => Settled
    BY DEF Init, Settled, Selected, Synchronised
  <1>2. TypeOK /\ Control /\ Settled /\ [Next]_vars => Settled'
    <2> SUFFICES ASSUME TypeOK, Control, Settled, [Next]_vars, DelayMechanism = "E2E"
                 PROVE  Selected' /\ Synchronised'
      BY DEF Settled
    <2>0. Selected /\ Synchronised
      BY DEF Settled
    <2>1. CASE WakeUp
      BY <2>0, <2>1 DEF WakeUp, portVars, masterVars, Selected, Synchronised
    <2>2. CASE UNCHANGED vars \/ \E t \in Timer : TimerExpires(t)
      <3>1. UNCHANGED <<pc, portState, recommendedState, events, parentDS,
                        offsetFromMaster>>
        BY <2>2 DEF vars, TimerExpires, portVars, masterVars
      <3>2. QED
        BY <2>0, <3>1 DEF Selected, Synchronised
    <2>3. CASE NoStateDecision
      <3>1. /\ pc = "decide" /\ pc' = "follow"
            /\ UNCHANGED <<portState, recommendedState, events, parentDS,
                           offsetFromMaster>>
        BY <2>3 DEF NoStateDecision, portVars, masterVars
      <3>2. QED
        BY <2>0, <3>1 DEF Selected, Synchronised
    <2>4. CASE StateDecision
      <3>1. /\ pc' = "follow" /\ portState' = portState
            /\ "STATE_DECISION_EVENT" \in events
        BY <2>4 DEF StateDecision, Decides
      <3>2. "MASTER_CLOCK_SELECTED" \notin events
        BY <2>0, <3>1 DEF Selected
      <3>3. PICK parent, decision, raised :
              /\ NewParent(parent, decision, raised)
              /\ raised \subseteq {"MASTER_CLOCK_CHANGED"}
              /\ \/ decision # "SLAVE" /\ offsetFromMaster' = ZeroOffset
                 \/ decision # "SLAVE" /\ UNCHANGED offsetFromMaster
                 \/ /\ UNCHANGED offsetFromMaster
                    /\ \/ parent.source = parentDS.source
                       \/ raised = {"MASTER_CLOCK_CHANGED"}
        <4>1. PICK best \in BestSlots(foreignMasterDS) :
                LET record == foreignMasterDS.records[best]
                    decision == bmcStateDecision(portState, foreignMasterDS.count, record)
                IN  \/ /\ decision = "MASTER"
                       /\ NewParent(m1, decision, {})
                       /\ offsetFromMaster' = ZeroOffset
                    \/ /\ decision = "SLAVE"
                       /\ NewParent(s1(record), decision,
                            IF record.source = parentDS.source
                              THEN {} ELSE {"MASTER_CLOCK_CHANGED"})
                       /\ UNCHANGED offsetFromMaster
                    \/ /\ decision \notin {"MASTER", "SLAVE"}
                       /\ NewParent(parentDS, decision, {})
                       /\ UNCHANGED offsetFromMaster
          BY <2>4 DEF StateDecision
        <4> DEFINE record == foreignMasterDS.records[best]
        <4>2. foreignMasterDS.count \in 0..Capacity
              /\ foreignMasterDS.records \in [Slots -> DataSet]
          BY DEF TypeOK
        <4>3. record \in DataSet
          BY <4>2, ChoiceType
        <4>4. s1(record).source = record.source
          BY <4>3 DEF s1, DataSet
        <4>5. QED
          BY <4>1, <4>4
      <3>4. /\ recommendedState' = Permitted(decision)
            /\ events' = (events \ {"STATE_DECISION_EVENT"}) \union raised
            /\ parentDS' = parent
        BY <3>3 DEF NewParent
      <3>5. decision # "SLAVE" => recommendedState' # "SLAVE"
        BY <3>4 DEF Permitted
      <3>6. Selected'
        BY <3>2, <3>3, <3>4 DEF Selected
      <3>7. pc # "follow"
        BY <2>4 DEF StateDecision
      <3>8. offsetFromMaster' = ZeroOffset => offsetFromMaster'.class # "uncalibrated"
        BY DEF ZeroOffset
      <3>9. Synchronised'
        BY <2>0, <3>1, <3>3, <3>4, <3>5, <3>7, <3>8 DEF Synchronised
      <3>10. QED
        BY <3>6, <3>9
    <2>5. CASE FollowRecommendation
      <3>1. /\ pc = "follow" /\ pc' = "act"
            /\ events' = events \ Noticed
            /\ UNCHANGED <<parentDS, offsetFromMaster>>
        BY <2>5 DEF FollowRecommendation, masterVars
      <3>2. portState' = Target
        BY <2>5 DEF FollowRecommendation, portVars, toState
      <3>3. "MASTER_CLOCK_SELECTED" \notin events'
        BY <2>0, <3>1 DEF Selected, Noticed
      <3>4. Target = "SLAVE" =>
              \/ /\ portState = "UNCALIBRATED"
                 /\ "MASTER_CLOCK_SELECTED" \in events
              \/ /\ portState = "SLAVE" /\ recommendedState = "SLAVE"
                 /\ "SYNCHRONIZATION_FAULT" \notin events
                 /\ "MASTER_CLOCK_CHANGED" \notin events
        <4>1. recommendedState = "INITIALIZING" => portState # "SLAVE"
          BY DEF Control, Agreement
        <4>2. QED
          BY <4>1 DEF Target
      <3>5. Synchronised'
        BY <2>0, <3>1, <3>2, <3>4 DEF Selected, Synchronised
      <3>6. QED
        BY <3>3, <3>5 DEF Selected
    <2>6. CASE Initialize
      <3>1. /\ pc = "act" /\ pc' = "wait" /\ events' = events
            /\ portState' \in {"INITIALIZING", "LISTENING"}
        BY <2>6 DEF Initialize, toState
      <3>2. QED
        BY <3>1, KeepSettled DEF SlaveState
    <2>7. CASE AnnounceReceiptTimeout
      <3>1. /\ pc = "act" /\ pc' = "wait" /\ events' = events
            /\ portState' \in {"MASTER", "LISTENING"}
        BY <2>7 DEF AnnounceReceiptTimeout, TakesOver, ListensAgain, toState
      <3>2. QED
        BY <3>1, KeepSettled DEF SlaveState
    <2>8. CASE Listen \/ Disregard
      <3>1. /\ pc \in {"act", "handle"} /\ pc' \notin {"follow", "act"} /\ events' = events
            /\ UNCHANGED <<portState, parentDS, offsetFromMaster>>
        BY <2>8 DEF Listen, Disregard, Handled, portVars, masterVars
      <3>2. QED
        BY <3>1, KeepSettled
    <2>9. CASE \/ MasterSends \/ RequestDelay \/ HandleShortMessage
               \/ HandlePassiveSync \/ HandleDelayReq \/ HandlePDelayReq
      <3>1. /\ pc \in {"act", "handle", "request"} /\ pc' \notin {"follow", "act"}
            /\ events' = events
            /\ UNCHANGED <<parentDS, offsetFromMaster>>
        BY <2>9 DEF MasterSends, RequestDelay, HandleShortMessage, HandlePassiveSync,
                    HandleDelayReq, HandlePDelayReq, AnswerFails, Handled, masterVars
      <3>2. portState' \in {portState, "FAULTY"}
        BY <2>9 DEF MasterSends, RequestDelay, HandleShortMessage, HandlePassiveSync,
                    HandleDelayReq, HandlePDelayReq, AnswerFails, issue,
                    issueDelayReqTimerExpired, Fault, toState
      <3>3. QED
        BY <3>1, <3>2, KeepSettled DEF SlaveState
    <2>10. ASSUME NEW announce \in Announces, HandleAnnounce(announce)
           PROVE  Selected' /\ Synchronised'
      <3>1. /\ pc = "handle" /\ pc' \notin {"follow", "act"}
            /\ events' = events \union {"STATE_DECISION_EVENT"}
            /\ UNCHANGED <<portState, offsetFromMaster>>
        BY <2>10 DEF HandleAnnounce, Handled
      <3>2. announce \in DataSet
        BY MessageAssumption
      <3>3. s1(announce).source = announce.source
        BY <3>2 DEF s1, DataSet
      <3>4. parentDS'.source = parentDS.source
        BY <2>10, <3>3 DEF HandleAnnounce, IsFromCurrentParent
      <3>5. QED
        BY <3>1, <3>4, KeepSettled
    <2>11. ASSUME NEW sync \in Syncs, HandleTwoStepSync(sync)
           PROVE  Selected' /\ Synchronised'
      <3>1. /\ pc = "handle" /\ pc' \notin {"follow", "act"} /\ events' = events
            /\ UNCHANGED <<portState, parentDS, offsetFromMaster>>
        BY <2>11 DEF HandleTwoStepSync, Handled, masterVars
      <3>2. QED
        BY <3>1, KeepSettled
    <2>12. ASSUME NEW sync \in Syncs, HandleOneStepSync(sync)
           PROVE  Selected' /\ Synchronised'
      <3>1. /\ Handled /\ portState \in SlaveState
            /\ sync.source = parentDS.source
            /\ UNCHANGED masterVars
            /\ issueDelayReqTimerExpired(FALSE)
        BY <2>12 DEF HandleOneStepSync, FromParent, IsFromCurrentParent, masterVars
      <3>2. PICK class \in OffsetClass : updateOffset(sync.source, sync.source, class)
        BY <2>12 DEF HandleOneStepSync
      <3>3. QED
        BY <3>1, <3>2, OffsetSettled
    <2>13. ASSUME NEW followUp \in FollowUps, HandleFollowUp(followUp)
           PROVE  Selected' /\ Synchronised'
      <3>1. /\ Handled /\ portState \in SlaveState
            /\ followUp.source = parentDS.source
            /\ UNCHANGED masterVars
            /\ issueDelayReqTimerExpired(FALSE)
        BY <2>13 DEF HandleFollowUp, FromParent, IsFromCurrentParent, masterVars
      <3>2. PICK class \in OffsetClass :
              updateOffset(timestamp_syncRecieve, followUp.source, class)
        BY <2>13 DEF HandleFollowUp
      <3>3. QED
        BY <3>1, <3>2, OffsetSettled
    <2>14. QED
      BY <2>1, <2>2, <2>3, <2>4, <2>5, <2>6, <2>7, <2>8, <2>9, <2>10, <2>11,
         <2>12, <2>13 DEF Next, Thread
  <1>3. QED
    BY <1>1, <1>2, TypeCorrect, ControlCorrect, PTL DEF Spec

\* End to end, a SLAVE acts on an offset from its current parent that is not
\* uncalibrated, through changes of master, faults and timeouts.
THEOREM SynchronisedCorrect ==
  Spec => [](DelayMechanism = "E2E" => SlaveIsSynchronised)
PROOF
  <1>1. Settled /\ Control => (DelayMechanism = "E2E" => SlaveIsSynchronised)
    BY DEF Settled, Synchronised, SlaveIsSynchronised, Control, Agreement
  <1>2. QED
    BY <1>1, SettledCorrect, ControlCorrect, PTL

(***************************************************************************)
(* The port keeps its promise.  A step of PtpClock is a step of PortRole,  *)
(* or leaves the role, the master followed and the fault as they are.      *)
(***************************************************************************)

Followed == IF EffectiveState \in SlaveState THEN parentDS.source ELSE OwnPort
Faulty == portState = "FAULTY" /\ pc # "follow"

KeepsRole == UNCHANGED <<EffectiveState, Followed, Faulty>>
RoleStep == Promise!RoleNext \/ KeepsRole

LEMMA RoleStepIsPromised == RoleStep => [Promise!RoleNext]_(Promise!roleVars)
PROOF
  BY DEF RoleStep, KeepsRole, Followed, Faulty, Promise!roleVars

\* Only a clock of class 1 to 127 is recommended to be passive.
Classed == recommendedState = "PASSIVE" => OwnClass < 128

LEMMA ClassedCorrect == Spec => []Classed
PROOF
  <1>1. Init => Classed
    BY DEF Init, Classed
  <1>2. Classed /\ [Next]_vars => Classed'
    <2> SUFFICES ASSUME Classed, [Next]_vars
                 PROVE  Classed'
      OBVIOUS
    <2>1. CASE StateDecision
      <3>1. PICK best \in BestSlots(foreignMasterDS) :
              recommendedState' =
                Permitted(bmcStateDecision(portState, foreignMasterDS.count,
                                           foreignMasterDS.records[best]))
        BY <2>1 DEF StateDecision, NewParent
      <3>2. QED
        BY <3>1 DEF Permitted, bmcStateDecision, Classed
    <2>2. ASSUME ~StateDecision
          PROVE  recommendedState' \in {recommendedState, "MASTER", "LISTENING",
                                        "INITIALIZING"}
      BY <2>2
      DEF Next, Thread, WakeUp, TimerExpires, NoStateDecision, FollowRecommendation,
          Initialize, AnnounceReceiptTimeout, TakesOver, ListensAgain, Listen,
          MasterSends, issue, RequestDelay, issueDelayReqTimerExpired, Disregard,
          HandleShortMessage, HandleAnnounce, HandleTwoStepSync, HandleOneStepSync,
          HandleFollowUp, HandlePassiveSync, HandleDelayReq, HandlePDelayReq,
          AnswerFails, Fault, toState, RecommendedOnEntry, vars, portVars
    <2>3. QED
      BY <2>1, <2>2 DEF Classed
  <1>3. QED
    BY <1>1, <1>2, PTL DEF Spec

\* The ports that a follower can follow.
Ports == {announce.source : announce \in Announces} \ {OwnPort}

\* The configuration allows the role that is recommended, once one is.
Granted ==
  /\ recommendedState # "INITIALIZING" => recommendedState \in AllowedStates
  /\ recommendedState = "SLAVE" =>
       "UNCALIBRATED" \in AllowedStates /\ parentDS.source \in Ports

LEMMA GrantedCorrect == Spec => []Granted
PROOF
  <1>1. Control /\ SlaveOnlyNeverMaster /\ Classed => Granted
    <2> SUFFICES ASSUME Control, SlaveOnlyNeverMaster, Classed,
                        recommendedState # "INITIALIZING"
                 PROVE  Granted
      BY DEF Granted
    <2>1. OwnClass \in Nat
      BY QualityAssumption DEF OwnClass, Attribute, ClockClass
    <2>2. SlaveOnlyClock <=> OwnClass = 255
      BY SlaveOnlyAssumption DEF SlaveOnlyClock
    <2>3. /\ recommendedState \in {"LISTENING", "MASTER", "PASSIVE", "SLAVE"}
          /\ OwnClass < 128 => recommendedState # "SLAVE"
          /\ recommendedState = "PASSIVE" => OwnClass < 128
          /\ OwnClass = 255 => recommendedState \notin {"MASTER", "PASSIVE"}
      BY <2>2 DEF Control, Agreement, Described, Classed, SlaveOnlyNeverMaster
    <2>4. /\ recommendedState \in AllowedStates
          /\ recommendedState = "SLAVE" => "UNCALIBRATED" \in AllowedStates
      BY <2>1, <2>2, <2>3 DEF AllowedStates, SlaveState
    <2>5. ASSUME recommendedState = "SLAVE"
          PROVE  parentDS.source \in Ports
      <3>1. PICK announce \in Received : parentDS = s1(announce)
        BY <2>5 DEF Control, Described
      <3>2. announce \in DataSet
        BY MessageAssumption DEF Received
      <3>3. parentDS.source = announce.source
        BY <3>1, <3>2 DEF s1, DataSet
      <3>4. QED
        BY <3>3 DEF Received, Ports
    <2>6. QED
      BY <2>4, <2>5 DEF Granted
  <1>2. QED
    BY <1>1, ControlCorrect, SlaveOnlyCorrect, ClassedCorrect, PTL

RoleInv == TypeOK /\ Control /\ Settled /\ Granted

LEMMA SameRole ==
  ASSUME pc # "follow", pc' # "follow",
         UNCHANGED <<portState, recommendedState>>,
         parentDS'.source = parentDS.source
  PROVE  KeepsRole
PROOF
  BY DEF KeepsRole, EffectiveState, Followed, Faulty

\* A fault is a Fail, or finds the port FAULTY.
LEMMA FaultFails ==
  ASSUME RoleInv, NEW waiting, Fault(waiting), UNCHANGED parentDS,
         pc \in {"act", "handle", "request"}, pc' # "follow",
         pc = "act" => portState = "MASTER"
  PROVE  RoleStep
PROOF
  <1>1. portState' = "FAULTY" /\ recommendedState' = recommendedState
    BY DEF Fault, toState, RecommendedOnEntry
  <1>2. CASE portState = "FAULTY"
    BY <1>1, <1>2, SameRole DEF RoleStep
  <1>3. CASE portState # "FAULTY"
    <2>1. /\ portState \in ListenerState \union {"MASTER"}
          /\ recommendedState = IF portState \in SlaveState THEN "SLAVE" ELSE portState
      BY <1>3 DEF RoleInv, Control, Agreement, ListenerState, SlaveState
    <2>2. EffectiveState = portState /\ ~Faulty
      BY <1>3 DEF EffectiveState, Faulty
    <2>3. /\ Faulty'
          /\ EffectiveState' = IF portState \in SlaveState THEN "UNCALIBRATED"
                                                          ELSE portState
      BY <1>1, <2>1 DEF EffectiveState, Faulty, SlaveState
    <2>4. EffectiveState' \in AllowedStates
      BY <2>1, <2>3 DEF RoleInv, Granted, ListenerState, SlaveState
    <2>5. Followed' = Followed
      BY <2>2, <2>3 DEF Followed, SlaveState
    <2>6. Promise!Fail
      BY <2>1, <2>2, <2>3, <2>5
      DEF Promise!Fail, Promise!Active, Followed, Faulty, ListenerState, SlaveState
    <2>7. QED
      BY <2>4, <2>6 DEF RoleStep, Promise!RoleNext
  <1>4. QED
    BY <1>2, <1>3

LEMMA DelayRequestRole ==
  ASSUME RoleInv, NEW waiting, issueDelayReqTimerExpired(waiting),
         UNCHANGED parentDS, pc \in {"handle", "request"}, pc' # "follow"
  PROVE  RoleStep
PROOF
  <1>1. CASE Fault(waiting)
    BY <1>1, FaultFails
  <1>2. CASE ~Fault(waiting)
    BY <1>2, SameRole DEF issueDelayReqTimerExpired, RoleStep
  <1>3. QED
    BY <1>1, <1>2

\* bmc's decision is what the port promises to take roles for.
LEMMA DecisionRole ==
  ASSUME RoleInv, Granted', StateDecision
  PROVE  RoleStep
PROOF
  <1>1. /\ pc = "decide" /\ pc' = "follow" /\ portState' = portState
        /\ portState \notin {"INITIALIZING", "FAULTY"}
        /\ "STATE_DECISION_EVENT" \in events
        /\ foreignMasterDS.count > 0
    BY DEF StateDecision, Decides, RoleInv, Control, Undecided
  <1>2. PICK decision :
          /\ recommendedState' = Permitted(decision)
          /\ decision \in {"MASTER", "PASSIVE", "SLAVE"}
          /\ \/ decision # "SLAVE"
             \/ "MASTER_CLOCK_CHANGED" \in events'
             \/ parentDS'.source = parentDS.source
          /\ events' \subseteq events \union {"MASTER_CLOCK_CHANGED"}
    <2>1. PICK best \in BestSlots(foreignMasterDS) :
            LET record == foreignMasterDS.records[best]
                decision == bmcStateDecision(portState, foreignMasterDS.count, record)
            IN  \/ /\ decision = "MASTER"
                   /\ NewParent(m1, decision, {})
                \/ /\ decision = "SLAVE"
                   /\ NewParent(s1(record), decision,
                        IF record.source = parentDS.source
                          THEN {} ELSE {"MASTER_CLOCK_CHANGED"})
                \/ /\ decision \notin {"MASTER", "SLAVE"}
                   /\ NewParent(parentDS, decision, {})
      BY DEF StateDecision
    <2> DEFINE record == foreignMasterDS.records[best]
               chosen == bmcStateDecision(portState, foreignMasterDS.count, record)
    <2>2. chosen \in {"MASTER", "PASSIVE", "SLAVE"}
      BY <1>1 DEF bmcStateDecision, RoleInv, TypeOK
    <2>3. s1(record).source = record.source
      <3>1. foreignMasterDS.count \in 0..Capacity
            /\ foreignMasterDS.records \in [Slots -> DataSet]
        BY DEF RoleInv, TypeOK
      <3>2. record \in DataSet
        BY <3>1, ChoiceType
      <3>3. QED
        BY <3>2 DEF s1, DataSet
    <2>4. QED
      BY <2>1, <2>2, <2>3 DEF NewParent
  <1>3. /\ EffectiveState = portState /\ ~Faulty
        /\ EffectiveState' = Target' /\ ~Faulty'
    BY <1>1 DEF EffectiveState, Faulty
  <1>4. Promise!Active
    BY <1>1, <1>3 DEF Promise!Active, Faulty
  <1>5. CASE recommendedState' # "SLAVE"
    <2>1. /\ Target' = recommendedState'
          /\ recommendedState' \in {"MASTER", "PASSIVE", "LISTENING"}
      BY <1>2, <1>5 DEF Permitted, Target
    <2>2. recommendedState' = "LISTENING" => SlaveOnlyClock
      BY <1>2 DEF Permitted
    <2>3. Followed' = OwnPort
      BY <1>3, <2>1 DEF Followed, SlaveState
    <2>4. Promise!ListenAgain \/ Promise!TakeOver \/ Promise!GiveWay
      BY <1>3, <1>4, <2>1, <2>2, <2>3
      DEF Promise!ListenAgain, Promise!TakeOver, Promise!GiveWay, Promise!TakeRole,
          Followed, Faulty
    <2>5. EffectiveState' \in AllowedStates
      BY <1>3, <2>1 DEF Granted, AllowedStates, SlaveOnlyClock, OwnClass
    <2>6. QED
      BY <2>4, <2>5 DEF RoleStep, Promise!RoleNext
  <1>6. CASE recommendedState' = "SLAVE"
    <2>1. decision = "SLAVE"
      BY <1>2, <1>6 DEF Permitted
    <2>2. parentDS'.source \in Ports
      BY <1>6 DEF Granted, Ports, OwnPort
    <2>3. /\ portState = "UNCALIBRATED" =>
                \/ Target' = "UNCALIBRATED"
                \/ Target' = "SLAVE" /\ "MASTER_CLOCK_SELECTED" \in events'
          /\ portState = "SLAVE" =>
                \/ Target' = "UNCALIBRATED"
                \/ Target' = "SLAVE" /\ "MASTER_CLOCK_CHANGED" \notin events'
          /\ portState \notin SlaveState => Target' = "UNCALIBRATED"
      BY <1>1, <1>6 DEF Target, SlaveState
    <2>4. EffectiveState' \in SlaveState /\ EffectiveState' \in AllowedStates
      <3>1. "SLAVE" \in AllowedStates /\ "UNCALIBRATED" \in AllowedStates
        BY <1>6 DEF Granted, AllowedStates, SlaveOnlyClock, OwnClass
      <3>2. QED
        BY <1>3, <2>3, <3>1 DEF SlaveState
    <2>5. Followed' = parentDS'.source
      BY <2>4 DEF Followed
    <2>6. CASE EffectiveState' = "UNCALIBRATED"
      <3>1. Promise!Follow(parentDS'.source)
        BY <1>3, <1>4, <2>5, <2>6 DEF Promise!Follow, Followed, Faulty
      <3>2. QED
        BY <2>2, <2>4, <3>1 DEF RoleStep, Promise!RoleNext, Ports
    <2>7. CASE portState = "UNCALIBRATED" /\ EffectiveState' = "SLAVE"
      <3>1. DelayMechanism = "P2P"
        BY <1>1, <1>2, <1>3, <2>3, <2>7, MechanismAssumption
        DEF RoleInv, Settled, Selected
      <3>2. Promise!CalibratedForAnother(parentDS'.source)
        BY <1>3, <1>4, <2>5, <2>7, <3>1
        DEF Promise!CalibratedForAnother, Followed, Faulty
      <3>3. QED
        BY <2>2, <2>4, <3>2 DEF RoleStep, Promise!RoleNext, Ports
    <2>8. CASE portState = "SLAVE" /\ EffectiveState' = "SLAVE"
      <3>1. parentDS'.source = parentDS.source
        BY <1>2, <1>3, <2>1, <2>3, <2>8
      <3>2. QED
        BY <1>3, <2>5, <2>8, <3>1 DEF RoleStep, KeepsRole, Followed, Faulty, SlaveState
    <2>9. QED
      BY <1>1, <1>3, <2>3, <2>6, <2>7, <2>8 DEF SlaveState
  <1>7. QED
    BY <1>5, <1>6

\* Without a decision the port comes back from a fault, or its own events
\* calibrate it or take it back.
LEMMA NoDecisionRole ==
  ASSUME RoleInv, NoStateDecision
  PROVE  RoleStep
PROOF
  <1>1. /\ pc = "decide" /\ pc' = "follow"
        /\ UNCHANGED <<portState, recommendedState, events, parentDS>>
    BY DEF NoStateDecision, portVars, masterVars
  <1>2. /\ EffectiveState' = Target /\ ~Faulty'
        /\ Faulty <=> portState = "FAULTY"
    BY <1>1 DEF EffectiveState, Faulty, Target
  <1>3. /\ recommendedState \in {"INITIALIZING", "LISTENING", "MASTER", "PASSIVE",
                                 "SLAVE"}
        /\ recommendedState = "INITIALIZING" => portState = "INITIALIZING"
        /\ \/ portState = recommendedState
           \/ portState = "UNCALIBRATED" /\ recommendedState = "SLAVE"
           \/ portState = "FAULTY"
    BY <1>1 DEF RoleInv, Control, Agreement
  <1>4. CASE portState = "FAULTY"
    <2>1. EffectiveState = IF recommendedState = "SLAVE" THEN "UNCALIBRATED"
                                                        ELSE recommendedState
      BY <1>1, <1>4 DEF EffectiveState
    <2>2. EffectiveState' = EffectiveState
      BY <1>2, <1>3, <1>4, <2>1 DEF Target
    <2>3. EffectiveState' \in AllowedStates
      BY <1>3, <1>4, <2>1, <2>2 DEF RoleInv, Granted
    <2>4. Promise!Resume
      BY <1>1, <1>2, <1>4, <2>2 DEF Promise!Resume, Followed, Faulty
    <2>5. QED
      BY <2>3, <2>4 DEF RoleStep, Promise!RoleNext
  <1>5. CASE portState # "FAULTY"
    <2>1. EffectiveState = portState
      BY <1>1, <1>5 DEF EffectiveState
    <2>2. CASE Target = portState
      BY <1>1, <1>2, <1>5, <2>1, <2>2 DEF RoleStep, KeepsRole, Followed, Faulty
    <2>3. CASE Target # portState
      <3>1. recommendedState = "SLAVE" /\ portState \in SlaveState
        BY <1>3, <1>5, <2>3 DEF Target, SlaveState
      <3>2. "UNCALIBRATED" \in AllowedStates /\ "SLAVE" \in AllowedStates
        BY <3>1 DEF RoleInv, Granted
      <3>3. Promise!Active
        BY <1>2, <1>5, <2>1, <3>1 DEF Promise!Active, Faulty, SlaveState
      <3>4. CASE portState = "UNCALIBRATED"
        <4>1. EffectiveState' = "SLAVE"
          BY <1>2, <2>3, <3>1, <3>4 DEF Target
        <4>2. Promise!Calibrated
          BY <1>1, <1>2, <1>5, <2>1, <3>3, <3>4, <4>1
          DEF Promise!Calibrated, Followed, Faulty, SlaveState
        <4>3. QED
          BY <3>2, <4>1, <4>2 DEF RoleStep, Promise!RoleNext
      <3>5. CASE portState = "SLAVE"
        <4>1. EffectiveState' = "UNCALIBRATED"
          BY <1>2, <2>3, <3>1, <3>5 DEF Target
        <4>2. parentDS.source \in Ports
          BY <3>1 DEF RoleInv, Granted
        <4>3. Promise!Follow(parentDS.source)
          BY <1>1, <1>2, <1>5, <3>3, <4>1
          DEF Promise!Follow, Followed, Faulty, SlaveState
        <4>4. QED
          BY <3>2, <4>1, <4>2, <4>3 DEF RoleStep, Promise!RoleNext, Ports
      <3>6. QED
        BY <3>1, <3>4, <3>5 DEF SlaveState
    <2>4. QED
      BY <2>2, <2>3
  <1>6. QED
    BY <1>4, <1>5

\* A receipt timeout makes the port master, or has it listen again.
LEMMA TimeoutRole ==
  ASSUME RoleInv, AnnounceReceiptTimeout
  PROVE  RoleStep
PROOF
  <1>1. /\ pc = "act" /\ pc' = "wait"
        /\ portState \in ListenerState
    BY DEF AnnounceReceiptTimeout
  <1>2. EffectiveState = portState /\ ~Faulty
    BY <1>1 DEF EffectiveState, Faulty, ListenerState, SlaveState
  <1>3. Promise!Active
    BY <1>1, <1>2 DEF Promise!Active, Faulty, ListenerState, SlaveState
  <1>4. CASE SlaveOnlyClock
    <2>1. portState' = "LISTENING" /\ recommendedState' \in {"LISTENING", recommendedState}
      BY <1>4 DEF AnnounceReceiptTimeout, ListensAgain, toState, RecommendedOnEntry
    <2>2. EffectiveState' = "LISTENING" /\ ~Faulty'
      BY <1>1, <2>1 DEF EffectiveState, Faulty
    <2>3. Promise!ListenAgain
      BY <1>2, <1>3, <1>4, <2>2
      DEF Promise!ListenAgain, Promise!TakeRole, Followed, Faulty, SlaveState
    <2>4. QED
      BY <2>2, <2>3 DEF RoleStep, Promise!RoleNext, AllowedStates
  <1>5. CASE ~SlaveOnlyClock
    <2>1. portState' = "MASTER"
      BY <1>5 DEF AnnounceReceiptTimeout, TakesOver, toState
    <2>2. EffectiveState' = "MASTER" /\ ~Faulty'
      BY <1>1, <2>1 DEF EffectiveState, Faulty
    <2>3. Promise!TakeOver
      BY <1>2, <1>3, <2>2
      DEF Promise!TakeOver, Promise!TakeRole, Followed, Faulty, SlaveState
    <2>4. QED
      BY <1>5, <2>2, <2>3 DEF RoleStep, Promise!RoleNext, AllowedStates
  <1>6. QED
    BY <1>4, <1>5

\* The port keeps its promise, PortRole, for every network, quality, capacity
\* and mechanism.
THEOREM RoleRefinement == Spec => KeepsRolePromise
PROOF
  <1>1. Init => Promise!RoleInit
    BY DEF Init, Promise!RoleInit, EffectiveState, SlaveState
  <1>2. RoleInv /\ Granted' /\ [Next]_vars => [Promise!RoleNext]_(Promise!roleVars)
    <2> SUFFICES ASSUME RoleInv, Granted', [Next]_vars
                 PROVE  RoleStep
      BY RoleStepIsPromised
    <2>1. CASE StateDecision
      BY <2>1, DecisionRole
    <2>2. CASE NoStateDecision
      BY <2>2, NoDecisionRole
    <2>3. CASE FollowRecommendation
      <3>1. /\ pc = "follow" /\ pc' = "act"
            /\ portState' = Target /\ UNCHANGED parentDS
        BY <2>3 DEF FollowRecommendation, portVars, masterVars, toState
      <3>2. portState' # "FAULTY"
        BY <3>1 DEF RoleInv, Control, Agreement, Target
      <3>3. QED
        BY <3>1, <3>2 DEF RoleStep, KeepsRole, Followed, Faulty, EffectiveState
    <2>4. CASE Initialize
      <3>1. /\ pc = "act" /\ pc' = "wait"
            /\ portState = "INITIALIZING" /\ portState' = "LISTENING"
        BY <2>4 DEF Initialize, RoleInv, Control, Agreement, toState
      <3>2. /\ EffectiveState = "INITIALIZING" /\ ~Faulty
            /\ EffectiveState' = "LISTENING" /\ ~Faulty'
        BY <3>1 DEF EffectiveState, Faulty
      <3>3. Promise!Start
        BY <3>2 DEF Promise!Start, Promise!TakeRole, Followed, Faulty, SlaveState
      <3>4. QED
        BY <3>2, <3>3 DEF RoleStep, Promise!RoleNext, AllowedStates
    <2>5. CASE AnnounceReceiptTimeout
      BY <2>5, TimeoutRole
    <2>6. CASE UNCHANGED vars \/ \E t \in Timer : TimerExpires(t)
      <3>1. UNCHANGED <<pc, portState, recommendedState, events, parentDS>>
        BY <2>6 DEF vars, TimerExpires, portVars, masterVars
      <3>2. QED
        BY <3>1 DEF RoleStep, KeepsRole, Followed, Faulty, EffectiveState, Target
    <2>7. CASE \/ WakeUp \/ Listen \/ Disregard
               \/ \E sync \in Syncs : HandleTwoStepSync(sync)
      <3>1. /\ pc # "follow" /\ pc' # "follow"
            /\ UNCHANGED <<portState, recommendedState, parentDS>>
        BY <2>7 DEF WakeUp, Listen, Disregard, HandleTwoStepSync, Handled, portVars,
                    masterVars
      <3>2. QED
        BY <3>1, SameRole DEF RoleStep
    <2>8. CASE \E announce \in Announces : HandleAnnounce(announce)
      <3>1. PICK announce \in Announces : HandleAnnounce(announce)
        BY <2>8
      <3>2. announce \in DataSet
        BY MessageAssumption
      <3>3. s1(announce).source = announce.source
        BY <3>2 DEF s1, DataSet
      <3>4. /\ pc # "follow" /\ pc' # "follow"
            /\ UNCHANGED <<portState, recommendedState>>
            /\ parentDS'.source = parentDS.source
        BY <3>1, <3>3 DEF HandleAnnounce, Handled, IsFromCurrentParent
      <3>5. QED
        BY <3>4, SameRole DEF RoleStep
    <2>9. CASE MasterSends
      <3>1. /\ pc = "act" /\ pc' = "handle" /\ portState = "MASTER"
            /\ UNCHANGED parentDS
        BY <2>9 DEF MasterSends, masterVars
      <3>2. CASE Fault(waitingForFollowUp)
        BY <3>1, <3>2, FaultFails
      <3>3. CASE ~Fault(waitingForFollowUp)
        BY <2>9, <3>1, <3>3, SameRole DEF MasterSends, issue, RoleStep
      <3>4. QED
        BY <3>2, <3>3
    <2>10. CASE RequestDelay \/ HandlePassiveSync
      <3>1. /\ pc \in {"handle", "request"} /\ pc' # "follow"
            /\ UNCHANGED parentDS
            /\ issueDelayReqTimerExpired(waitingForFollowUp)
        BY <2>10 DEF RequestDelay, HandlePassiveSync, Handled, masterVars
      <3>2. QED
        BY <3>1, DelayRequestRole
    <2>11. CASE HandleShortMessage \/ HandleDelayReq \/ HandlePDelayReq
      <3>1. /\ pc = "handle" /\ pc' # "follow"
            /\ UNCHANGED parentDS
            /\ Fault(waitingForFollowUp)
        BY <2>11 DEF HandleShortMessage, HandleDelayReq, HandlePDelayReq, AnswerFails,
                     Handled, masterVars
      <3>2. QED
        BY <3>1, FaultFails
    <2>12. CASE \/ \E sync \in Syncs : HandleOneStepSync(sync)
                \/ \E followUp \in FollowUps : HandleFollowUp(followUp)
      <3>1. /\ pc = "handle" /\ pc' # "follow"
            /\ UNCHANGED parentDS
            /\ issueDelayReqTimerExpired(FALSE)
        BY <2>12 DEF HandleOneStepSync, HandleFollowUp, Handled, masterVars
      <3>2. QED
        BY <3>1, DelayRequestRole
    <2>13. QED
      BY <2>1, <2>2, <2>3, <2>4, <2>5, <2>6, <2>7, <2>8, <2>9, <2>10, <2>11, <2>12
      DEF Next, Thread
  <1>3. QED
    BY <1>1, <1>2, TypeCorrect, ControlCorrect, SettledCorrect, GrantedCorrect, PTL
    DEF Spec, RoleInv, KeepsRolePromise, Promise!RoleSpec
=============================================================================
