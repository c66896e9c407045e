----------------------------- MODULE DelayProofs -----------------------------
(***************************************************************************)
(* Safety of Delay for all ports, configurations, numbers of sequence ids  *)
(* and lifetimes of a request.                                             *)
(***************************************************************************)
EXTENDS Delay, SequenceTheorems, TLAPS

USE RoleAssumption, FlagAssumption, WrapAssumption

(***************************************************************************)
(* Types.                                                                  *)
(***************************************************************************)

RoleType == /\ role \in Role
            /\ followed \in Port \union {Nobody}
            /\ faulty \in BOOLEAN
RequestType == /\ delayMechanism \in {"E2E", "P2P"}
               /\ sentSequenceId \in 0..(Wrap - 1)
               /\ requests \in Seq(Request) /\ Len(requests) <= Lifetime + 1
               /\ timestamp_delayReqSend \in Place
OffsetType == waitingForFollowUp \in BOOLEAN /\ Tms \in Offset /\ offsets \in BOOLEAN
PeerType == /\ pdelay_t1 \in Place /\ pdelay_t2 \in Answer /\ pdelay_t4 \in Answer
            /\ waitingForPDelayRespFollowUp \in BOOLEAN
DelayType == delay # NoDelay =>
               delay \in [kind : {"endToEnd", "oneStep", "twoStep"},
                          state : FollowerRole \union {"MASTER"},
                          offset : Offset, sent : Place,
                          held : SUBSET Answer, last : Answer]

LEMMA TypeParts == TypeOK <=> /\ RoleType /\ RequestType /\ OffsetType /\ PeerType
                              /\ timestamp_syncRecieve \in Arrival
                              /\ heard \subseteq Port /\ DelayType
PROOF
  BY DEF TypeOK, RoleType, RequestType, OffsetType, PeerType, DelayType

LEMMA RoleNextType ==
  ASSUME RoleType, RoleNext
  PROVE  RoleType'
PROOF
  <1>1. role' \in Role
    BY DEF RoleNext
  <1>2. followed' \in Port \union {Nobody} /\ faulty' \in BOOLEAN
    BY DEF RoleNext, Start, ListenAgain, TakeOver, GiveWay, TakeRole, Follow, Calibrated,
           CalibratedForAnother, Fail, Resume, RoleType
  <1>3. QED
    BY <1>1, <1>2 DEF RoleType

LEMMA Places ==
  /\ Zero \in Place /\ 1 \in Place /\ NoAnswer \in Answer
  /\ \A place \in Place : Aged(place) \in Place
  /\ \A answer \in Answer : AgedAnswer(answer) \in Answer
PROOF
  <1>1. Zero \in Place /\ 1 \in Place
    BY DEF Place, Zero, Older
  <1>2. ASSUME NEW place \in Place
        PROVE  Aged(place) \in Place
    BY DEF Place, Aged, Zero, Older
  <1>3. NoAnswer \in Answer
    BY <1>1 DEF NoAnswer, Answer
  <1>4. ASSUME NEW answer \in Answer
        PROVE  AgedAnswer(answer) \in Answer
    BY <1>2 DEF AgedAnswer, Answer
  <1>5. QED
    BY <1>1, <1>2, <1>3, <1>4

\* The new request is the first one; one that is too old leaves the list.
LEMMA OnTheWireList ==
  ASSUME requests \in Seq(Request), Len(requests) <= Lifetime + 1, NEW request \in Request
  PROVE  /\ OnTheWire(request) \in Seq(Request)
         /\ Len(OnTheWire(request)) \in 1..(Lifetime + 1)
         /\ Len(OnTheWire(request)) = IF Len(requests) <= Lifetime
                                        THEN Len(requests) + 1 ELSE Lifetime + 1
         /\ OnTheWire(request)[1] = request
         /\ \A k \in 2..Len(OnTheWire(request)) :
              k - 1 \in 1..Len(requests) /\ OnTheWire(request)[k] = requests[k - 1]
PROOF
  <1> DEFINE all == <<request>> \o requests
             n == IF Len(requests) <= Lifetime THEN Len(requests) + 1 ELSE Lifetime + 1
  <1>1. Len(requests) \in Nat
    BY LenProperties
  <1>2. <<request>> \in Seq(Request) /\ Len(<<request>>) = 1 /\ <<request>>[1] = request
    OBVIOUS
  <1>3. /\ all \in Seq(Request)
        /\ Len(all) = 1 + Len(requests)
        /\ \A k \in 1..(1 + Len(requests)) :
             all[k] = IF k <= 1 THEN <<request>>[k] ELSE requests[k - 1]
    BY <1>2, ConcatProperties
  <1>4. n \in Int /\ n \in 1..(Lifetime + 1) /\ n <= Len(requests) + 1
    BY <1>1
  <1>5. \A k \in 1..n : all[k] \in Request
    BY <1>1, <1>3, <1>4, ElementOfSeq
  <1>6. /\ SubSeq(all, 1, n) \in Seq(Request)
        /\ Len(SubSeq(all, 1, n)) = IF 1 <= n THEN n - 1 + 1 ELSE 0
        /\ \A k \in 1..(n - 1 + 1) : SubSeq(all, 1, n)[k] = all[1 + k - 1]
    <2> HIDE DEF all, n
    <2>1. 1 \in Int
      OBVIOUS
    <2>2. QED
      BY <1>4, <1>5, <2>1, SubSeqProperties
  <1>7. OnTheWire(request) = SubSeq(all, 1, n)
    BY DEF OnTheWire
  <1>8. Len(OnTheWire(request)) = n
    BY <1>4, <1>6, <1>7
  <1>9. \A k \in 1..n : OnTheWire(request)[k] = all[k]
    BY <1>4, <1>6, <1>7
  <1>10. OnTheWire(request)[1] = request
    BY <1>1, <1>2, <1>3, <1>4, <1>9
  <1>11. ASSUME NEW k \in 2..n
         PROVE  k - 1 \in 1..Len(requests) /\ OnTheWire(request)[k] = requests[k - 1]
    <2>1. k \in 1..n /\ k \in 1..(1 + Len(requests)) /\ ~(k <= 1)
      BY <1>1, <1>4
    <2>2. all[k] = requests[k - 1]
      BY <1>3, <2>1
    <2>3. QED
      BY <1>1, <1>4, <1>9, <2>1, <2>2
  <1>12. QED
    BY <1>4, <1>6, <1>7, <1>8, <1>10, <1>11

LEMMA SequenceIds ==
  ASSUME sentSequenceId \in 0..(Wrap - 1)
  PROVE  /\ NextSequenceId \in 0..(Wrap - 1)
         /\ NextSequenceId = IF sentSequenceId + 1 = Wrap THEN 0 ELSE sentSequenceId + 1
PROOF
  <1>1. CASE sentSequenceId + 1 = Wrap
    <2>1. Wrap % Wrap = 0
      BY Z3
    <2>2. QED
      BY <1>1, <2>1 DEF NextSequenceId
  <1>2. CASE sentSequenceId + 1 # Wrap
    <2>1. sentSequenceId + 1 \in 0..(Wrap - 1)
      BY <1>2
    <2>2. (sentSequenceId + 1) % Wrap = sentSequenceId + 1
      BY <2>1, Z3
    <2>3. QED
      BY <1>2, <2>1, <2>2 DEF NextSequenceId
  <1>3. QED
    BY <1>1, <1>2

\* What ports and masters make of arrivals and offsets.
LEMMA Masters ==
  /\ NoOffset \in Offset
  /\ \A p \in Port : Master(p) \in Port \union {Nobody}
  /\ \A p \in Port \union {Nobody} : ArrivalFrom(p) \in Arrival
PROOF
  BY DEF NoOffset, Offset, Arrival, ArrivalFrom, Master

LEMMA InitClockType ==
  ASSUME PeerType, initClock
  PROVE  OffsetType' /\ PeerType' /\ ~waitingForPDelayRespFollowUp' /\ ~offsets'
PROOF
  BY Places, Masters DEF initClock, OffsetType, PeerType

\* The three messages that UpdateOffset and the arrival of a Sync are part of.
HandlesSync(p) == HandleSync(p) \/ HandleOneStepSync(p) \/ HandleFollowUp(p)

\* They come from a follower's master and change an offset as UpdateOffset says.
LEMMA SyncStep ==
  ASSUME NEW p \in Port, HandlesSync(p)
  PROVE  /\ Follows(p) /\ delay' = NoDelay
         /\ UNCHANGED <<roleVars, delayMechanism, requestVars>>
         /\ timestamp_syncRecieve' \in {timestamp_syncRecieve, ArrivalFrom(Master(p))}
         /\ \/ initClock
            \/ /\ UNCHANGED peerVars
               /\ offsets' \in {offsets, TRUE} /\ waitingForFollowUp' \in BOOLEAN
               /\ \/ Tms' = Tms /\ offsets' = offsets
                  \/ \E ingress \in {timestamp_syncRecieve, ArrivalFrom(Master(p))} :
                       Tms' = [ingress |-> ingress, origin |-> Master(p)]
PROOF
  <1>1. CASE HandleSync(p)
    BY <1>1 DEF HandleSync
  <1>2. CASE HandleOneStepSync(p)
    BY <1>2 DEF HandleOneStepSync, UpdateOffset
  <1>3. CASE HandleFollowUp(p)
    BY <1>3 DEF HandleFollowUp, UpdateOffset
  <1>4. QED
    BY <1>1, <1>2, <1>3 DEF HandlesSync

LEMMA AnsweredPlaces ==
  ASSUME RequestType, NEW k \in Answered
  PROVE  k \in 1..Len(requests) /\ k \in Place /\ k # Zero
PROOF
  <1>1. k \in 1..Len(requests) /\ Len(requests) \in Nat
    BY LenProperties DEF Answered, RequestType
  <1>2. QED
    BY <1>1 DEF RequestType, Place, Zero, Older

\* The variables have their types in every reachable state.
THEOREM TypeCorrect == Spec => []TypeOK
PROOF
  <1>1. Init => TypeOK
    <2> SUFFICES ASSUME Init PROVE TypeOK
      OBVIOUS
    <2>1. RoleType
      BY DEF Init, RoleInit, RoleType, Role
    <2>2. RequestType
      BY Places, EmptySeq DEF Init, RequestType
    <2>3. OffsetType /\ PeerType
      BY Places, Masters DEF Init, OffsetType, PeerType
    <2>4. timestamp_syncRecieve \in Arrival /\ heard \subseteq Port /\ DelayType
      BY Masters DEF Init, DelayType
    <2>5. QED
      BY <2>1, <2>2, <2>3, <2>4, TypeParts
  <1>2. TypeOK /\ [Next]_vars => TypeOK'
    <2> SUFFICES ASSUME TypeOK, [Next]_vars PROVE TypeOK'
      OBVIOUS
    <2>0. /\ RoleType /\ RequestType /\ OffsetType /\ PeerType
          /\ timestamp_syncRecieve \in Arrival /\ heard \subseteq Port /\ DelayType
      BY TypeParts
    <2> SUFFICES /\ RoleType' /\ RequestType' /\ OffsetType' /\ PeerType'
                 /\ timestamp_syncRecieve' \in Arrival
                 /\ heard' \subseteq Port /\ DelayType'
      BY TypeParts DEF TypeOK, RoleType, RequestType, OffsetType, PeerType, DelayType
    <2>1. CASE UNCHANGED vars
      BY <2>0, <2>1
      DEF vars, roleVars, requestVars, offsetVars, peerVars, RoleType, RequestType,
          OffsetType, PeerType, DelayType
    <2>2. CASE ChangeRole
      <3>1. /\ RoleNext /\ delay' = NoDelay
            /\ UNCHANGED <<delayMechanism, requestVars>>
            /\ initClock \/ UNCHANGED <<offsetVars, peerVars>>
            /\ timestamp_syncRecieve' \in {timestamp_syncRecieve,
                 [timestamp_syncRecieve EXCEPT !.overtaken = TRUE]}
        BY <2>2 DEF ChangeRole
      <3>2. RoleType'
        BY <2>0, <3>1, RoleNextType
      <3>3. OffsetType' /\ PeerType'
        BY <2>0, <3>1, InitClockType DEF offsetVars, peerVars, OffsetType, PeerType
      <3>4. timestamp_syncRecieve' \in Arrival
        BY <2>0, <3>1 DEF Arrival
      <3>5. QED
        BY <2>0, <3>1, <3>2, <3>3, <3>4 DEF requestVars, RequestType, DelayType
    <2>3. ASSUME NEW p \in Port, HandlesSync(p)
          PROVE  /\ RoleType' /\ RequestType' /\ OffsetType' /\ PeerType'
                 /\ timestamp_syncRecieve' \in Arrival
                 /\ heard' \subseteq Port /\ DelayType'
      <3>1. /\ delay' = NoDelay
            /\ UNCHANGED <<roleVars, delayMechanism, requestVars>>
            /\ timestamp_syncRecieve' \in {timestamp_syncRecieve, ArrivalFrom(Master(p))}
        BY <2>3, SyncStep
      <3>2. ArrivalFrom(Master(p)) \in Arrival /\ Master(p) \in Port \union {Nobody}
        BY Masters
      <3>3. timestamp_syncRecieve' \in Arrival
        BY <2>0, <3>1, <3>2
      <3>4. CASE initClock
        BY <2>0, <3>1, <3>3, <3>4, InitClockType
        DEF roleVars, requestVars, RoleType, RequestType, DelayType
      <3>5. CASE ~initClock
        <4>1. /\ UNCHANGED peerVars
              /\ offsets' \in {offsets, TRUE} /\ waitingForFollowUp' \in BOOLEAN
              /\ \/ Tms' = Tms
                 \/ \E ingress \in {timestamp_syncRecieve, ArrivalFrom(Master(p))} :
                      Tms' = [ingress |-> ingress, origin |-> Master(p)]
          BY <2>3, <3>5, SyncStep
        <4>2. Tms' \in Offset
          BY <2>0, <3>2, <4>1 DEF Offset, OffsetType
        <4>3. OffsetType' /\ PeerType'
          BY <2>0, <4>1, <4>2 DEF peerVars, OffsetType, PeerType
        <4>4. QED
          BY <2>0, <3>1, <3>3, <4>3
          DEF roleVars, requestVars, RoleType, RequestType, DelayType
      <3>6. QED
        BY <3>4, <3>5
    <2>4. CASE IssueRequest
      <3>1. PICK stamped \in BOOLEAN :
              /\ requests' = OnTheWire([seq |-> sentSequenceId, stamped |-> stamped,
                                        failed |-> FALSE])
              /\ sentSequenceId' = NextSequenceId
              /\ timestamp_delayReqSend' \in {1, Aged(timestamp_delayReqSend)}
              /\ pdelay_t1' \in {1, Aged(pdelay_t1)}
        BY <2>4 DEF IssueRequest
      <3>2. [seq |-> sentSequenceId, stamped |-> stamped, failed |-> FALSE] \in Request
        BY <2>0 DEF Request, RequestType
      <3>3. requests' \in Seq(Request) /\ Len(requests') <= Lifetime + 1
        BY <2>0, <3>1, <3>2, OnTheWireList DEF RequestType
      <3>4. /\ UNCHANGED <<roleVars, delayMechanism, timestamp_syncRecieve, offsetVars,
                           waitingForPDelayRespFollowUp>>
            /\ pdelay_t2' = AgedAnswer(pdelay_t2) /\ pdelay_t4' = AgedAnswer(pdelay_t4)
            /\ heard' = {} /\ delay' = NoDelay
        BY <2>4 DEF IssueRequest
      <3>5. RequestType'
        BY <2>0, <3>1, <3>3, <3>4, Places, SequenceIds DEF RequestType
      <3>6. PeerType'
        BY <2>0, <3>1, <3>4, Places DEF PeerType
      <3>7. QED
        BY <2>0, <3>4, <3>5, <3>6
        DEF roleVars, offsetVars, RoleType, OffsetType, DelayType
    <2>5. CASE RequestFails
      <3>1. /\ Fail /\ initClock
            /\ requests' = OnTheWire([seq |-> sentSequenceId, stamped |-> FALSE,
                                      failed |-> TRUE])
            /\ timestamp_delayReqSend' = Aged(timestamp_delayReqSend)
            /\ heard' = {} /\ delay' = NoDelay
            /\ UNCHANGED <<delayMechanism, sentSequenceId, timestamp_syncRecieve>>
        BY <2>5 DEF RequestFails
      <3>2. [seq |-> sentSequenceId, stamped |-> FALSE, failed |-> TRUE] \in Request
        BY <2>0 DEF Request, RequestType
      <3>3. requests' \in Seq(Request) /\ Len(requests') <= Lifetime + 1
        BY <2>0, <3>1, <3>2, OnTheWireList DEF RequestType
      <3>4. RoleType'
        BY <2>0, <3>1 DEF Fail, RoleType, Role, FollowerRole
      <3>5. RequestType'
        BY <2>0, <3>1, <3>3, Places DEF RequestType
      <3>6. QED
        BY <2>0, <3>1, <3>4, <3>5, InitClockType DEF DelayType
    <2>6. ASSUME NEW p \in Port, NEW k \in 1..(Lifetime + 1),
                 \/ HandleDelayResp(p, k)
                 \/ HandlePDelayResp(p, k) \/ HandleOneStepPDelayResp(p, k)
                 \/ HandlePDelayRespFollowUp(p, k)
          PROVE  /\ RoleType' /\ RequestType' /\ OffsetType' /\ PeerType'
                 /\ timestamp_syncRecieve' \in Arrival
                 /\ heard' \subseteq Port /\ DelayType'
      <3>1. k \in Answered
        BY <2>6 DEF HandleDelayResp, HandlePDelayResp, HandleOneStepPDelayResp,
                    HandlePDelayRespFollowUp
      <3>2. k \in Place
        BY <2>0, <3>1, AnsweredPlaces
      <3>3. [from |-> p, at |-> k] \in Answer
        BY <3>2 DEF Answer
      <3>4. /\ UNCHANGED <<roleVars, delayMechanism, sentSequenceId, requests,
                           timestamp_delayReqSend, timestamp_syncRecieve, offsetVars,
                           pdelay_t1>>
            /\ pdelay_t2' \in {pdelay_t2, [from |-> p, at |-> k]}
            /\ pdelay_t4' \in {pdelay_t4, [from |-> p, at |-> k]}
            /\ waitingForPDelayRespFollowUp' \in
                 {waitingForPDelayRespFollowUp, TRUE, FALSE}
            /\ heard' \subseteq heard \union {p}
        BY <2>6 DEF HandleDelayResp, HandlePDelayResp, HandleOneStepPDelayResp,
                    HandlePDelayRespFollowUp, requestVars, offsetVars, peerVars
      <3>5. /\ RoleType' /\ RequestType' /\ OffsetType' /\ heard' \subseteq Port
            /\ timestamp_syncRecieve' \in Arrival
        BY <2>0, <3>4 DEF roleVars, offsetVars, RoleType, RequestType, OffsetType
      <3>6. PeerType'
        BY <2>0, <3>3, <3>4 DEF PeerType
      <3>7. DelayType'
        <4>1. \/ delay' = NoDelay
              \/ \E kind \in {"endToEnd", "oneStep", "twoStep"},
                    state \in FollowerRole \union {"MASTER"},
                    offset \in Offset, sent \in Place,
                    held \in SUBSET Answer :
                   delay' = [kind |-> kind, state |-> state, offset |-> offset,
                             sent |-> sent, held |-> held,
                             last |-> [from |-> p, at |-> k]]
          <5>1. CASE HandleDelayResp(p, k)
            BY <2>0, <5>1 DEF HandleDelayResp, Follows, RequestType, OffsetType
          <5>2. CASE HandlePDelayResp(p, k)
            BY <5>2 DEF HandlePDelayResp
          <5>3. CASE HandleOneStepPDelayResp(p, k)
            BY <2>0, <5>3, Masters
            DEF HandleOneStepPDelayResp, HandlesPeers, PeerType, FollowerRole
          <5>4. CASE HandlePDelayRespFollowUp(p, k)
            <6>1. /\ role \in FollowerRole \union {"MASTER"}
                  /\ {pdelay_t2, pdelay_t4} \in SUBSET Answer
                  /\ pdelay_t1 \in Place
              BY <2>0, <5>4
              DEF HandlePDelayRespFollowUp, HandlesPeers, PeerType, FollowerRole
            <6>2. delay' = [kind |-> "twoStep", state |-> role, offset |-> NoOffset,
                            sent |-> pdelay_t1, held |-> {pdelay_t2, pdelay_t4},
                            last |-> [from |-> p, at |-> k]]
              BY <5>4 DEF HandlePDelayRespFollowUp
            <6>3. QED
              BY <6>1, <6>2, Masters
          <5>5. QED
            BY <2>6, <5>1, <5>2, <5>3, <5>4
        <4>2. QED
          BY <3>3, <4>1 DEF DelayType
      <3>8. QED
        BY <3>5, <3>6, <3>7
    <2>7. QED
      BY <2>1, <2>2, <2>3, <2>4, <2>5, <2>6 DEF Next, HandlesSync
  <1>3. QED
    BY <1>1, <1>2, PTL DEF Spec

(***************************************************************************)
(* The answer that waits, and the master of a delay.                       *)
(***************************************************************************)

\* A port that waits for a follow-up still holds the answer it follows up.
THEOREM WaitingCorrect == Spec => []WaitingHasAnswer
PROOF
  <1>1. Init => WaitingHasAnswer
    BY DEF Init, WaitingHasAnswer
  <1>2. TypeOK /\ WaitingHasAnswer /\ [Next]_vars => WaitingHasAnswer'
    <2> SUFFICES ASSUME TypeOK, WaitingHasAnswer, [Next]_vars,
                        waitingForPDelayRespFollowUp'
                 PROVE  WaitingHasAnswer'
      BY DEF WaitingHasAnswer
    <2>1. CASE UNCHANGED vars
      BY <2>1 DEF vars, roleVars, peerVars, WaitingHasAnswer, Active
    <2>2. CASE ChangeRole
      <3>1. /\ RoleNext /\ ~InitsClock(State, State')
            /\ UNCHANGED peerVars
        BY <2>2 DEF ChangeRole, initClock
      <3>2. /\ waitingForPDelayRespFollowUp
            /\ UNCHANGED <<pdelay_t2, pdelay_t4, waitingForPDelayRespFollowUp>>
        BY <3>1 DEF peerVars
      <3>3. /\ pdelay_t2 = pdelay_t4 /\ pdelay_t2.at # Zero
            /\ Active /\ role \in FollowerRole \union {"MASTER"}
        BY <3>2 DEF WaitingHasAnswer
      <3>4. State = role
        BY <3>3 DEF State, Active
      <3>5. role' \in Role \ {"INITIALIZING"}
        BY <3>1 DEF RoleNext
      <3>6. CASE role = "MASTER"
        <4>1. State' = "MASTER"
          BY <3>1, <3>4, <3>6 DEF InitsClock, OwnRole
        <4>2. ~faulty' /\ role' = "MASTER"
          BY <4>1 DEF State
        <4>3. QED
          BY <3>2, <3>3, <4>2 DEF WaitingHasAnswer, Active
      <3>7. CASE role \in FollowerRole
        <4>1. State' \in FollowerRole
          BY <3>1, <3>4, <3>7 DEF InitsClock
        <4>2. ~faulty' /\ role' \in FollowerRole
          BY <4>1 DEF State, FollowerRole
        <4>3. QED
          BY <3>2, <3>3, <3>5, <4>2 DEF WaitingHasAnswer, Active
      <3>8. QED
        BY <3>3, <3>6, <3>7
    <2>3. ASSUME NEW p \in Port, HandlesSync(p)
          PROVE  WaitingHasAnswer'
      <3>1. UNCHANGED roleVars /\ (initClock \/ UNCHANGED peerVars)
        BY <2>3, SyncStep
      <3>2. UNCHANGED <<roleVars, peerVars>>
        BY <3>1 DEF initClock
      <3>3. QED
        BY <3>2 DEF roleVars, peerVars, WaitingHasAnswer, Active
    <2>4. CASE IssueRequest
      <3>1. /\ UNCHANGED <<roleVars, waitingForPDelayRespFollowUp>>
            /\ pdelay_t2' = AgedAnswer(pdelay_t2) /\ pdelay_t4' = AgedAnswer(pdelay_t4)
        BY <2>4 DEF IssueRequest
      <3>2. pdelay_t2 \in Answer /\ pdelay_t2 = pdelay_t4 /\ pdelay_t2.at # Zero
        BY <3>1 DEF WaitingHasAnswer, TypeOK
      <3>3. pdelay_t2'.at = Aged(pdelay_t2.at)
        BY <3>1, <3>2 DEF AgedAnswer, Answer
      <3>4. pdelay_t2'.at # Zero
        BY <3>2, <3>3 DEF Answer, Aged, Place, Zero, Older
      <3>5. QED
        BY <3>1, <3>2, <3>4 DEF roleVars, WaitingHasAnswer, Active
    <2>5. CASE RequestFails
      BY <2>5 DEF RequestFails, initClock
    <2>6. ASSUME NEW p \in Port, NEW k \in 1..(Lifetime + 1),
                 \/ HandleDelayResp(p, k)
                 \/ HandlePDelayResp(p, k) \/ HandleOneStepPDelayResp(p, k)
                 \/ HandlePDelayRespFollowUp(p, k)
          PROVE  WaitingHasAnswer'
      <3>1. CASE HandleDelayResp(p, k)
        BY <3>1 DEF HandleDelayResp, roleVars, peerVars, WaitingHasAnswer, Active
      <3>2. CASE HandlePDelayResp(p, k)
        <4>1. k # Zero
          BY DEF Zero
        <4>2. QED
          BY <3>2, <4>1
          DEF HandlePDelayResp, HandlesPeers, roleVars, WaitingHasAnswer, Active,
              FollowerRole
      <3>3. QED
        BY <2>6, <3>1, <3>2 DEF HandleOneStepPDelayResp, HandlePDelayRespFollowUp
    <2>7. QED
      BY <2>1, <2>2, <2>3, <2>4, <2>5, <2>6 DEF Next, HandlesSync
  <1>3. QED
    BY <1>1, <1>2, TypeCorrect, PTL DEF Spec

\* End to end, the offsets of a SLAVE are computed with a time of the master it
\* follows; the Sync that waits is that master's or was overtaken, and so is the Sync
\* of every offset.
Measured ==
  delayMechanism = "E2E" =>
    /\ role = "SLAVE" /\ offsets => Tms.origin = followed
    /\ Tms.ingress.from = Tms.origin \/ Tms.ingress.overtaken
    /\ waitingForFollowUp =>
         /\ State \in FollowerRole
         /\ timestamp_syncRecieve.from = followed \/ timestamp_syncRecieve.overtaken

\* A change of role leaves a Sync waiting only if the port follows a master before and
\* after; if that is another master, the Sync is overtaken.
LEMMA MeasuredAsRolesChange ==
  ASSUME TypeOK, Measured, ChangeRole
  PROVE  Measured'
PROOF
  <1>1. /\ delayMechanism = "E2E" /\ role' = "SLAVE" /\ offsets => Tms.origin = followed'
        /\ UNCHANGED delayMechanism
    BY DEF ChangeRole
  <1>2. CASE initClock
    <2>1. ~offsets' /\ ~waitingForFollowUp' /\ Tms' = NoOffset
      BY <1>2 DEF initClock
    <2>2. QED
      BY <2>1 DEF Measured, NoOffset, ArrivalFrom
  <1>3. CASE ~initClock
    <2>1. ~InitsClock(State, State') /\ UNCHANGED <<waitingForFollowUp, Tms, offsets>>
      BY <1>3 DEF ChangeRole, offsetVars
    <2>2. ASSUME delayMechanism = "E2E", waitingForFollowUp
          PROVE  /\ State' \in FollowerRole
                 /\ \/ timestamp_syncRecieve'.from = followed'
                    \/ timestamp_syncRecieve'.overtaken
      <3>1. /\ State \in FollowerRole
            /\ timestamp_syncRecieve.from = followed \/ timestamp_syncRecieve.overtaken
        BY <2>2 DEF Measured
      <3>2. State' \in FollowerRole
        BY <2>1, <3>1 DEF InitsClock
      <3>3. timestamp_syncRecieve' =
              IF followed' # followed
                THEN [timestamp_syncRecieve EXCEPT !.overtaken = TRUE]
                ELSE timestamp_syncRecieve
        BY <3>1, <3>2 DEF ChangeRole
      <3>4. timestamp_syncRecieve \in Arrival
        BY DEF TypeOK
      <3>5. QED
        BY <3>1, <3>2, <3>3, <3>4 DEF Arrival
    <2>3. QED
      BY <1>1, <2>1, <2>2 DEF Measured
  <1>4. QED
    BY <1>2, <1>3

\* An offset pairs the time of the current parent with the arrival of its Sync, or of
\* the one that waits.
LEMMA MeasuredAsSyncsArrive ==
  ASSUME TypeOK, Measured, NEW p \in Port, HandlesSync(p)
  PROVE  Measured'
PROOF
  <1> SUFFICES ASSUME delayMechanism = "E2E"
               PROVE  Measured'
    BY SyncStep DEF Measured
  <1>1. /\ role \in FollowerRole /\ State = role /\ p = followed /\ Master(p) = p
        /\ UNCHANGED <<role, followed, faulty, delayMechanism>>
    BY SyncStep DEF Follows, Active, State, IsFromCurrentParent, Master, roleVars
  <1>2. State' \in FollowerRole
    BY <1>1 DEF State
  <1>3. ArrivalFrom(p).from = p
    BY DEF ArrivalFrom
  <1>4. CASE initClock
    <2>1. ~offsets' /\ ~waitingForFollowUp' /\ Tms' = NoOffset
      BY <1>4 DEF initClock
    <2>2. QED
      BY <2>1 DEF Measured, NoOffset, ArrivalFrom
  <1>5. CASE HandleSync(p)
    <2>1. /\ timestamp_syncRecieve' = ArrivalFrom(p)
          /\ UNCHANGED <<Tms, offsets>>
      BY <1>1, <1>5 DEF HandleSync
    <2>2. QED
      BY <1>1, <1>2, <1>3, <2>1 DEF Measured
  <1>6. CASE ~initClock /\ (HandleOneStepSync(p) \/ HandleFollowUp(p))
    <2>1. PICK ingress :
            /\ \/ ingress = ArrivalFrom(p)
               \/ waitingForFollowUp /\ ingress = timestamp_syncRecieve
            /\ Tms' = [ingress |-> ingress, origin |-> p]
            /\ waitingForFollowUp' = FALSE
      BY <1>1, <1>6 DEF HandleOneStepSync, HandleFollowUp, UpdateOffset
    <2>2. ingress.from = p \/ ingress.overtaken
      BY <1>1, <1>3, <2>1 DEF Measured
    <2>3. QED
      BY <1>1, <2>1, <2>2 DEF Measured
  <1>7. QED
    BY <1>4, <1>5, <1>6 DEF HandlesSync

\* The path delay a SLAVE computes is that to the master it follows, but for a Sync
\* that was overtaken.
THEOREM SlaveDelayCorrect == Spec => []SlaveDelayFromItsMaster
PROOF
  <1>1. Init => Measured /\ SlaveDelayFromItsMaster
    BY DEF Init, RoleInit, Measured, SlaveDelayFromItsMaster, NoOffset, ArrivalFrom
  <1>2. TypeOK /\ Measured /\ SlaveDelayFromItsMaster /\ [Next]_vars
          => Measured' /\ SlaveDelayFromItsMaster'
    <2> SUFFICES ASSUME TypeOK, Measured, SlaveDelayFromItsMaster, [Next]_vars
                 PROVE  Measured' /\ SlaveDelayFromItsMaster'
      OBVIOUS
    <2>a. delay' = NoDelay => SlaveDelayFromItsMaster'
      BY DEF SlaveDelayFromItsMaster
    <2>b. ASSUME UNCHANGED <<roleVars, delayMechanism, timestamp_syncRecieve, offsetVars>>
          PROVE  Measured'
      BY <2>b DEF roleVars, offsetVars, Measured, State
    <2>1. CASE UNCHANGED vars
      BY <2>1, <2>b DEF vars, SlaveDelayFromItsMaster
    <2>2. CASE ChangeRole
      BY <2>2, <2>a, MeasuredAsRolesChange DEF ChangeRole
    <2>3. ASSUME NEW p \in Port, HandlesSync(p)
          PROVE  Measured' /\ SlaveDelayFromItsMaster'
      BY <2>3, <2>a, MeasuredAsSyncsArrive, SyncStep
    <2>4. CASE IssueRequest
      BY <2>4, <2>a, <2>b DEF IssueRequest
    <2>5. CASE RequestFails
      <3>1. /\ ~offsets' /\ ~waitingForFollowUp' /\ Tms' = NoOffset
            /\ delay' = NoDelay
        BY <2>5 DEF RequestFails, initClock
      <3>2. QED
        BY <2>a, <3>1 DEF Measured, NoOffset, ArrivalFrom
    <2>6. ASSUME NEW p \in Port, NEW k \in 1..(Lifetime + 1),
                 \/ HandleDelayResp(p, k)
                 \/ HandlePDelayResp(p, k) \/ HandleOneStepPDelayResp(p, k)
                 \/ HandlePDelayRespFollowUp(p, k)
          PROVE  Measured' /\ SlaveDelayFromItsMaster'
      <3>1. UNCHANGED <<roleVars, delayMechanism, timestamp_syncRecieve, offsetVars>>
        BY <2>6 DEF HandleDelayResp, HandlePDelayResp, HandleOneStepPDelayResp,
                    HandlePDelayRespFollowUp
      <3>2. Measured'
        BY <2>b, <3>1
      <3>3. CASE HandleDelayResp(p, k)
        <4>1. /\ delayMechanism = "E2E" /\ offsets /\ p = followed
              /\ delay' = [kind |-> "endToEnd", state |-> role, offset |-> Tms,
                           sent |-> timestamp_delayReqSend,
                           held |-> {}, last |-> [from |-> p, at |-> k]]
          BY <3>3 DEF HandleDelayResp, Follows, IsFromCurrentParent
        <4>2. QED
          BY <3>2, <4>1 DEF Measured, SlaveDelayFromItsMaster
      <3>4. CASE ~HandleDelayResp(p, k)
        <4>1. delay' = NoDelay \/ delay'.kind \in {"oneStep", "twoStep"}
          BY <2>6, <3>4 DEF HandlePDelayResp, HandleOneStepPDelayResp,
                            HandlePDelayRespFollowUp
        <4>2. QED
          BY <3>2, <4>1 DEF SlaveDelayFromItsMaster
      <3>5. QED
        BY <3>3, <3>4
    <2>7. QED
      BY <2>1, <2>2, <2>3, <2>4, <2>5, <2>6 DEF Next, HandlesSync
  <1>3. QED
    BY <1>1, <1>2, TypeCorrect, PTL DEF Spec

(***************************************************************************)
(* The answer meets its request.  A request that was sent is as many ids   *)
(* behind the next one as requests have been sent since: fewer than Wrap,  *)
(* so that only the last one sent has the id that answers are matched by.  *)
(***************************************************************************)

\* How many ids a request is behind the next one.
Behind(request) ==
  IF request.seq < sentSequenceId THEN sentSequenceId - request.seq
                                  ELSE sentSequenceId + Wrap - request.seq

Numbered ==
  /\ \A k \in 1..Len(requests) : ~requests[k].failed =>
       Behind(requests[k]) >= 1 /\ Behind(requests[k]) <= k
  /\ \A j, k \in 1..Len(requests) :
       j < k /\ ~requests[j].failed /\ ~requests[k].failed =>
         Behind(requests[j]) < Behind(requests[k])

\* The departure time that is kept.
Departure == IF delayMechanism = "E2E" THEN timestamp_delayReqSend ELSE pdelay_t1

\* It is that of the last request that has one, or of one that has left the list.
Departed ==
  /\ \A k \in 1..Len(requests) : requests[k].stamped => ~requests[k].failed
  /\ Departure \in 1..(Lifetime + 1) =>
       Departure \in 1..Len(requests) /\ requests[Departure].stamped
  /\ Departure # Zero => \A k \in 1..Len(requests) :
       requests[k].stamped => Departure <= k

\* The next request, whether it is sent or fails.
LEMMA NextRequest ==
  ASSUME RequestType, NEW request \in Request, requests' = OnTheWire(request)
  PROVE  /\ Len(requests) \in Nat
         /\ Len(requests') \in 1..(Lifetime + 1)
         /\ Len(requests') = IF Len(requests) <= Lifetime
                               THEN Len(requests) + 1 ELSE Lifetime + 1
         /\ requests'[1] = request
         /\ \A k \in 1..Len(requests') : k = 1 \/
              /\ k \in 2..Len(requests') /\ k - 1 \in 1..Len(requests)
              /\ requests'[k] = requests[k - 1]
         /\ \A k \in 1..Len(requests) : requests[k] \in Request
PROOF
  <1>1. /\ requests \in Seq(Request) /\ Len(requests) <= Lifetime + 1
        /\ Len(requests) \in Nat
    BY LenProperties DEF RequestType
  <1>2. /\ Len(requests') \in 1..(Lifetime + 1)
        /\ Len(requests') = IF Len(requests) <= Lifetime
                              THEN Len(requests) + 1 ELSE Lifetime + 1
        /\ requests'[1] = request
        /\ \A k \in 2..Len(requests') :
             k - 1 \in 1..Len(requests) /\ requests'[k] = requests[k - 1]
    BY <1>1, OnTheWireList
  <1>3. \A k \in 1..Len(requests') : k = 1 \/ k \in 2..Len(requests')
    BY <1>2
  <1>4. \A k \in 1..Len(requests) : requests[k] \in Request
    BY <1>1, ElementOfSeq
  <1>5. QED
    BY <1>1, <1>2, <1>3, <1>4

\* As the next id advances, an older id falls one further behind it.
LEMMA OneFurtherBehind ==
  ASSUME NEW q \in 0..(Wrap - 1), NEW s \in 0..(Wrap - 1),
         NEW t, t = IF s + 1 = Wrap THEN 0 ELSE s + 1,
         (IF q < s THEN s - q ELSE s + Wrap - q) < Wrap
  PROVE  (IF q < t THEN t - q ELSE t + Wrap - q) =
           (IF q < s THEN s - q ELSE s + Wrap - q) + 1
PROOF
  <1>1. CASE s + 1 = Wrap
    BY <1>1
  <1>2. CASE s + 1 # Wrap
    <2>1. CASE q < s
      BY <1>2, <2>1
    <2>2. CASE ~(q < s)
      BY <1>2, <2>2
    <2>3. QED
      BY <2>1, <2>2
  <1>3. QED
    BY <1>1, <1>2

LEMMA NumberedSend ==
  ASSUME RequestType, Numbered, NEW request \in Request, requests' = OnTheWire(request),
         \/ request.failed /\ sentSequenceId' = sentSequenceId
         \/ request.seq = sentSequenceId /\ sentSequenceId' = NextSequenceId
  PROVE  Numbered'
PROOF
  <1>0. /\ sentSequenceId \in 0..(Wrap - 1)
        /\ \A k \in 1..Len(requests) : requests[k].seq \in 0..(Wrap - 1)
    BY NextRequest DEF RequestType, Request
  <1>1. sentSequenceId' \in {sentSequenceId,
          IF sentSequenceId + 1 = Wrap THEN 0 ELSE sentSequenceId + 1}
    BY <1>0, SequenceIds
  <1> DEFINE step == IF sentSequenceId' = sentSequenceId THEN 0 ELSE 1
             behind(r) ==
               IF r.seq < sentSequenceId' THEN sentSequenceId' - r.seq
                                          ELSE sentSequenceId' + Wrap - r.seq
  <1>2. ASSUME NEW k \in 1..Len(requests'), k # 1, ~requests'[k].failed
        PROVE  /\ k - 1 \in 1..Len(requests) /\ ~requests[k - 1].failed
               /\ behind(requests'[k]) = Behind(requests[k - 1]) + step
    <2>1. k - 1 \in 1..Len(requests) /\ requests'[k] = requests[k - 1]
      BY <1>2, NextRequest
    <2>2. /\ Behind(requests[k - 1]) >= 1 /\ Behind(requests[k - 1]) <= k - 1
      BY <1>2, <2>1 DEF Numbered
    <2>3. k - 1 < Wrap /\ k \in Nat
      BY NextRequest DEF RequestType
    <2>4. requests[k - 1].seq \in 0..(Wrap - 1)
      BY <1>0, <2>1
    <2>5. behind(requests'[k]) = Behind(requests[k - 1]) + step
      <3>1. CASE sentSequenceId' = sentSequenceId
        BY <1>0, <2>1, <2>4, <3>1 DEF Behind
      <3>2. CASE sentSequenceId' # sentSequenceId
        <4>1. sentSequenceId' =
                IF sentSequenceId + 1 = Wrap THEN 0 ELSE sentSequenceId + 1
          BY <1>1, <3>2
        <4>2. Behind(requests[k - 1]) \in Int /\ Behind(requests[k - 1]) < Wrap
          BY <1>0, <2>2, <2>3, <2>4 DEF Behind
        <4>3. (IF requests[k - 1].seq < sentSequenceId
                 THEN sentSequenceId - requests[k - 1].seq
                 ELSE sentSequenceId + Wrap - requests[k - 1].seq) < Wrap
          BY <4>2 DEF Behind
        <4>4. (IF requests[k - 1].seq < sentSequenceId'
                 THEN sentSequenceId' - requests[k - 1].seq
                 ELSE sentSequenceId' + Wrap - requests[k - 1].seq) =
                Behind(requests[k - 1]) + 1
          BY <1>0, <2>4, <4>1, <4>3, OneFurtherBehind DEF Behind
        <4>5. QED
          BY <2>1, <3>2, <4>4
      <3>3. QED
        BY <3>1, <3>2
    <2>6. QED
      BY <1>2, <2>1, <2>5
  <1>3. ASSUME ~requests'[1].failed
        PROVE  behind(requests'[1]) = 1 /\ step = 1
    <2>1. /\ requests'[1].seq = sentSequenceId
          /\ sentSequenceId' =
               IF sentSequenceId + 1 = Wrap THEN 0 ELSE sentSequenceId + 1
      BY <1>0, <1>3, NextRequest, SequenceIds
    <2>2. QED
      BY <1>0, <2>1
  <1>4. ASSUME NEW k \in 1..Len(requests'), ~requests'[k].failed
        PROVE  behind(requests'[k]) >= 1 /\ behind(requests'[k]) <= k
    <2>1. CASE k = 1
      BY <1>3, <1>4, <2>1
    <2>2. CASE k # 1
      <3>1. /\ k - 1 \in 1..Len(requests) /\ ~requests[k - 1].failed
            /\ behind(requests'[k]) = Behind(requests[k - 1]) + step
        BY <1>2, <1>4, <2>2
      <3>2. Behind(requests[k - 1]) >= 1 /\ Behind(requests[k - 1]) <= k - 1
        BY <3>1 DEF Numbered
      <3>3. Behind(requests[k - 1]) \in Int
        BY <1>0, <3>1 DEF Behind
      <3> HIDE DEF behind
      <3>4. QED
        BY <3>1, <3>2, <3>3
    <2>3. QED
      BY <2>1, <2>2
  <1>5. ASSUME NEW j \in 1..Len(requests'), NEW k \in 1..Len(requests'),
               j < k, ~requests'[j].failed, ~requests'[k].failed
        PROVE  behind(requests'[j]) < behind(requests'[k])
    <2>1. k # 1
      BY <1>5
    <2>2. /\ k - 1 \in 1..Len(requests) /\ ~requests[k - 1].failed
          /\ behind(requests'[k]) = Behind(requests[k - 1]) + step
      BY <1>2, <1>5, <2>1
    <2>3. Behind(requests[k - 1]) \in Int /\ Behind(requests[k - 1]) >= 1
      BY <1>0, <2>2 DEF Behind, Numbered
    <2>4. CASE j = 1
      <3>1. behind(requests'[1]) = 1 /\ step = 1
        BY <1>3, <1>5, <2>4
      <3> HIDE DEF behind, step
      <3>2. QED
        BY <2>2, <2>3, <2>4, <3>1
    <2>5. CASE j # 1
      <3>1. /\ j - 1 \in 1..Len(requests) /\ ~requests[j - 1].failed
            /\ behind(requests'[j]) = Behind(requests[j - 1]) + step
        BY <1>2, <1>5, <2>5
      <3>2. j - 1 < k - 1
        BY <1>5
      <3>3. Behind(requests[j - 1]) < Behind(requests[k - 1])
        BY <2>2, <3>1, <3>2 DEF Numbered
      <3>4. Behind(requests[j - 1]) \in Int
        BY <1>0, <3>1 DEF Behind
      <3> HIDE DEF behind
      <3>5. QED
        BY <2>2, <2>3, <3>1, <3>3, <3>4
    <2>6. QED
      BY <2>4, <2>5
  <1>6. \A r : behind(r) = (IF r.seq < sentSequenceId' THEN sentSequenceId' - r.seq
                                                     ELSE sentSequenceId' + Wrap - r.seq)
    OBVIOUS
  <1>7. QED
    BY <1>4, <1>5 DEF Numbered, Behind

\* The departure time of the request that is sent is kept if it has one.
LEMMA DepartedSend ==
  ASSUME RequestType, PeerType, Departed, NEW request \in Request,
         requests' = OnTheWire(request),
         UNCHANGED delayMechanism,
         request.stamped => ~request.failed,
         \/ Departure' = Zero /\ ~request.stamped
         \/ Departure' = Aged(Departure) /\ ~request.stamped
         \/ Departure' = 1 /\ request.stamped
  PROVE  Departed'
PROOF
  <1>0. Departure \in Place /\ Departure \in Int
    BY DEF Departure, RequestType, PeerType, Place, Zero, Older
  <1>1. \A k \in 1..Len(requests') :
          \/ k = 1 /\ requests'[k] = request
          \/ /\ k \in 2..Len(requests') /\ k - 1 \in 1..Len(requests)
             /\ requests'[k] = requests[k - 1]
    BY NextRequest
  <1>2. \A k \in 1..Len(requests') : requests'[k].stamped => ~requests'[k].failed
    BY <1>1 DEF Departed
  <1>3. CASE request.stamped
    <2>1. Departure' = 1
      BY <1>3
    <2>2. 1 \in 1..Len(requests') /\ requests'[1].stamped
      BY <1>3, NextRequest
    <2>3. QED
      BY <1>2, <2>1, <2>2 DEF Departed
  <1>4. CASE Departure' = Zero
    <2>1. ~(Departure' \in 1..(Lifetime + 1))
      BY <1>4 DEF Zero
    <2>2. QED
      BY <1>2, <1>4, <2>1 DEF Departed
  <1>5. CASE ~request.stamped /\ Departure' = Aged(Departure) /\ Departure' # Zero
    <2>1. Departure # Zero /\ Departure' = IF Departure = Older THEN Older ELSE Departure + 1
      BY <1>5 DEF Aged
    <2>2. Departure' \in 1..(Lifetime + 1) =>
            Departure' \in 1..Len(requests') /\ requests'[Departure'].stamped
      <3> SUFFICES ASSUME Departure' \in 1..(Lifetime + 1)
                   PROVE  Departure' \in 1..Len(requests') /\ requests'[Departure'].stamped
        OBVIOUS
      <3>1. Departure' = Departure + 1 /\ Departure \in 1..Lifetime
        BY <1>0, <2>1 DEF Place, Zero, Older
      <3>2. Departure \in 1..Len(requests) /\ requests[Departure].stamped
        BY <3>1 DEF Departed
      <3>3. Departure' \in 1..Len(requests') /\ Departure' # 1
        BY <3>1, <3>2, NextRequest
      <3>4. requests'[Departure'] = requests[Departure' - 1] /\ Departure' - 1 = Departure
        BY <1>0, <1>1, <3>1, <3>3
      <3>5. QED
        BY <3>2, <3>3, <3>4
    <2>3. ASSUME NEW k \in 1..Len(requests'), requests'[k].stamped
          PROVE  Departure' <= k
      <3>1. /\ k \in 2..Len(requests') /\ k - 1 \in 1..Len(requests)
            /\ requests[k - 1].stamped
        BY <1>1, <1>5, <2>3
      <3>2. Departure <= k - 1
        BY <2>1, <3>1 DEF Departed
      <3>3. k <= Lifetime + 1 /\ k \in Int
        BY NextRequest
      <3>4. QED
        BY <1>0, <2>1, <3>2, <3>3 DEF Older
    <2>4. QED
      BY <1>2, <2>2, <2>3 DEF Departed
  <1>6. QED
    BY <1>3, <1>4, <1>5

\* A handled answer to a request that was sent and has a departure time is an
\* answer to the request whose departure time is kept.
LEMMA LastOneAnswered ==
  ASSUME RequestType, PeerType, Numbered, Departed, NEW k \in Answered,
         Departure # Zero, requests[k].stamped
  PROVE  Departure = k
PROOF
  <1>0. /\ k \in 1..Len(requests) /\ Len(requests) \in Nat /\ Len(requests) <= Lifetime + 1
        /\ sentSequenceId \in Int /\ sentSequenceId # 0
        /\ requests[k].seq = sentSequenceId - 1
    BY LenProperties DEF Answered, Matches, RequestType
  <1>1. Behind(requests[k]) = 1
    BY <1>0 DEF Behind
  <1>2. ~requests[k].failed
    BY <1>0 DEF Departed
  <1>3. Departure <= k
    BY <1>0 DEF Departed
  <1>4. Departure \in 1..(Lifetime + 1)
    BY <1>0, <1>3 DEF Departure, RequestType, PeerType, Place, Zero, Older
  <1>5. /\ Departure \in 1..Len(requests)
        /\ ~requests[Departure].failed
    BY <1>4 DEF Departed
  <1>6. Behind(requests[Departure]) >= 1
    BY <1>5 DEF Numbered
  <1>7. ~(Departure < k)
    <2> SUFFICES ASSUME Departure < k PROVE FALSE
      OBVIOUS
    <2>1. Behind(requests[Departure]) < Behind(requests[k])
      BY <1>0, <1>2, <1>5 DEF Numbered
    <2>2. requests[Departure].seq \in Int
      <3>1. requests \in Seq(Request)
        BY DEF RequestType
      <3>2. requests[Departure] \in Request
        BY <1>5, <3>1, ElementOfSeq
      <3>3. requests[Departure].seq \in 0..(Wrap - 1)
        BY <3>2 DEF Request
      <3>4. QED
        BY <3>3
    <2>3. Behind(requests[Departure]) \in Int
      BY <1>0, <2>2 DEF Behind
    <2>4. QED
      BY <1>1, <1>6, <2>1, <2>3
  <1>8. QED
    BY <1>0, <1>3, <1>4, <1>7

\* The answer a delay is computed from belongs to the request whose departure
\* time it is computed from.
THEOREM AnswerCorrect == Spec => []AnswerMeetsItsRequest
PROOF
  <1>1. Init => Numbered /\ Departed /\ AnswerMeetsItsRequest
    <2> SUFFICES ASSUME Init PROVE Numbered /\ Departed /\ AnswerMeetsItsRequest
      OBVIOUS
    <2>1. Len(requests) = 0 /\ Departure = Zero /\ delay = NoDelay
      BY DEF Init, Departure
    <2>2. \A k : ~(k \in 1..Len(requests))
      BY <2>1
    <2>3. Numbered
      BY <2>2 DEF Numbered
    <2>4. Departed
      BY <2>1, <2>2 DEF Departed, Zero
    <2>5. QED
      BY <2>1, <2>3, <2>4 DEF AnswerMeetsItsRequest
  <1>2. TypeOK /\ Numbered /\ Departed /\ [Next]_vars
          => Numbered' /\ Departed' /\ (AnswerMeetsItsRequest' \/ UNCHANGED vars)
    <2> SUFFICES ASSUME TypeOK, Numbered, Departed, [Next]_vars
                 PROVE  /\ Numbered' /\ Departed'
                        /\ AnswerMeetsItsRequest' \/ UNCHANGED vars
      OBVIOUS
    <2>0. RequestType /\ PeerType
      BY TypeParts
    <2>a. ASSUME UNCHANGED <<requests, sentSequenceId, delayMechanism>>,
                 Departure' \in {Departure, Zero}
          PROVE  Numbered' /\ Departed'
      <3>1. Numbered'
        BY <2>a DEF Numbered, Behind
      <3>2. Departed'
        <4>1. CASE Departure' = Departure
          BY <2>a, <4>1 DEF Departed
        <4>2. CASE Departure' = Zero
          <5>1. ~(Departure' \in 1..(Lifetime + 1))
            BY <4>2 DEF Zero
          <5>2. QED
            BY <2>a, <4>2, <5>1 DEF Departed
        <4>3. QED
          BY <2>a, <4>1, <4>2
      <3>3. QED
        BY <3>1, <3>2
    <2>b. delay' = NoDelay => AnswerMeetsItsRequest'
      BY DEF AnswerMeetsItsRequest
    <2>1. CASE UNCHANGED vars
      <3>1. /\ UNCHANGED <<requests, sentSequenceId, delayMechanism>>
            /\ Departure' = Departure
        BY <2>1 DEF vars, requestVars, peerVars, Departure
      <3>2. QED
        BY <2>1, <2>a, <3>1
    <2>2. CASE ChangeRole \/ \E p \in Port : HandlesSync(p)
      <3>1. /\ UNCHANGED <<requestVars, delayMechanism>> /\ delay' = NoDelay
            /\ initClock \/ UNCHANGED peerVars
        BY <2>2, SyncStep DEF ChangeRole
      <3>2. /\ UNCHANGED <<requests, sentSequenceId, delayMechanism>>
            /\ Departure' \in {Departure, Zero}
        BY <3>1 DEF initClock, requestVars, peerVars, Departure
      <3>3. QED
        BY <2>a, <2>b, <3>1, <3>2
    <2>3. CASE IssueRequest
      <3>1. PICK stamped \in BOOLEAN :
              /\ requests' = OnTheWire([seq |-> sentSequenceId, stamped |-> stamped,
                                        failed |-> FALSE])
              /\ sentSequenceId' = NextSequenceId
              /\ timestamp_delayReqSend' =
                   IF stamped /\ delayMechanism = "E2E" THEN 1
                   ELSE Aged(timestamp_delayReqSend)
              /\ pdelay_t1' =
                   IF stamped /\ delayMechanism = "P2P" THEN 1 ELSE Aged(pdelay_t1)
        BY <2>3 DEF IssueRequest
      <3> DEFINE request == [seq |-> sentSequenceId, stamped |-> stamped, failed |-> FALSE]
      <3>2. request \in Request
        BY <2>0 DEF Request, RequestType
      <3>3. /\ request.seq = sentSequenceId /\ request.stamped = stamped
            /\ ~request.failed /\ requests' = OnTheWire(request)
        BY <3>1
      <3>4. UNCHANGED delayMechanism /\ delay' = NoDelay
        BY <2>3 DEF IssueRequest
      <3>5. \/ Departure' = Aged(Departure) /\ ~stamped
            \/ Departure' = 1 /\ stamped
        BY <2>0, <3>1, <3>4 DEF Departure, RequestType
      <3> HIDE DEF request
      <3>6. Numbered'
        BY <2>0, <3>1, <3>2, <3>3, NumberedSend
      <3>7. Departed'
        BY <2>0, <3>2, <3>3, <3>4, <3>5, DepartedSend
      <3>8. QED
        BY <2>b, <3>4, <3>6, <3>7
    <2>4. CASE RequestFails
      <3> DEFINE request == [seq |-> sentSequenceId, stamped |-> FALSE, failed |-> TRUE]
      <3>1. /\ initClock
            /\ requests' = OnTheWire(request)
            /\ timestamp_delayReqSend' = Aged(timestamp_delayReqSend)
            /\ delay' = NoDelay
            /\ UNCHANGED <<delayMechanism, sentSequenceId>>
        BY <2>4 DEF RequestFails
      <3>2. request \in Request
        BY <2>0 DEF Request, RequestType
      <3>3. request.failed /\ ~request.stamped
        OBVIOUS
      <3>4. Departure' = Zero \/ Departure' = Aged(Departure)
        BY <3>1 DEF Departure, initClock
      <3> HIDE DEF request
      <3>5. Numbered'
        BY <2>0, <3>1, <3>2, <3>3, NumberedSend
      <3>6. Departed'
        BY <2>0, <3>1, <3>2, <3>3, <3>4, DepartedSend
      <3>7. QED
        BY <2>b, <3>1, <3>5, <3>6
    <2>5. ASSUME NEW p \in Port, NEW k \in 1..(Lifetime + 1),
                 \/ HandleDelayResp(p, k)
                 \/ HandlePDelayResp(p, k) \/ HandleOneStepPDelayResp(p, k)
                 \/ HandlePDelayRespFollowUp(p, k)
          PROVE  Numbered' /\ Departed' /\ AnswerMeetsItsRequest'
      <3>1. /\ k \in Answered
            /\ UNCHANGED <<requests, sentSequenceId, delayMechanism,
                           timestamp_delayReqSend, pdelay_t1>>
        BY <2>5 DEF HandleDelayResp, HandlePDelayResp, HandleOneStepPDelayResp,
                    HandlePDelayRespFollowUp, requestVars, peerVars
      <3>2. Departure' = Departure
        BY <3>1 DEF Departure
      <3>3. Numbered' /\ Departed'
        BY <2>a, <3>1, <3>2
      <3>4. \/ delay' = NoDelay
            \/ delay'.sent = Departure /\ delay'.last.at = k
        <4>1. CASE HandleDelayResp(p, k)
          BY <4>1 DEF HandleDelayResp, Departure
        <4>2. CASE HandlePDelayResp(p, k)
          BY <4>2 DEF HandlePDelayResp
        <4>3. CASE HandleOneStepPDelayResp(p, k)
          BY <4>3 DEF HandleOneStepPDelayResp, HandlesPeers, Departure
        <4>4. CASE HandlePDelayRespFollowUp(p, k)
          BY <4>4 DEF HandlePDelayRespFollowUp, HandlesPeers, Departure
        <4>5. QED
          BY <2>5, <4>1, <4>2, <4>3, <4>4
      <3>5. Departure # Zero /\ requests[k].stamped => Departure = k
        BY <2>0, <3>1, LastOneAnswered
      <3>6. AnswerMeetsItsRequest'
        BY <3>1, <3>4, <3>5 DEF AnswerMeetsItsRequest
      <3>7. QED
        BY <3>3, <3>6
    <2>6. QED
      BY <2>1, <2>2, <2>3, <2>4, <2>5 DEF Next, HandlesSync
  <1>3. AnswerMeetsItsRequest /\ UNCHANGED vars => AnswerMeetsItsRequest'
    BY DEF vars, requestVars, AnswerMeetsItsRequest
  <1>4. QED
    BY <1>1, <1>2, <1>3, TypeCorrect, PTL DEF Spec

(***************************************************************************)
(* A peer delay is that of one exchange.  The Pdelay_Resp that waits for   *)
(* its follow-up answers the last request, unless another request was sent *)
(* in the meantime, which nobody has answered then.                        *)
(***************************************************************************)

AnswerIsHeard ==
  waitingForPDelayRespFollowUp /\ heard # {} =>
    pdelay_t2.from \in heard /\ pdelay_t2.at \in Answered

\* A follow-up to the last request that only its sender has answered completes the
\* answer of that port to that request.
LEMMA OneExchange ==
  ASSUME TypeOK, WaitingHasAnswer, AnswerIsHeard, DistinctIds,
         NEW p \in Port, NEW k \in Answered, heard = {p}, waitingForPDelayRespFollowUp
  PROVE  {pdelay_t2, pdelay_t4} = {[from |-> p, at |-> k]}
PROOF
  <1>1. pdelay_t2.from = p /\ pdelay_t2.at \in Answered
    BY DEF AnswerIsHeard
  <1>2. pdelay_t2.at = k
    BY <1>1 DEF Answered, Matches, DistinctIds
  <1>3. pdelay_t2 \in Answer /\ pdelay_t4 = pdelay_t2
    BY DEF TypeOK, WaitingHasAnswer
  <1>4. pdelay_t2 = [from |-> p, at |-> k]
    BY <1>1, <1>2, <1>3 DEF Answer
  <1>5. QED
    BY <1>3, <1>4

\* A two-step peer delay takes all its timestamps from one exchange with one
\* responder, if no other has answered the request.
THEOREM PeerDelayCorrect == Spec => []PeerDelayOfOneExchange
PROOF
  <1>1. Init => AnswerIsHeard /\ PeerDelayOfOneExchange
    BY DEF Init, AnswerIsHeard, PeerDelayOfOneExchange
  <1>2. TypeOK /\ WaitingHasAnswer /\ AnswerIsHeard /\ PeerDelayOfOneExchange
          /\ [Next]_vars => AnswerIsHeard' /\ PeerDelayOfOneExchange'
    <2> SUFFICES ASSUME TypeOK, WaitingHasAnswer, AnswerIsHeard,
                        PeerDelayOfOneExchange, [Next]_vars
                 PROVE  AnswerIsHeard' /\ PeerDelayOfOneExchange'
      OBVIOUS
    <2>1. CASE UNCHANGED vars
      BY <2>1
      DEF vars, requestVars, peerVars, AnswerIsHeard, Answered, Matches,
          PeerDelayOfOneExchange, DistinctIds
    <2>2. CASE ChangeRole \/ \E p \in Port : HandlesSync(p)
      <3>1. /\ UNCHANGED requestVars /\ delay' = NoDelay
            /\ initClock \/ UNCHANGED peerVars
        BY <2>2, SyncStep DEF ChangeRole
      <3>2. /\ UNCHANGED <<sentSequenceId, requests, heard>>
            /\ \/ ~waitingForPDelayRespFollowUp'
               \/ UNCHANGED <<waitingForPDelayRespFollowUp, pdelay_t2>>
        BY <3>1 DEF initClock, requestVars, peerVars
      <3>3. QED
        BY <3>1, <3>2 DEF AnswerIsHeard, Answered, Matches, PeerDelayOfOneExchange
    <2>3. CASE IssueRequest \/ RequestFails
      <3>1. heard' = {} /\ delay' = NoDelay
        BY <2>3 DEF IssueRequest, RequestFails
      <3>2. QED
        BY <3>1 DEF AnswerIsHeard, PeerDelayOfOneExchange
    <2>4. ASSUME NEW p \in Port, NEW k \in 1..(Lifetime + 1),
                 \/ HandleDelayResp(p, k)
                 \/ HandlePDelayResp(p, k) \/ HandleOneStepPDelayResp(p, k)
                 \/ HandlePDelayRespFollowUp(p, k)
          PROVE  AnswerIsHeard' /\ PeerDelayOfOneExchange'
      <3>1. k \in Answered /\ UNCHANGED <<sentSequenceId, requests>>
        BY <2>4 DEF HandleDelayResp, HandlePDelayResp, HandleOneStepPDelayResp,
                    HandlePDelayRespFollowUp, requestVars
      <3>2. Answered' = Answered
        BY <3>1 DEF Answered, Matches
      <3>3. CASE HandleDelayResp(p, k)
        <4>1. /\ UNCHANGED <<heard, waitingForPDelayRespFollowUp, pdelay_t2>>
              /\ delay'.kind = "endToEnd"
          BY <3>3 DEF HandleDelayResp, requestVars, peerVars
        <4>2. QED
          BY <3>2, <4>1 DEF AnswerIsHeard, PeerDelayOfOneExchange
      <3>4. CASE HandlePDelayResp(p, k)
        BY <3>1, <3>2, <3>4 DEF HandlePDelayResp, AnswerIsHeard, PeerDelayOfOneExchange
      <3>5. CASE HandleOneStepPDelayResp(p, k)
        BY <3>5 DEF HandleOneStepPDelayResp, AnswerIsHeard, PeerDelayOfOneExchange
      <3>6. CASE HandlePDelayRespFollowUp(p, k)
        <4>1. /\ waitingForPDelayRespFollowUp /\ ~waitingForPDelayRespFollowUp'
              /\ delay'.held = {pdelay_t2, pdelay_t4}
              /\ delay'.last = [from |-> p, at |-> k]
              /\ UNCHANGED <<heard, requests>>
          BY <3>6 DEF HandlePDelayRespFollowUp, IsWaiting, requestVars
        <4>2. DistinctIds' => DistinctIds
          BY <4>1 DEF DistinctIds
        <4>3. DistinctIds /\ heard = {p} =>
                {pdelay_t2, pdelay_t4} = {[from |-> p, at |-> k]}
          BY <3>1, <4>1, OneExchange
        <4>4. QED
          BY <4>1, <4>2, <4>3 DEF AnswerIsHeard, PeerDelayOfOneExchange
      <3>7. QED
        BY <2>4, <3>3, <3>4, <3>5, <3>6
    <2>5. QED
      BY <2>1, <2>2, <2>3, <2>4 DEF Next, HandlesSync
  <1>3. QED
    BY <1>1, <1>2, TypeCorrect, WaitingCorrect, PTL DEF Spec
=============================================================================
