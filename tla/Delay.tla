-------------------------------- MODULE Delay --------------------------------
(***************************************************************************)
(* The delay measurement of src/src/protocol.c and src/src/servo.c, for    *)
(* both mechanisms, on top of the roles PortRole promises: which exchange  *)
(* and which master the timestamps of a computed delay belong to.          *)
(*                                                                         *)
(* Every request that reached the wire is remembered for as long as an     *)
(* answer to it may be on its way.  Its answers can be lost, late,         *)
(* duplicated or out of order: any port may answer any remembered request  *)
(* at any time, any number of times.                                       *)
(*                                                                         *)
(* A timestamp is the place of its request in that list, 1 being the last  *)
(* one, and the port that answered it; that of a Sync is its sender.       *)
(***************************************************************************)
EXTENDS PortRole, Integers, Sequences

CONSTANTS
  Wrap,      \* the number of sequence ids; 0 stands for the least s16_t
  Lifetime   \* how many requests are sent while an answer is on its way

ASSUME WrapAssumption ==
  Wrap \in Nat /\ Lifetime \in Nat \ {0} /\ Wrap > Lifetime + 1

VARIABLES
  delayMechanism,          \* portDS.delayMechanism, as configured
  sentSequenceId,          \* sentDelayReqSequenceId or sentPDelayReqSequenceId
  requests,                \* the requests on the wire, the last one first
  timestamp_delayReqSend,
  timestamp_syncRecieve,   \* of whose Sync it is the time
  waitingForFollowUp,
  Tms,                     \* of whose Sync and whose origin time it is made
  offsets,                 \* ofm_filt.n > 0
  pdelay_t1,
  pdelay_t2,
  pdelay_t4,
  waitingForPDelayRespFollowUp,
  heard,                   \* history: who answered since the last request
  delay                    \* what the delay computed in this step is made of

peerVars == <<pdelay_t1, pdelay_t2, pdelay_t4, waitingForPDelayRespFollowUp>>
offsetVars == <<waitingForFollowUp, Tms, offsets>>
requestVars == <<sentSequenceId, requests, timestamp_delayReqSend, heard>>
vars == <<roleVars, delayMechanism, requestVars, timestamp_syncRecieve, offsetVars,
          peerVars, delay>>

\* Places of timestamps in `requests': none, zeroed; or of an older request.
Zero == 0
Older == Lifetime + 2
Place == Zero..Older
Answer == [from : Port \union {Nobody}, at : Place]
NoAnswer == [from |-> Nobody, at |-> Zero]
Request == [seq : 0..(Wrap - 1), stamped : BOOLEAN, failed : BOOLEAN]

\* The arrival of a Sync.  History: whether the port has gone straight from one
\* master to another since.
Arrival == [from : Port \union {Nobody}, overtaken : BOOLEAN]
ArrivalFrom(p) == [from |-> p, overtaken |-> FALSE]
Offset == [ingress : Arrival, origin : Port \union {Nobody}]
NoOffset == [ingress |-> ArrivalFrom(Nobody), origin |-> Nobody]

NoDelay == [kind |-> "none"]

State == IF faulty THEN "FAULTY" ELSE role

\* A mistake: the answer that was handled goes on waiting.
initClockWhileWaiting ==
  /\ waitingForFollowUp' = FALSE
  /\ Tms' = NoOffset
  /\ offsets' = FALSE
  /\ pdelay_t1' = Zero
  /\ pdelay_t2' = NoAnswer
  /\ pdelay_t4' = NoAnswer
  /\ UNCHANGED waitingForPDelayRespFollowUp

\* A mistake: the Sync that was received goes on waiting for its Follow_Up.
initClockWithPendingSync ==
  /\ UNCHANGED waitingForFollowUp
  /\ Tms' = NoOffset
  /\ offsets' = FALSE
  /\ pdelay_t1' = Zero
  /\ pdelay_t2' = NoAnswer
  /\ pdelay_t4' = NoAnswer
  /\ waitingForPDelayRespFollowUp' = FALSE

\* initClock, as far as the delays go; timestamp_syncRecieve is kept.
initClock ==
  /\ waitingForFollowUp' = FALSE
  /\ Tms' = NoOffset
  /\ offsets' = FALSE
  /\ pdelay_t1' = Zero
  /\ pdelay_t2' = NoAnswer
  /\ pdelay_t4' = NoAnswer
  /\ waitingForPDelayRespFollowUp' = FALSE

\* The changes of state for which toState, or doInit, calls initClock.
InitsClock(old, new) ==
  \/ old \in OwnRole \union {"INITIALIZING"} /\ old # new
  \/ old \in FollowerRole /\ new \notin FollowerRole

(***************************************************************************)
(* Roles.                                                                  *)
(***************************************************************************)

Init ==
  /\ RoleInit
  /\ delayMechanism \in {"E2E", "P2P"}
  /\ sentSequenceId \in 0..(Wrap - 1)
  /\ requests = <<>>
  /\ timestamp_delayReqSend = Zero
  /\ timestamp_syncRecieve = ArrivalFrom(Nobody)
  /\ waitingForFollowUp = FALSE
  /\ Tms = NoOffset
  /\ offsets = FALSE
  /\ pdelay_t1 = Zero
  /\ pdelay_t2 = NoAnswer
  /\ pdelay_t4 = NoAnswer
  /\ waitingForPDelayRespFollowUp = FALSE
  /\ heard = {}
  /\ delay = NoDelay

\* The port takes another role, another master, fails or recovers.  End to end,
\* what offset a SLAVE has was computed with a time of the master it follows:
\* SlaveIsSynchronised of PtpClock.  Another master leaves a pending Sync pending.
ChangeRole ==
  /\ RoleNext
  /\ delayMechanism = "E2E" /\ role' = "SLAVE" /\ offsets => Tms.origin = followed'
  /\ IF InitsClock(State, State') THEN initClock
                                  ELSE UNCHANGED <<offsetVars, peerVars>>
  /\ timestamp_syncRecieve' =
       IF {State, State'} \subseteq FollowerRole /\ followed' # followed
         THEN [timestamp_syncRecieve EXCEPT !.overtaken = TRUE]
         ELSE timestamp_syncRecieve
  /\ delay' = NoDelay
  /\ UNCHANGED <<delayMechanism, requestVars>>

(***************************************************************************)
(* Offsets.                                                                *)
(***************************************************************************)

IsFromCurrentParent(p) == p = followed

\* updateOffset and updateClock.  An offset of seconds is not filtered:
\* updateClock sets the clock and initialises the servo, unless noAdjust or
\* noResetClock forbid it.
UpdateOffset(ingress, origin) ==
  /\ \/ /\ waitingForFollowUp' = FALSE
        /\ Tms' = [ingress |-> ingress, origin |-> origin]
        /\ offsets' \in {offsets, TRUE}
        /\ UNCHANGED peerVars
     \/ initClock
  /\ delay' = NoDelay
  /\ UNCHANGED <<roleVars, delayMechanism, requestVars>>

Follows(p) == Active /\ role \in FollowerRole /\ IsFromCurrentParent(p)

\* Peer to peer no delay is computed from Tms: whose it is, is left out.
Master(p) == IF delayMechanism = "E2E" THEN p ELSE Nobody

\* A two-step Sync.
HandleSync(p) ==
  /\ Follows(p)
  /\ timestamp_syncRecieve' = ArrivalFrom(Master(p))
  /\ waitingForFollowUp' = TRUE
  /\ delay' = NoDelay
  /\ UNCHANGED <<roleVars, delayMechanism, requestVars, Tms, offsets, peerVars>>

HandleOneStepSync(p) ==
  /\ Follows(p)
  /\ timestamp_syncRecieve' = ArrivalFrom(Master(p))
  /\ UpdateOffset(ArrivalFrom(Master(p)), Master(p))

\* A Follow_Up with the sequence id of the last Sync: masters count for
\* themselves, so that the id of another's Sync is as good as any.
HandleFollowUp(p) ==
  /\ Follows(p)
  /\ waitingForFollowUp
  /\ UpdateOffset(timestamp_syncRecieve, Master(p))
  /\ UNCHANGED timestamp_syncRecieve

(***************************************************************************)
(* Requests.                                                               *)
(***************************************************************************)

Requests == IF delayMechanism = "E2E" THEN {"SLAVE"}
            ELSE {"MASTER", "PASSIVE", "UNCALIBRATED", "SLAVE"}

OnTheWire(request) ==
  SubSeq(<<request>> \o requests, 1,
         IF Len(requests) <= Lifetime THEN Len(requests) + 1 ELSE Lifetime + 1)

Aged(place) == IF place \in {Zero, Older} THEN place ELSE place + 1
AgedAnswer(answer) == [answer EXCEPT !.at = Aged(@)]

\* A mistake: the sequence id is not of 16 bits.
NextSequenceIdOfAnyWidth == sentSequenceId + 1

NextSequenceId == (sentSequenceId + 1) % Wrap

\* issueDelayReq and issuePDelayReq.  The transmit timestamp is kept if it is
\* valid: a clock that has not been set may give zero seconds.
IssueRequest ==
  /\ Active /\ role \in Requests
  /\ \E stamped \in BOOLEAN :
       /\ requests' = OnTheWire([seq |-> sentSequenceId, stamped |-> stamped,
                                 failed |-> FALSE])
       /\ sentSequenceId' = NextSequenceId
       /\ timestamp_delayReqSend' =
            IF stamped /\ delayMechanism = "E2E" THEN 1
            ELSE Aged(timestamp_delayReqSend)
       /\ pdelay_t1' =
            IF stamped /\ delayMechanism = "P2P" THEN 1 ELSE Aged(pdelay_t1)
  /\ pdelay_t2' = AgedAnswer(pdelay_t2)
  /\ pdelay_t4' = AgedAnswer(pdelay_t4)
  /\ heard' = {}
  /\ delay' = NoDelay
  /\ UNCHANGED <<roleVars, delayMechanism, timestamp_syncRecieve, offsetVars,
                 waitingForPDelayRespFollowUp>>

\* A send that fails after the packet was queued, or without a timestamp from
\* the driver, still reaches the wire; the next request has the same id.
RequestFails ==
  /\ role \in Requests
  /\ Fail
  /\ initClock
  /\ requests' = OnTheWire([seq |-> sentSequenceId, stamped |-> FALSE,
                            failed |-> TRUE])
  /\ timestamp_delayReqSend' = Aged(timestamp_delayReqSend)
  /\ heard' = {}
  /\ delay' = NoDelay
  /\ UNCHANGED <<delayMechanism, sentSequenceId, timestamp_syncRecieve>>

(***************************************************************************)
(* Answers.                                                                *)
(***************************************************************************)

\* A mistake: an answer to any request will do.
MatchesAny(seq) == TRUE

\* The last request is recognised by its id.  sentSequenceId - 1 is an int: when
\* the counter has wrapped to its minimum it is no id at all.
Matches(seq) == sentSequenceId # 0 /\ seq = sentSequenceId - 1

Answered == {k \in 1..Len(requests) : Matches(requests[k].seq)}

\* handleDelayResp and updateDelay, which needs a Tms.
HandleDelayResp(p, k) ==
  /\ delayMechanism = "E2E"
  /\ Follows(p)
  /\ k \in Answered
  /\ offsets
  /\ delay' = [kind |-> "endToEnd", state |-> role, offset |-> Tms,
               sent |-> timestamp_delayReqSend,
               held |-> {}, last |-> [from |-> p, at |-> k]]
  /\ UNCHANGED <<roleVars, delayMechanism, requestVars, timestamp_syncRecieve,
                 offsetVars, peerVars>>

HandlesPeers == delayMechanism = "P2P" /\ Active /\ role \in {"MASTER", "SLAVE"}

\* A two-step Pdelay_Resp brings t2 and t4 and waits for its follow-up.
HandlePDelayResp(p, k) ==
  /\ HandlesPeers
  /\ k \in Answered
  /\ waitingForPDelayRespFollowUp' = TRUE
  /\ pdelay_t4' = [from |-> p, at |-> k]
  /\ pdelay_t2' = [from |-> p, at |-> k]
  /\ heard' = heard \union {p}
  /\ delay' = NoDelay
  /\ UNCHANGED <<roleVars, delayMechanism, sentSequenceId, requests,
                 timestamp_delayReqSend, timestamp_syncRecieve, offsetVars,
                 pdelay_t1>>

HandleOneStepPDelayResp(p, k) ==
  /\ HandlesPeers
  /\ k \in Answered
  /\ waitingForPDelayRespFollowUp' = FALSE
  /\ pdelay_t4' = [from |-> p, at |-> k]
  /\ heard' = heard \union {p}
  /\ delay' = [kind |-> "oneStep", state |-> role, offset |-> NoOffset,
               sent |-> pdelay_t1,
               held |-> {}, last |-> [from |-> p, at |-> k]]
  /\ UNCHANGED <<roleVars, delayMechanism, sentSequenceId, requests,
                 timestamp_delayReqSend, timestamp_syncRecieve, offsetVars,
                 pdelay_t1, pdelay_t2>>

\* A mistake: a follow-up is taken without its Pdelay_Resp.
IsWaitingAlways == TRUE

IsWaiting == waitingForPDelayRespFollowUp

\* The follow-up brings t3; the responder is not compared with that of t2.
HandlePDelayRespFollowUp(p, k) ==
  /\ HandlesPeers
  /\ IsWaiting
  /\ k \in Answered
  /\ waitingForPDelayRespFollowUp' = FALSE
  /\ delay' = [kind |-> "twoStep", state |-> role, offset |-> NoOffset,
               sent |-> pdelay_t1,
               held |-> {pdelay_t2, pdelay_t4}, last |-> [from |-> p, at |-> k]]
  /\ UNCHANGED <<roleVars, delayMechanism, requestVars, timestamp_syncRecieve,
                 offsetVars, pdelay_t1, pdelay_t2, pdelay_t4>>

Next ==
  \/ ChangeRole
  \/ \E p \in Port : HandleSync(p) \/ HandleOneStepSync(p) \/ HandleFollowUp(p)
  \/ IssueRequest \/ RequestFails
  \/ \E p \in Port, k \in 1..(Lifetime + 1) :
       \/ HandleDelayResp(p, k)
       \/ HandlePDelayResp(p, k) \/ HandleOneStepPDelayResp(p, k)
       \/ HandlePDelayRespFollowUp(p, k)

Spec == Init /\ [][Next]_vars

(***************************************************************************)
(* Properties.                                                             *)
(***************************************************************************)

\* The values the variables take.
TypeOK ==
  /\ role \in Role /\ followed \in Port \union {Nobody} /\ faulty \in BOOLEAN
  /\ delayMechanism \in {"E2E", "P2P"}
  /\ sentSequenceId \in 0..(Wrap - 1)
  /\ requests \in Seq(Request) /\ Len(requests) <= Lifetime + 1
  /\ timestamp_delayReqSend \in Place
  /\ timestamp_syncRecieve \in Arrival
  /\ waitingForFollowUp \in BOOLEAN /\ Tms \in Offset /\ offsets \in BOOLEAN
  /\ pdelay_t1 \in Place /\ pdelay_t2 \in Answer /\ pdelay_t4 \in Answer
  /\ waitingForPDelayRespFollowUp \in BOOLEAN
  /\ heard \subseteq Port
  /\ delay # NoDelay =>
       delay \in [kind : {"endToEnd", "oneStep", "twoStep"},
                  state : FollowerRole \union {"MASTER"},
                  offset : Offset, sent : Place,
                  held : SUBSET Answer, last : Answer]

\* No failed send has put an id on the wire that another request also bears.
DistinctIds ==
  \A j, k \in 1..Len(requests) : requests[j].seq = requests[k].seq => j = k

\* The answer a delay is computed from belongs to the request whose departure
\* time it is computed from, though ids wrap around, failed sends reuse them and
\* answers come late, twice or out of order: unless the request has no timestamp
\* or was none that the code counted as sent.
AnswerMeetsItsRequest ==
  /\ delay # NoDelay
  /\ delay.sent # Zero
  /\ requests[delay.last.at].stamped
  => delay.sent = delay.last.at

\* The path delay a SLAVE computes end to end is that to the master it follows:
\* that master sent the Delay_Resp, the origin time and the Sync, whichever was
\* followed before.  Only a Sync that waited for its Follow_Up while the port went
\* straight from one master to another may be the former one's.
SlaveDelayFromItsMaster ==
  delay # NoDelay /\ delay.kind = "endToEnd" /\ delay.state = "SLAVE" =>
    /\ delay.offset.origin = delay.last.from
    /\ \/ delay.offset.ingress.from = delay.last.from
       \/ delay.offset.ingress.overtaken

\* A two-step peer delay takes all its timestamps from one exchange with one
\* responder, if no other has answered the request and its Pdelay_Resp was not
\* lost: duplicates and late answers to earlier requests do not matter.
PeerDelayOfOneExchange ==
  /\ delay # NoDelay
  /\ delay.kind = "twoStep"
  /\ DistinctIds
  /\ heard = {delay.last.from}
  => delay.held = {delay.last}

\* A port that waits for a follow-up holds the two timestamps of one Pdelay_Resp
\* and is in a state it was waiting in: it has not lost them to initClock.
WaitingHasAnswer ==
  waitingForPDelayRespFollowUp =>
    /\ pdelay_t2 = pdelay_t4 /\ pdelay_t2.at # Zero
    /\ Active /\ role \in FollowerRole \union {"MASTER"}
=============================================================================
