# Verification of lwip-ptp

TLA+ models of lwip-ptp, the port of PTPd (IEEE 1588-2008) to lwIP, with TLC
runs on small instances and TLAPS proofs for every value of the constants. The
reference is the code under `src/`; line numbers are those of `PROJECT.json`,
whose `map` names the lines each definition stands for.

## The system

lwip-ptp is one thread, `ptpd`, that runs one PTP ordinary clock with one port.
Three contexts meet in it:

- the **ptpd thread** (`lwip-ptp.c`): `doState` once, then for ever "wait for an
  alert, `doState`". Everything in `ptpClock` except the mailboxes belongs to it;
- the **TCP/IP thread** of lwIP: `netRecvCallback` puts packets in an inbox and
  posts an alert, `netSendCallback` sends what the thread has put in an outbox;
- the **timers** of the platform: they set a flag that `LWIP_PTP_CHECK_TIMER`
  reads, and post an alert by `lwipPtpTimerExpired`.

| component | state | operations | what makes it correct |
|---|---|---|---|
| port state machine, `protocol.c` | portState, recommendedState, event flags, timers, the pending Sync | `doState`, `toState`, `doInit`, one handler per message, the `issue` functions | timers, flags, parent and pending Sync belong to the state the port is in, by whichever of its many paths it was reached; no role the configuration forbids; lost masters are abandoned |
| best master clock, `bmc.c` | foreignMasterDS, parentDS, currentDS | `addForeign`, `bmc`, `m1`, `s1` | decisions only on received records, the best of them, one per master; parentDS describes what the port follows |
| ptpd thread and alerts, `lwip-ptp.c` | ptpAlert | fetch, post from two contexts | no wakeup is lost |
| packet reception and transmission, `net.c` | two inboxes, two outboxes, rings of pbufs, the transmit semaphore | callbacks, `netRecv`, `netSend`, `netEmptyEventQ` | each packet delivered once, freed once, with its own timestamp; no wait for ever |
| servo, `servo.c` | filters, Tms and Tsm, drift, delays | `initClock`, `updateOffset`, `updateDelay`, `updatePeerDelay`, `updateClock` | exact differences; a filter that averages, does not overflow and leaves no error |
| delay measurement, `protocol.c`, `servo.c` | sequence ids, timestamps of the last request, the answer that waits for its follow-up | `issueDelayReq`, `issuePDelayReq`, `handleDelayResp`, `handlePDelayResp`, `handlePDelayRespFollowUp` | the timestamps of a delay belong to one exchange with one port |
| time arithmetic, `arith.c` | none | conversions, `normalizeTime`, `addTime`, ... | normal form, exact results |
| messages `msg.c`, time `sys_time.c`, configuration `def/` | none | packing, wrappers, constants | layout |

Interactions: the handlers call `addForeign` and `s1`; both raise events that a
*later* `doState` consumes; `toState` calls `initClock`, which clears the servo,
the pending Sync and the event inbox; a failing send anywhere calls
`toState(PTP_FAULTY)` and lets the interrupted `doState` continue.

What is hard to test here: flags and recommendations raised in one state and
consumed in another; failures between two decisions of one `doState`; masters
that appear, change their quality, or fall silent between a Sync and its
Follow_Up; tables and queues at their limits; interleavings of the three
contexts. `PROJECT.json` lists each of these under `hazards`, at its line.

## Modules

| module | what it is |
|---|---|
| `PortRole` | abstract: the roles a port takes and the master it follows |
| `Bmc` | vocabulary without variables: data sets, their comparison, the foreign master table, the state decision |
| `PtpClock` | the port state machine, EXTENDS `Bmc`; implements `PortRole` |
| `MCPtpClock` | two neighbouring clocks and their messages, for TLC |
| `PtpLiveness`, `MCPtpLiveness` | masters that fall silent, and fairness |
| `Delay` | the delay measurement of both mechanisms, EXTENDS `PortRole` |
| `Net`, `MCNet` | the packet rings between the TCP/IP thread, the ptpd thread and the driver |
| `Alerts` | ptpAlert and the inboxes |
| `Arith`, `Servo`, `MCServo` | time arithmetic; the servo that uses it |
| `PtpClockProofs`, `PtpRoleProofs`, `DelayProofs`, `NetProofs`, `PacketProofs`, `AlertsProofs`, `ServoProofs` | the TLAPS proofs |
| `SetInduction` | induction and iteration over the naturals, which the proofs about `Bmc` and `Servo` use |

    PtpClock --implements--> PortRole <--extends-- Delay      Net     Alerts
       |                                                       (packets, wakeups)
       +--extends--> Bmc                 Servo --extends--> Arith

The modules meet where the code's parts do. `Delay` does not repeat `doState`:
it is built on what `PortRole` promises of it, and `PtpClock` keeps that promise.
`Net` and `Alerts` look at the two uses of the mailboxes: what is in them, and
who is woken up. `Servo` is given times, `PtpClock` and `Delay` say whose.

Operators placed before a definition under a comment "A mistake: ..." are faulty
variants of it, which `PROJECT.json` (`mutants`) substitutes to show that each
checked property can fail.

### PtpClock

The variables are the fields of `ptpClock_t` with the same names (`parentDS`
holds `currentDS.stepsRemoved` as its `steps`), the platform's timers, and `pc`,
the thread's place. One `doState` is cut where timers may expire between two of
its decisions:

    wait --WakeUp--> decide --(No)StateDecision--> follow --FollowRecommendation--> act
    act --Initialize, AnnounceReceiptTimeout--> wait
    act --Listen, MasterSends--> handle --(a message)--> wait, or request --RequestDelay--> wait

- `toState(new, recommended, waiting)` is the whole function: what leaving
  stops, what entering starts, what `initClock` forgets. Two of its arguments are
  fields the caller may have just assigned.
- `handle` is one action per kind of message that changes something, each with
  all the handler does. `Disregard` is an empty inbox, a message that is
  ignored, or one whose effects are modelled elsewhere (the answers of the delay
  measurement, in `Delay`).
- Every send may fail (`issue`, `issueDelayReqTimerExpired`, `AnswerFails`):
  the port becomes FAULTY and the rest of `doState` still runs.
- `netInit` always returns true, so `doInit` has no failing path; a timer that
  `LWIP_PTP_INIT_TIMERS` would stop is stopped already (`TimersMatchState`).
- Data: identities are naturals ordered like `memcmp`; a quality is the tuple of
  attributes in the order in which they are compared; time properties are left
  out; `stepsRemoved` is an unbounded integer (the 16-bit field overflows only
  beyond 32767 steps, and no comparison reads the sum). A timestamp is the port
  whose message it belongs to; an offset is its two timestamps and the class of
  its size by the thresholds of `opt.h` (the comment of `MAX_ADJ_OFFSET_NS`,
  `opt.h:129`, says 100 ms where the value is a second; the value counts).
  `updateOffset` may yield any class: it depends on the clocks. Timer durations
  are left out: an active timer may expire at any time.
- The loop of `bmc` is a function `scan` over the slots (`Scans`): the value of
  `best` after each record. It is written as a set of solutions, of which there is
  exactly one (`OneChoice`).

### PortRole

Three variables: the role, the master that is followed, and whether the port is
faulty. A faulty port keeps its role; the code keeps it too, in
`recommendedState`, and returns to it at the next `doState`. The refinement
mapping in `PtpClock`:

- `role` is `EffectiveState`: `portState`, except that a FAULTY port has the role
  its recommendation will give it back, and that between the decision and its
  consequence (`pc = "follow"`) the role is already the one that
  `FollowRecommendation` is about to take (`Target`);
- `followed` is the source of `parentDS` while the role is UNCALIBRATED or SLAVE;
- `faulty` is FAULTY outside `follow`.

What it promises: a SLAVE is calibrated for the master it follows, since every
change of master goes through UNCALIBRATED; a fault changes neither the role
nor the master; INITIALIZING is left once. One action is there for the code's
sake: with the peer-to-peer mechanism a port can be calibrated, fail, and become
SLAVE of the *next* master it follows (`CalibratedForAnother`).

### Delay

A timestamp is the place of its request in the list `requests`, the last one
first, so that ageing the list ages the timestamps. A request stays in the list
for `Lifetime` further requests: as long may its answers be on their way. Any
port answers any of them at any time, again and again. A request may go out
without a timestamp (`stamped`), and one whose send failed may still reach the
wire (`failed`); its id is used again. `ChangeRole` is a step of `PortRole` with
what `toState` makes of it: `initClock` zeroes t1 to t4, forgets Tms, the Sync
and the answer that wait, but keeps `timestamp_syncRecieve`.

Tms has two masters: that of the Sync whose arrival it is computed from and that
of the origin time. `HandleSync` takes the Sync of the current parent and waits;
`HandleFollowUp` takes a Follow_Up of the current parent while a Sync waits, whose
ever that is: only sequence ids are compared, and those of two masters agree by
chance. A change of master among UNCALIBRATED and SLAVE does not call `initClock`,
so the Sync of the former master goes on waiting. The history field `overtaken`
of an arrival says that this has happened to it; only properties read it. The
second conjunct of `ChangeRole` is about the origin time alone: what offset an E2E
SLAVE starts with was computed with a time of the master it follows. This is
`SlaveIsSynchronised`, proved of `PtpClock`: `updateOffset` assigns Tms and
`offsetFromMaster` together, and `initClock`, which alone clears Tms, also clears
`ofm_filt.n` (`offsets`). About the arrival nothing is assumed. Peer to peer no
delay is computed from Tms, and whose times it is made of is left out (`Master`).

`UpdateOffset` includes the step of the clock, by which `updateClock` initialises
the servo while a request is under way. `delay` says what the delay computed in
the last step was made of. Id 0 of the model is the least `s16_t`: `sent - 1` is
computed in `int` and equals no id there.

### Net

One `packetHandler`: the one for events, whose sends wait for a timestamp, or
the general one. Each function is cut at its accesses to shared state, so that
the callback may overwrite a ring entry between the other thread's fetch and
use. One cut is left out: a post that finds the mailbox full and the restoring of
the entry are one step. What could come between them is the fetch of the entry
that was overwritten, an `overrun`, which the properties except anyway. Full mailboxes, a failing `tcpip_callback`, a refused `udp_sendto` and an
emptied event inbox all happen. Three history variables record the cases in
which a property is not expected of the code, and each property excepts only
what it must: `overrun` (an entry was overwritten while it was being fetched),
`dropped` (a packet was not sent), `stranded` (`tcpip_callback` failed).

### Alerts

Packets are counted per inbox. A `doState` takes one alert, and either finds the
receipt timeout (and reads nothing) or reads the event inbox and, if that gave
nothing usable, the general one. `initClock` may empty the event inbox
at the places `toState` may be called. Posts to a full mailbox are dropped.

### Arith and Servo

`Arith` is the arithmetic of `arith.c` on unbounded integers, with C's
truncating division; `Power[n]` is `1 << n`, a recursive function, of which the
proofs can use the equation. `Servo` follows one of the two filters, which do not depend
on each other: `kind` is chosen in `Init`. A measurement takes its timestamps
from `Instants`, computes as `updateOffset`, or `updateDelay` and
`updatePeerDelay`, do, and filters the result or, when it has seconds, steps the
clock or keeps it unfiltered. The correction field enters the offset; in the
delays it enters as another `subTime`, left out there. `Wrapped` is the
overflow of a word, which only a negative delay can cause. `steady` is the
moment from which the same is measured for ever; `truth` is what exact
arithmetic makes of the timestamps.

## Runs

| run | instance | shows | distinct states |
|---|---|---|---|
| `slave_e2e` | slave-only, class 255, E2E, table of 2 | nine invariants, refinement of `PortRole` | 445 448 |
| `master_p2p` | class 248, P2P, table of 2 | five invariants, refinement of `PortRole` | 595 993 |
| `primary_e2e` | class 6, E2E, table of 3 | three invariants | 23 465 |
| `live_e2e` | class 248, E2E, two masters | both liveness properties | about 66 000 |
| `alerts` | the code's sizes, 4 and 16 | three invariants | about 21 000 |
| `delay` | both mechanisms, two ports, all roles, 4 ids | five invariants | 763 020 |
| `net` | both handlers, rings of 2, 4 and 3 pbufs | six invariants | 426 246 |
| `servo` | words of 6 bits, orders 1 and 3 | three invariants, one action property, convergence | 101 775 |
| `best_is_best`, `one_record_per_master`, `fault_is_cleared`, `offset_from_one_master` | as `slave_e2e` | a finding each | |

Bounds.

- `PtpClock`: the clock has identity 2, between the identities of two
  neighbours, so that ties are decided both ways. Their Announces make every
  branch of the comparison and of the decision happen: a better master; one that
  is better or worse as it gains and loses its reference; a second path to the
  same grandmaster; this clock's own data set returning through a neighbour; and
  its own looped-back message. Two sequence numbers make matching and
  non-matching Follow_Ups; a two-step and a one-step Sync exist. A table of 2 or
  3 wraps around with these senders. Nothing else is bounded. Class 248 with
  E2E has only the liveness run, and slave-only with P2P none: they are left to
  the proofs, which hold for all combinations.
- `delay`: `Wrap` is 4 for 65536 and `Lifetime` 2, so three requests are on the
  wire and the ids wrap around within four; `WrapAssumption` (no more answerable
  requests than ids) is the one thing the matching relies on. Two ports are one
  master and another, or one responder and another. Ids of Syncs are not counted:
  any Follow_Up of the parent may match.
- `net`: two entries make a full, an empty and a part-filled ring, and every
  distance between head and mailbox; four received pbufs fill the inbox, the entry
  that is overwritten and the one that is being read; three sent ones fill the
  outbox and go on. Pbufs are interchangeable (SYMMETRY). A driver that drops
  packets leaves the daemon waiting for ever, as the code does: deadlock is not
  checked there.
- `alerts`: timers post without limit, so the mailbox does fill up.
- `servo`: a word of 6 bits and a second of 15 ns keep the proportion of 32 bits
  to 10^9: a word holds two seconds and a bit. The order of the offset's filter is
  1, that of the delay's 3, for `DEFAULT_DELAY_S` 6: both are lowered, restored
  and limited by the size of the sample. Instants lie at the first and last
  nanosecond of two seconds and inside one. The sync interval is a second.

### Properties

Port state machine and best master clock (`PtpClock`):

- `TimersMatchState`: the active timers are exactly those of the port's state.
- `RecommendationAgrees`: the port acts in the state the decision asked for.
- `SlaveOnlyNeverMaster`: a slave-only clock never becomes master or passive.
- `RecordsReceived`, `DecisionHasARecord`: every record in use was received, and
  `bmc` never decides on an empty table.
- `DataSetMatchesRole`: parentDS describes this clock when it is master or
  passive, and one received Announce of another port when it follows.
- `PendingSyncHasAFollower`: no Sync waits for its Follow_Up outside the slave
  states.
- `SlaveIsSynchronised`: a SLAVE acts on an offset from its current parent that
  is not uncalibrated. It holds for E2E only: with P2P, a Pdelay_Req that
  cannot be sent makes an UNCALIBRATED port FAULTY while MASTER_CLOCK_SELECTED
  is set; the flag survives and later makes it SLAVE of a master it has no offset
  from. In E2E an UNCALIBRATED port sends nothing.
- `KeepsRolePromise`: it implements `PortRole`.
- `AbandonsSilentMaster`: a master that falls silent is given up for good.
- `TakesOverSilentNetwork`: when all masters are silent, a clock that may be master
  takes over. `live_e2e` checks this of such a clock, class 248; that a slave-only
  one listens, the other half of the formula, is stated and not run.

Delay measurement (`Delay`):

- `AnswerMeetsItsRequest`: an answer is matched with the departure time of its own
  request, though ids wrap around, failed sends use one twice, and answers come
  late. Excepted are departures that were zeroed or never stamped.
- `SlaveDelayFromItsMaster`: the Delay_Resp, the origin time and the Sync behind a
  SLAVE's delay are those of the master it follows. Excepted is a Sync that was
  waiting for its Follow_Up while the port went straight from one master to
  another: the new master's Follow_Up may complete it, and then the delay is made
  of the times of two masters (finding `offset_from_one_master`; the state is
  reachable in this model too). The property says that this is the only way: a
  pending Sync outlives neither a fault nor another role nor a step of the clock.
- `PeerDelayOfOneExchange`: a two-step peer delay is made of one exchange, if only
  one port answered the request, its Pdelay_Resp was not lost and ids are distinct.
- `WaitingHasAnswer`: whoever waits for a follow-up still has the answer.

Packets and wakeups (`Net`, `Alerts`):

- `RingShape`: the entry used next is free, unless the mailbox is full, and then
  it is the oldest one.
- `EachPacketOnce`: a packet is in one place, is freed once and not used after.
- `EachPacketCalledFor`: the outbox holds what callbacks are pending for, and the
  packets of failed calls.
- `WaitIsAnswered`: the wait for a timestamp has exactly one notification coming.
- `OwnTimestamp`: it is that of the packet that was sent.
- `AlertForEach`, `NothingForgotten`: the thread does not block for good with a
  packet unread.

Servo (`Servo`):

- `TimesExact`: what is measured has the length its timestamps give it and is in
  normal form, so that "no seconds" means less than a second.
- `FilterFits`: "Avoid overflowing of filter" (`servo.c:125`) is avoided,
  whatever comes next, unless a negative delay has entered.
- `FilterAverages`: the output moves towards the sample and not past it, whatever
  the order does.
- `Converges`: a steady offset or delay is reported exactly in the end.

### Fairness

`PtpLiveness` assumes that the thread runs until it blocks (WF of its steps),
that a timer that runs expires unless it is stopped or an Announce message
starts it anew, and that an active timer goes on posting alerts, so that a
blocked thread wakes up as long as one is active (timers are periodic: the code
restarts only the receipt and delay timers itself). Packets wake the thread too,
but none is assumed to arrive. From the first silence on no send fails and no
short message is received: otherwise a port could be FAULTY for ever, and a
FAULTY port has no timer. For the same reason masters do not fall silent while
the port is FAULTY.

`Servo` assumes that measurements go on once the clocks are steady (WF of
`MeasureAgain`): a master sends Syncs at an interval, and the timers of the delay
requests keep expiring.

## Findings

1. `bmc` selects the **worst** record: the loop replaces `best` when the
   comparison is negative, which means that `best` is the better one
   (`bmc.c:414`).
2. `addForeign` enters a known master **again**: `found` stays false
   (`bmc.c:116`).
3. The FAULT_CLEARED case of `doState` is unreachable: the stale recommendation
   moves a FAULTY port first, without initialising it (`protocol.c:338`).
4. A Follow_Up of a new parent completes the Sync of the former one
   (`protocol.c:829`). The offset is then that of no master, and end to end so is the
   path delay computed from it (`servo.c:220`): `SlaveDelayFromItsMaster` has to
   except it.

## Proofs

All theorems hold for every value of the constants that satisfies the named
assumptions of their modules.

Every invariant and action property of the runs that are expected to pass is
proved; the liveness properties are model-checked.

`SetInduction`: the library's induction theorems take an operator as a parameter,
which no installed prover can instantiate. Here induction is stated with a set: a
set that holds 0, and with each number the next, holds all of them (from the
well-foundedness of `<` on the naturals); and a function that iterates a step
exists. That suffices for the loop of `bmc` and for powers of two.

`PtpClockProofs`, about `Bmc`: `bmcDataSetComparison` is antisymmetric
(`ComparisonAntisymmetric`); the loop of `bmc` has exactly one course and result
for every table (`OneChoice`); and of records of different grandmasters, which the
comparison orders totally, it ends with the one that every other is better than
(`WorstIsChosen`): finding 1 is not an accident of the instance.

`PtpClockProofs`, about the port: types and six invariants. `TypeOK`, `TimersMatchState` and
`SlaveOnlyNeverMaster` (with types) are inductive. The others are not, because
what one phase of `doState` may assume was established two phases earlier, or by
another `doState`. The inductive invariant is

    Control == Agreement /\ Undecided /\ Recorded /\ Described

- `Agreement`: per phase, how portState and recommendedState may differ, and
  when events may be pending;
- `Undecided`: a decision event stands for at least one record (an Announce of
  the parent enters none, but a port follows only what it has a record of);
- `Recorded`: the records in use were received, and `i` follows `count`;
- `Described`: parentDS fits the role the port has or is about to take.

Each action preserves it by lemmas on `toState` through which most actions act
(`FaultControl`, `KeepControl`, `DelayRequestControl`), on `addForeign` and on
the decision (`AnnounceControl`, `DecisionControl`).

`PtpRoleProofs`: `PendingSyncHasAFollower` (inductive with types), then, for E2E,
`SlaveIsSynchronised` from `Settled`, which says in which phases
MASTER_CLOCK_SELECTED and the other two flags can be set and what they stand for.
The refinement `RoleRefinement` uses all of these: `Classed` and `Granted` bound
the recommended states by the configuration, and each action of `PtpClock` is
shown to be a step of `PortRole` or to keep `EffectiveState`, the master and the
fault as they are.

`DelayProofs`: types; `WaitingHasAnswer` (inductive with types, since `initClock`
runs at every exit from the states that wait); `SlaveDelayFromItsMaster` from
`Measured`: the offset of a SLAVE has its origin time from the master it follows;
a Sync that waits has a follower, and is its master's or overtaken; and so is the
Sync of every offset. The second part is what `initClock` and the checks of the
sender keep up, the first one rests on `SlaveIsSynchronised`, see above.
`AnswerMeetsItsRequest` follows from two facts, `Numbered`, that a request that was
sent is at most as many ids behind the next id as its place in the list, later ones
strictly less, and `Departed`, that the departure time kept is that of the last
stamped request.
Since fewer than `Wrap` requests are answerable, only the last one sent is one id
behind. `PeerDelayOfOneExchange` needs `AnswerIsHeard`: the Pdelay_Resp that waits
for its follow-up answers the last request, unless nobody has answered the last
request yet. With distinct ids, a follow-up to a request that one port answered then
completes that port's answer to that request.

`NetProofs`: `Shape` (types, `RingShape`, and that entries in use hold a packet) is
inductive; `EachPacketCalledFor` follows action by action; `Waits` counts the
callback, the packet and the notification of a send as they pass from the outbox
to the semaphore; `Follows` traces the packet of the send along that way, which
gives `OwnTimestamp`.

`PacketProofs`: `EachPacketOnce` speaks of a list of places (`Held`), which no step
keeps injective by itself. The inductive invariant says it by place, while no entry
was overwritten during a fetch: `RxOnce` (the queued entries of the inbox hold
different live packets; the entry the stack fills and the one the daemon has
fetched hold others; no live packet is anywhere else), `TxOnce` (the same of the
outbox, the sending callback and the driver) and `WaitedFor` (the packet the
daemon waits for is still to be sent, or has its timestamp). `WaitedFor` needs
`AtMostOneAnswer`, which unlike `WaitIsAnswered` also holds after packets were
dropped: a send has at most one callback, queued packet or notification on its way.

`AlertsProofs`: types, `AlertForEach` and from it `NothingForgotten`,
assuming `AlertSize >= 2 * QueueSize + 1`. The code's 16 and 4 satisfy it; the
assumption is tight: with `AlertSize = 2 * QueueSize` TLC finds a lost wakeup.
`AlertForEach` is the inductive invariant: every packet that waits, and a due
receipt timeout, has an alert in the mailbox, on its way to it, or taken by the
`doState` that is running.

`ServoProofs`: `addTime`, `subTime`, `div2Time` and the scaling of corrections are
exact and yield normal forms, for every length of a second, and hence
`TimesExact` of the servo. Then the filter, for every width of a word up to 32, in
which two seconds fit, and every order: `floorLog2` finds the highest bit
(`LogarithmExact`), so the order chosen is never negative and at most the filter's.
The inductive invariant is

    ServoInv == TypeOK /\ TimesExact /\ FilterShape

where `FilterShape` says that the output is the floor of the sum over
`1 << s_prev`, and lies between samples unless a negative delay has entered.
A rescaling keeps that (`RescaledBounds`); sum and sample together then lie
between the smaller and one above the greater of output and sample, times
`1 << s` (`SumBetween`). That bound gives `FilterFits` (the order leaves room for
one more bit than the greater value has) and `FilterAverages` (dividing it by
`1 << s`), the latter because the former makes the cut to a word harmless. The
assumptions are those of `Servo`: the order of the offset's filter is at most
`DEFAULT_OFFSET_S`, 1; with a greater one a negative offset could overflow too, since
the order is chosen for the greater of output and sample and not for the longer.

`ApproachCorrect` is the part of `Converges` that needs no fairness: in a steady
state the filter is not reset, its output never moves away from what is measured,
and as long as its order is kept, its sum changes by the distance that is left.

Only model-checked: the liveness properties `AbandonsSilentMaster`,
`TakesOverSilentNetwork` and `Converges`, which are beyond the prover (it has no
ENABLED).

## Not modelled

- `msg.c`: the byte layout. `sys_time.c`: wrappers of the user's functions.
- `toInternalTime` and `fromInternalTime` outside 1970 to 2038, where they leave
  their result unwritten.
- Timer durations, and with them `getRand` and the message intervals.
- Exhaustion of the pbuf pool, though `Net` shows where packets are leaked.
- The servo for other sync intervals than a second; parent statistics, which are
  compiled out.
- DHCP waiting, `netShutdown`, joining multicast groups, logging, management and
  signalling (empty handlers).
- PRE_MASTER and DISABLED, which nothing enters.

## Plan

1. *Done*: the port state machine and best master clock with liveness; alerts;
   `PortRole` and its refinement; the delay measurement; the packet rings; the
   servo and its arithmetic; proofs of all their safety properties.
2. Other sync intervals in `Servo`, where `offsetNorm` is shifted left.
3. That the order never falls in a steady state, which with `ApproachCorrect` bounds
   the number of measurements until `Converges`.
