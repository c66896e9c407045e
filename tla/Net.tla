--------------------------------- MODULE Net ---------------------------------
(***************************************************************************)
(* The packet queues of src/src/net.c: one packetHandler, that is an inbox *)
(* and an outbox, each a mailbox of pointers to the entries of a ring of   *)
(* the same size, between three parties:                                   *)
(*    stack   the TCP/IP thread, in netRecvCallback or netSendCallback     *)
(*    daemon  the ptpd thread, in netRecv, netSend or netEmptyEventQ       *)
(*    driver  the network driver, which sends packets and calls            *)
(*            lwipPtpTxNotify when the timestamp of one is ready           *)
(* A thread can be suspended between any two accesses to what is shared.   *)
(*                                                                         *)
(* A pbuf is live while somebody has to free it.  The ones the code leaks  *)
(* (a packet that was sent, or dropped by netEmptyEventQ) stop being live  *)
(* too: here the pool does not run dry, but an allocation can fail at any  *)
(* time, which changes nothing.                                            *)
(***************************************************************************)
EXTENDS Integers, Sequences, FiniteSets, Functions

CONSTANTS
  QueueSize,   \* PBUF_QUEUE_SIZE
  RxPbuf,      \* the pbufs of received packets
  TxPbuf,      \* the pbufs of packets to be sent
  NoPbuf       \* what an entry holds before its first use

ASSUME QueueSizeAssumption == QueueSize \in Nat \ {0}
ASSUME PbufAssumption == RxPbuf \intersect TxPbuf = {} /\ NoPbuf \notin RxPbuf \union TxPbuf

VARIABLES
  handler,      \* "event": sends wait for their timestamp; or "general"
  inboxBuf,     \* the entries of the ring
  inboxHead,    \* the entry for the next packet
  inbox,        \* the mailbox: the entries posted and not fetched
  outboxBuf,
  outboxHead,
  outbox,
  stack,        \* where the TCP/IP thread is, and its locals
  daemon,       \* where the ptpd thread is, and its locals
  callbacks,    \* netSendCallbacks that wait for the TCP/IP thread
  driver,       \* the pbufs the driver has to send
  stamped,      \* the sent pbufs that have their timestamp
  ptpTxNotify,  \* the semaphore
  live,
  overrun,      \* history: an entry was overwritten while it was being fetched
  dropped,      \* history: a packet was not sent
  stranded      \* history: how often tcpip_callback failed

inVars == <<inboxBuf, inboxHead, inbox>>
outVars == <<outboxBuf, outboxHead, outbox, callbacks>>
txVars == <<driver, stamped, ptpTxNotify>>
history == <<overrun, dropped, stranded>>
vars == <<handler, inVars, outVars, stack, daemon, txVars, live, history>>

Pbuf == RxPbuf \union TxPbuf
Entry == 0..(QueueSize - 1)
Box == UNION {[1..n -> Entry] : n \in 0..QueueSize}

Idle == [at |-> "idle"]

\* A mistake: the ring is one entry longer than the code makes it.
AdvanceLate(head) == IF head = QueueSize THEN 0 ELSE head + 1

\* A mistake: the next packet goes to the same entry.
AdvanceNot(head) == head

\* The head of a ring after a packet was posted.
Advance(head) == IF head + 1 = QueueSize THEN 0 ELSE head + 1

Init ==
  /\ handler \in {"event", "general"}
  /\ inboxBuf = [e \in Entry |-> NoPbuf] /\ inboxHead = 0 /\ inbox = <<>>
  /\ outboxBuf = [e \in Entry |-> NoPbuf] /\ outboxHead = 0 /\ outbox = <<>>
  /\ stack = Idle /\ daemon = Idle
  /\ callbacks = 0
  /\ driver = {} /\ stamped = {} /\ ptpTxNotify = 0
  /\ live = {}
  /\ overrun = FALSE /\ dropped = FALSE /\ stranded = 0

(***************************************************************************)
(* Reception: netRecvCallback in the TCP/IP thread.                        *)
(***************************************************************************)

\* The entry at the head is saved and overwritten before it is posted.
Overwrite(p) ==
  /\ stack = Idle
  /\ p \in RxPbuf \ live
  /\ live' = live \union {p}
  /\ stack' = [at |-> "received", saved |-> inboxBuf[inboxHead]]
  /\ inboxBuf' = [inboxBuf EXCEPT ![inboxHead] = p]
  /\ overrun' = (overrun \/ daemon = [at |-> "fetched", entry |-> inboxHead])
  /\ UNCHANGED <<handler, inboxHead, inbox, outVars, daemon, txVars, dropped,
                 stranded>>

\* A mistake: the packet that does not fit stays in the entry.
RestoreNothing(buf, head, saved) == buf

\* The entry of a packet that does not fit gets its former packet back.
Restore(buf, head, saved) == [buf EXCEPT ![head] = saved]

PostReceived ==
  /\ stack.at = "received"
  /\ stack' = Idle
  /\ IF Len(inbox) < QueueSize
       THEN /\ inbox' = Append(inbox, inboxHead)
            /\ inboxHead' = Advance(inboxHead)
            /\ UNCHANGED <<inboxBuf, live>>
       ELSE /\ live' = live \ {inboxBuf[inboxHead]}
            /\ inboxBuf' = Restore(inboxBuf, inboxHead, stack.saved)
            /\ UNCHANGED <<inbox, inboxHead>>
  /\ UNCHANGED <<handler, outVars, daemon, txVars, history>>

(***************************************************************************)
(* Reception: netRecv and netEmptyEventQ in the ptpd thread.               *)
(***************************************************************************)

\* The entry at the head of the ring is being overwritten.
Overwritten(entry) == stack.at = "received" /\ entry = inboxHead

Fetch ==
  /\ daemon = Idle
  /\ inbox # <<>>
  /\ daemon' = [at |-> "fetched", entry |-> Head(inbox)]
  /\ inbox' = Tail(inbox)
  /\ overrun' = (overrun \/ Overwritten(Head(inbox)))
  /\ UNCHANGED <<handler, inboxBuf, inboxHead, outVars, stack, txVars, live,
                 dropped, stranded>>

\* Whatever its length, the packet is freed.
ReadPacket ==
  /\ daemon.at = "fetched"
  /\ daemon' = Idle
  /\ live' = live \ {inboxBuf[daemon.entry]}
  /\ UNCHANGED <<handler, inVars, outVars, stack, txVars, history>>

netEmptyEventQ ==
  /\ handler = "event"
  /\ daemon = Idle
  /\ daemon' = [at |-> "emptying"]
  /\ UNCHANGED <<handler, inVars, outVars, stack, txVars, live, history>>

\* The packets are not freed.
EmptyNext ==
  /\ daemon.at = "emptying"
  /\ IF inbox = <<>>
       THEN daemon' = Idle /\ UNCHANGED <<inbox, live, overrun>>
       ELSE /\ inbox' = Tail(inbox)
            /\ live' = live \ {inboxBuf[Head(inbox)]}
            /\ overrun' = (overrun \/ Overwritten(Head(inbox)))
            /\ UNCHANGED daemon
  /\ UNCHANGED <<handler, inboxBuf, inboxHead, outVars, stack, txVars, dropped,
                 stranded>>

(***************************************************************************)
(* Transmission: netSend in the ptpd thread.                               *)
(***************************************************************************)

Queue(p) ==
  /\ daemon = Idle
  /\ p \in TxPbuf \ live
  /\ live' = live \union {p}
  /\ stamped' = stamped \ {p}
  /\ daemon' = [at |-> "queueing", pbuf |-> p, saved |-> outboxBuf[outboxHead]]
  /\ outboxBuf' = [outboxBuf EXCEPT ![outboxHead] = p]
  /\ overrun' = (overrun \/ stack = [at |-> "sending", entry |-> outboxHead])
  /\ UNCHANGED <<handler, inVars, outboxHead, outbox, callbacks, stack, driver,
                 ptpTxNotify, dropped, stranded>>

\* A mistake: netSendCallback is called for a packet that did not fit.
AfterFullOutboxCalls == [at |-> "calling", pbuf |-> daemon.pbuf]

AfterFullOutbox == Idle

PostQueued ==
  /\ daemon.at = "queueing"
  /\ IF Len(outbox) < QueueSize
       THEN /\ outbox' = Append(outbox, outboxHead)
            /\ outboxHead' = Advance(outboxHead)
            /\ daemon' = [at |-> "calling", pbuf |-> daemon.pbuf]
            /\ UNCHANGED <<outboxBuf, live>>
       ELSE /\ live' = live \ {daemon.pbuf}
            /\ outboxBuf' = Restore(outboxBuf, outboxHead, daemon.saved)
            /\ daemon' = AfterFullOutbox
            /\ UNCHANGED <<outbox, outboxHead>>
  /\ UNCHANGED <<handler, inVars, callbacks, stack, txVars, history>>

\* A mistake: the daemon waits for a timestamp although the call has failed.
AfterFailedCallWaits == [at |-> "waiting", pbuf |-> daemon.pbuf]

\* netSend returns at once: the packet stays in the outbox.
AfterFailedCall == Idle

\* Only the packets of the event port have a timestamp to wait for.
Call ==
  /\ daemon.at = "calling"
  /\ \/ /\ callbacks' = callbacks + 1
        /\ daemon' = IF handler = "event"
                       THEN [at |-> "waiting", pbuf |-> daemon.pbuf] ELSE Idle
        /\ UNCHANGED stranded
     \/ /\ stranded' = stranded + 1
        /\ daemon' = AfterFailedCall
        /\ UNCHANGED callbacks
  /\ UNCHANGED <<handler, inVars, outboxBuf, outboxHead, outbox, stack, txVars,
                 live, overrun, dropped>>

\* A mistake: the wait has a timeout, and the notification may come after it.
NotifiedOrLate == TRUE

Notified == ptpTxNotify > 0

\* The send succeeds if the packet has a timestamp now.
Return ==
  /\ daemon.at = "waiting"
  /\ Notified
  /\ ptpTxNotify' = IF ptpTxNotify = 0 THEN 0 ELSE ptpTxNotify - 1
  /\ daemon' = Idle
  /\ live' = IF daemon.pbuf \in stamped THEN live \ {daemon.pbuf} ELSE live
  /\ UNCHANGED <<handler, inVars, outVars, stack, driver, stamped, history>>

(***************************************************************************)
(* Transmission: netSendCallback in the TCP/IP thread, and the driver.     *)
(***************************************************************************)

netSendCallback ==
  /\ stack = Idle
  /\ callbacks > 0
  /\ callbacks' = callbacks - 1
  /\ IF outbox = <<>>
       THEN UNCHANGED <<stack, outbox, overrun>>
       ELSE /\ stack' = [at |-> "sending", entry |-> Head(outbox)]
            /\ outbox' = Tail(outbox)
            /\ overrun' = (overrun \/ (daemon.at = "queueing"
                                         /\ Head(outbox) = outboxHead))
  /\ UNCHANGED <<handler, inVars, outboxBuf, outboxHead, daemon, txVars, live,
                 dropped, stranded>>

\* Nobody looks at the packet any more.
Forgotten(p) == IF daemon = [at |-> "waiting", pbuf |-> p] THEN {} ELSE {p}

\* udp_sendto: a packet it refuses is lost.
SendOut ==
  /\ stack.at = "sending"
  /\ stack' = Idle
  /\ LET p == outboxBuf[stack.entry]
     IN  \/ /\ driver' = driver \union {p}
            /\ UNCHANGED <<live, dropped>>
         \/ /\ dropped' = TRUE
            /\ live' = live \ Forgotten(p)
            /\ UNCHANGED driver
  /\ UNCHANGED <<handler, inVars, outVars, daemon, stamped, ptpTxNotify,
                 overrun, stranded>>

\* The driver has sent a packet; lwipPtpTxNotify, if it has a timestamp.
Transmit(p) ==
  /\ p \in driver
  /\ driver' = driver \ {p}
  /\ live' = live \ Forgotten(p)
  /\ IF handler = "event"
       THEN stamped' = stamped \union {p} /\ ptpTxNotify' = ptpTxNotify + 1
       ELSE UNCHANGED <<stamped, ptpTxNotify>>
  /\ UNCHANGED <<handler, inVars, outVars, stack, daemon, history>>

Next ==
  \/ \E p \in RxPbuf : Overwrite(p)
  \/ PostReceived
  \/ Fetch \/ ReadPacket \/ netEmptyEventQ \/ EmptyNext
  \/ \E p \in TxPbuf : Queue(p) \/ Transmit(p)
  \/ PostQueued \/ Call \/ Return
  \/ netSendCallback \/ SendOut

Spec == Init /\ [][Next]_vars

(***************************************************************************)
(* Properties.                                                             *)
(***************************************************************************)

\* The values the variables take; heads stay inside their rings.
TypeOK ==
  /\ handler \in {"event", "general"}
  /\ inboxBuf \in [Entry -> Pbuf \union {NoPbuf}]
  /\ outboxBuf \in [Entry -> Pbuf \union {NoPbuf}]
  /\ inboxHead \in Entry /\ outboxHead \in Entry
  /\ inbox \in Box /\ outbox \in Box
  /\ stack \in {Idle}
       \union [at : {"received"}, saved : Pbuf \union {NoPbuf}]
       \union [at : {"sending"}, entry : Entry]
  /\ daemon \in {Idle, [at |-> "emptying"]}
       \union [at : {"fetched"}, entry : Entry]
       \union [at : {"queueing"}, pbuf : TxPbuf, saved : Pbuf \union {NoPbuf}]
       \union [at : {"calling", "waiting"}, pbuf : TxPbuf]
  /\ callbacks \in Nat /\ ptpTxNotify \in Nat /\ stranded \in Nat
  /\ driver \subseteq Pbuf /\ stamped \subseteq Pbuf /\ live \subseteq Pbuf
  /\ overrun \in BOOLEAN /\ dropped \in BOOLEAN

\* The entries in a mailbox are the last ones before the head, in their order.
Consecutive(box, head) ==
  \A i \in 1..Len(box) :
    box[i] = (head + QueueSize - Len(box) + i - 1) % QueueSize

\* Mailbox and ring agree, whatever the interleaving: the entry that is used next
\* is free unless the mailbox is full, and then it is the oldest one.
RingShape == Consecutive(inbox, inboxHead) /\ Consecutive(outbox, outboxHead)

\* What an entry of the inbox will hold when it can be fetched again.
Received(e) == IF Overwritten(e) THEN stack.saved ELSE inboxBuf[e]
Queued(e) == IF daemon.at = "queueing" /\ e = outboxHead
               THEN daemon.saved ELSE outboxBuf[e]

\* The pbufs in the hands of the two threads and their mailboxes.
Held ==
  [i \in 1..Len(inbox) |-> Received(inbox[i])]
  \o [i \in 1..Len(outbox) |-> Queued(outbox[i])]
  \o (CASE stack.at = "received" -> <<inboxBuf[inboxHead]>>
        [] stack.at = "sending" -> <<outboxBuf[stack.entry]>>
        [] OTHER -> <<>>)
  \o (CASE daemon.at = "fetched" -> <<inboxBuf[daemon.entry]>>
        [] daemon.at = "queueing" -> <<daemon.pbuf>>
        [] OTHER -> <<>>)

\* Every packet is in one place: it is not delivered or sent twice, not used or
\* freed after it was freed, and a received one is not lost between a full inbox
\* and the entry that was overwritten for it.  Unless an entry was overwritten
\* while the other thread was fetching it.
EachPacketOnce ==
  ~overrun =>
    /\ IsInjective(Held)
    /\ Range(Held) \subseteq live \ driver
    /\ live \intersect RxPbuf \subseteq Range(Held)
    /\ live \intersect TxPbuf \subseteq
         Range(Held) \union driver
           \union (IF daemon.at = "waiting" THEN {daemon.pbuf} ELSE {})

\* The packets queued are those netSendCallback was called for, and those of
\* failed calls, which stay for ever.
EachPacketCalledFor ==
  Len(outbox) = callbacks + stranded + (IF daemon.at = "calling" THEN 1 ELSE 0)

\* The daemon waits for exactly one notification that is on its way, and none is
\* on its way when it does not wait: it is neither blocked for ever nor woken by
\* the packet before, even after failed calls.  Unless a packet was not sent.
WaitIsAnswered ==
  handler = "event" /\ ~dropped =>
    callbacks + (IF stack.at = "sending" THEN 1 ELSE 0) + Cardinality(driver)
      + ptpTxNotify = IF daemon.at = "waiting" THEN 1 ELSE 0

\* The notification that wakes the daemon up is that of the packet it has sent:
\* the timestamp is there.  Unless a call has failed.
OwnTimestamp ==
  /\ daemon.at = "waiting" /\ ptpTxNotify > 0
  /\ stranded = 0 /\ ~dropped /\ ~overrun
  => daemon.pbuf \in stamped
=============================================================================
