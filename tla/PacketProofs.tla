------------------------------ MODULE PacketProofs ------------------------------
(***************************************************************************)
(* Every packet of Net is in one place, for every queue size and all sets  *)
(* of pbufs: neither delivered or sent twice, nor used after it was freed, *)
(* nor lost, unless an entry of a ring was overwritten while the other     *)
(* thread was fetching it.                                                 *)
(***************************************************************************)
EXTENDS NetProofs

(***************************************************************************)
(* Mailboxes.  Their packets are a function of their entries, and an entry *)
(* is in a mailbox once.                                                   *)
(***************************************************************************)

Entries(box) == {box[i] : i \in 1..Len(box)}

\* Entry and position determine one another.
LEMMA Distinct ==
  ASSUME NEW box \in Box, NEW head \in Entry, Consecutive(box, head),
         NEW i \in 1..Len(box), NEW j \in 1..Len(box), box[i] = box[j]
  PROVE  i = j
PROOF
  <1> DEFINE x == head + QueueSize - Len(box) + i - 1
             y == head + QueueSize - Len(box) + j - 1
  <1>1. /\ QueueSize \in Nat \ {0} /\ head \in 0..(QueueSize - 1)
        /\ Len(box) \in 0..QueueSize
    BY QueueSizeAssumption, BoxEntries DEF Entry
  <1>2. x \in 0..(2 * QueueSize - 1) /\ y \in 0..(2 * QueueSize - 1)
    BY <1>1
  <1>3. /\ x % QueueSize = IF x < QueueSize THEN x ELSE x - QueueSize
        /\ y % QueueSize = IF y < QueueSize THEN y ELSE y - QueueSize
    BY <1>2, Wrapped
  <1>4. x % QueueSize = y % QueueSize
    BY DEF Consecutive
  <1>5. x = y \/ x = y - QueueSize \/ y = x - QueueSize
    <2> HIDE DEF x, y
    <2> QED
      BY <1>1, <1>2, <1>3, <1>4
  <1>6. QED
    BY <1>1, <1>5

\* The head of the ring is not in a mailbox with room for it.
LEMMA HeadIsFree ==
  ASSUME NEW box \in Box, NEW head \in Entry, Consecutive(box, head),
         Len(box) < QueueSize, NEW i \in 1..Len(box)
  PROVE  box[i] # head
PROOF
  <1> DEFINE x == head + QueueSize - Len(box) + i - 1
  <1>1. /\ QueueSize \in Nat \ {0} /\ head \in 0..(QueueSize - 1)
        /\ Len(box) \in 0..QueueSize
    BY QueueSizeAssumption, BoxEntries DEF Entry
  <1>2. x \in 0..(2 * QueueSize - 1) /\ x > head /\ x < head + QueueSize
    BY <1>1
  <1>3. x % QueueSize = IF x < QueueSize THEN x ELSE x - QueueSize
    BY <1>2, Wrapped
  <1>4. box[i] = x % QueueSize
    BY DEF Consecutive
  <1>5. QED
    <2> HIDE DEF x
    <2> QED
      BY <1>1, <1>2, <1>3, <1>4

\* Posting adds the head to the entries, and fetching takes the first one away.
LEMMA EntriesOfAppend ==
  ASSUME NEW box \in Box, NEW head \in Entry, Consecutive(box, head),
         Len(box) < QueueSize
  PROVE  /\ Entries(Append(box, head)) = Entries(box) \union {head}
         /\ head \notin Entries(box)
PROOF
  <1>1. /\ Len(Append(box, head)) = Len(box) + 1
        /\ \A i \in 1..Len(box) : Append(box, head)[i] = box[i]
        /\ Append(box, head)[Len(box) + 1] = head
        /\ Len(box) \in Nat
    BY AppendBox, BoxEntries, QueueSizeAssumption
  <1>2. 1..(Len(box) + 1) = 1..Len(box) \union {Len(box) + 1}
    BY <1>1
  <1>3. Entries(Append(box, head)) = Entries(box) \union {head}
    BY <1>1, <1>2 DEF Entries
  <1>4. head \notin Entries(box)
    BY HeadIsFree DEF Entries
  <1>5. QED
    BY <1>3, <1>4

LEMMA EntriesOfTail ==
  ASSUME NEW box \in Box, NEW head \in Entry, Consecutive(box, head), box # <<>>
  PROVE  /\ Head(box) \in Entries(box)
         /\ Entries(Tail(box)) = Entries(box) \ {Head(box)}
PROOF
  <1>1. /\ Len(box) \in 1..QueueSize
        /\ Len(Tail(box)) = Len(box) - 1
        /\ \A i \in 1..(Len(box) - 1) : Tail(box)[i] = box[i + 1]
    BY TailBox
  <1>2. 1 \in 1..Len(box) /\ Head(box) = box[1]
    BY <1>1
  <1>3. ASSUME NEW e \in Entries(Tail(box))
        PROVE  e \in Entries(box) \ {Head(box)}
    <2>1. PICK i \in 1..(Len(box) - 1) : e = box[i + 1]
      BY <1>1 DEF Entries
    <2>2. i + 1 \in 1..Len(box) /\ i + 1 # 1
      BY <1>1, <2>1
    <2>3. e # Head(box)
      BY <1>2, <2>1, <2>2, Distinct
    <2>4. QED
      BY <2>1, <2>2, <2>3 DEF Entries
  <1>4. ASSUME NEW e \in Entries(box) \ {Head(box)}
        PROVE  e \in Entries(Tail(box))
    <2>1. PICK i \in 1..Len(box) : e = box[i]
      BY DEF Entries
    <2>2. i # 1
      BY <1>2, <1>4, <2>1
    <2>3. i - 1 \in 1..(Len(box) - 1) /\ (i - 1) + 1 = i
      BY <1>1, <2>1, <2>2
    <2>4. Tail(box)[i - 1] = e
      BY <1>1, <2>1, <2>3
    <2>5. QED
      BY <1>1, <2>3, <2>4 DEF Entries
  <1>5. QED
    BY <1>2, <1>3, <1>4 DEF Entries

LEMMA EntriesInRing ==
  ASSUME NEW box \in Box
  PROVE  Entries(box) \subseteq Entry
PROOF
  BY BoxEntries DEF Entries

\* The head of the ring is in a full mailbox.
LEMMA FullHasHead ==
  ASSUME NEW box \in Box, NEW head \in Entry, Consecutive(box, head),
         ~(Len(box) < QueueSize)
  PROVE  head \in Entries(box)
PROOF
  <1>1. Len(box) = QueueSize
    BY BoxEntries, QueueSizeAssumption
  <1>2. QED
    BY <1>1, FullHoldsHead DEF Entries

(***************************************************************************)
(* What is in the hands of whom.                                           *)
(***************************************************************************)

InSet == Entries(inbox)
InPbuf == [e \in Entry |-> Received(e)]
OutSet == Entries(outbox)
OutPbuf == [e \in Entry |-> Queued(e)]

\* Reception: the packets of the inbox, those of the two threads, and no others.
RxLive == live \intersect RxPbuf
InboxOnce ==
  /\ \A e, f \in InSet : InPbuf[e] = InPbuf[f] => e = f
  /\ \A e \in InSet : InPbuf[e] \in RxLive
StackReceives ==
  stack.at = "received" =>
    /\ inboxBuf[inboxHead] \in RxLive
    /\ \A e \in InSet : InPbuf[e] # inboxBuf[inboxHead]
DaemonFetches ==
  daemon.at = "fetched" =>
    /\ daemon.entry \notin InSet
    /\ inboxBuf[daemon.entry] \in RxLive
    /\ \A e \in InSet : InPbuf[e] # inboxBuf[daemon.entry]
    /\ stack.at = "received" =>
         daemon.entry # inboxHead /\ inboxBuf[daemon.entry] # inboxBuf[inboxHead]
RxAccounted ==
  \A p \in RxLive :
    \/ \E e \in InSet : p = InPbuf[e]
    \/ stack.at = "received" /\ p = inboxBuf[inboxHead]
    \/ daemon.at = "fetched" /\ p = inboxBuf[daemon.entry]

RxOnce == InboxOnce /\ StackReceives /\ DaemonFetches /\ RxAccounted

\* What RxOnce depends on.
rxView == <<inboxBuf, inboxHead, inbox, RxLive>>

\* Steps of transmission.
LEMMA SameReception ==
  ASSUME RxOnce, UNCHANGED rxView,
         \/ stack' = stack
         \/ stack.at # "received" /\ stack'.at # "received",
         \/ daemon' = daemon
         \/ daemon.at # "fetched" /\ daemon'.at # "fetched"
  PROVE  RxOnce'
PROOF
  <1>1. InSet' = InSet
    BY DEF rxView, InSet, Entries
  <1>2. InPbuf' = InPbuf
    BY DEF rxView, InPbuf, Received, Overwritten
  <1>3. QED
    BY <1>1, <1>2
    DEF rxView, RxOnce, InboxOnce, StackReceives, DaemonFetches, RxAccounted

\* The entry that is overwritten is in the mailbox or nobody's: what it held is
\* saved, and the daemon is not reading it.
LEMMA OverwriteRx ==
  ASSUME Shape, RxOnce, ~overrun', NEW p \in RxPbuf, Overwrite(p)
  PROVE  RxOnce'
PROOF
  <1>1. /\ stack = Idle
        /\ stack' = [at |-> "received", saved |-> inboxBuf[inboxHead]]
        /\ inboxBuf' = [inboxBuf EXCEPT ![inboxHead] = p]
        /\ UNCHANGED <<inboxHead, inbox, daemon>>
        /\ RxLive' = RxLive \union {p} /\ p \notin RxLive
    BY DEF Overwrite, RxLive
  <1>2. /\ inboxHead \in Entry /\ inbox \in Box
        /\ DOMAIN inboxBuf = Entry
    BY DEF Shape, InType
  <1>3. InSet' = InSet /\ InSet \subseteq Entry
    BY <1>1, <1>2, EntriesInRing DEF InSet, Entries
  <1>4. InPbuf' = InPbuf
    <2>1. ASSUME NEW e \in Entry
          PROVE  Received(e)' = Received(e)
      BY <1>1, <1>2 DEF Received, Overwritten, Idle
    <2>2. QED
      BY <2>1 DEF InPbuf
  <1>5. inboxBuf'[inboxHead'] = p
    BY <1>1, <1>2
  <1>6. daemon.at = "fetched" =>
          daemon.entry # inboxHead /\ inboxBuf'[daemon.entry] = inboxBuf[daemon.entry]
    <2>1. daemon.at = "fetched" => daemon.entry # inboxHead
      <3>1. daemon # [at |-> "fetched", entry |-> inboxHead]
        BY DEF Overwrite
      <3>2. QED
        BY <3>1 DEF Shape, DaemonType, Idle
    <2>2. daemon.at = "fetched" => daemon.entry \in Entry
      BY Locals DEF Shape
    <2>3. QED
      BY <1>1, <1>2, <2>1, <2>2
  <1>7. stack.at = "idle" /\ stack'.at = "received"
    BY <1>1 DEF Idle
  <1>8. InboxOnce'
    BY <1>1, <1>3, <1>4 DEF RxOnce, InboxOnce
  <1>9. StackReceives'
    BY <1>1, <1>3, <1>4, <1>5 DEF RxOnce, InboxOnce, StackReceives
  <1>10. DaemonFetches'
    BY <1>1, <1>3, <1>4, <1>5, <1>6 DEF RxOnce, DaemonFetches
  <1>11. RxAccounted'
    BY <1>1, <1>3, <1>4, <1>5, <1>6, <1>7 DEF RxOnce, RxAccounted
  <1>12. QED
    BY <1>8, <1>9, <1>10, <1>11 DEF RxOnce

\* The packet that was received goes to the mailbox, or the entry gets the one
\* it had before.
LEMMA PostReceivedRx ==
  ASSUME Shape, RxOnce, PostReceived
  PROVE  RxOnce'
PROOF
  <1>1. /\ stack.at = "received" /\ stack'.at = "idle"
        /\ UNCHANGED daemon
    BY DEF PostReceived, Idle
  <1>2. /\ inboxHead \in Entry /\ inbox \in Box /\ Consecutive(inbox, inboxHead)
        /\ DOMAIN inboxBuf = Entry /\ InSet \subseteq Entry
    BY EntriesInRing DEF Shape, InType, InSet
  <1>3. daemon.at = "fetched" => daemon.entry \in Entry /\ daemon.entry # inboxHead
    BY <1>1, Locals DEF Shape, RxOnce, DaemonFetches
  <1>4. CASE Len(inbox) < QueueSize
    <2>1. /\ inbox' = Append(inbox, inboxHead)
          /\ UNCHANGED <<inboxBuf, live>>
      BY <1>4 DEF PostReceived
    <2>2. /\ InSet' = InSet \union {inboxHead}
          /\ inboxHead \notin InSet
          /\ RxLive' = RxLive
      BY <1>2, <1>4, <2>1, EntriesOfAppend DEF InSet, Entries, RxLive
    <2>3. \A e \in Entry : InPbuf'[e] = inboxBuf[e]
      BY <1>1, <2>1 DEF InPbuf, Received, Overwritten
    <2>4. \A e \in InSet : InPbuf[e] = inboxBuf[e]
      BY <1>2, <2>2 DEF InPbuf, Received, Overwritten
    <2>5. QED
      BY <1>1, <1>2, <1>3, <2>1, <2>2, <2>3, <2>4
      DEF RxOnce, InboxOnce, StackReceives, DaemonFetches, RxAccounted
  <1>5. CASE ~(Len(inbox) < QueueSize)
    <2>1. /\ live' = live \ {inboxBuf[inboxHead]}
          /\ inboxBuf' = [inboxBuf EXCEPT ![inboxHead] = stack.saved]
          /\ UNCHANGED <<inbox, inboxHead>>
      BY <1>5 DEF PostReceived, Restore
    <2>2. /\ InSet' = InSet
          /\ RxLive' = RxLive \ {inboxBuf[inboxHead]}
      BY <2>1 DEF InSet, Entries, RxLive
    <2>3. \A e \in Entry : InPbuf'[e] = InPbuf[e]
      BY <1>1, <1>2, <2>1 DEF InPbuf, Received, Overwritten
    <2>4. daemon.at = "fetched" => inboxBuf'[daemon.entry] = inboxBuf[daemon.entry]
      BY <1>2, <1>3, <2>1
    <2>5. QED
      BY <1>1, <1>2, <1>3, <2>2, <2>3, <2>4
      DEF RxOnce, InboxOnce, StackReceives, DaemonFetches, RxAccounted
  <1>6. QED
    BY <1>4, <1>5

\* The first entry leaves the mailbox: for the daemon, or for good.
LEMMA FetchRx ==
  ASSUME Shape, RxOnce, ~overrun', inbox # <<>>, Fetch \/ EmptyNext
  PROVE  RxOnce'
PROOF
  <1> DEFINE first == Head(inbox)
  <1>1. /\ inbox' = Tail(inbox)
        /\ UNCHANGED <<inboxBuf, inboxHead, stack>>
        /\ ~Overwritten(first)
        /\ daemon.at # "fetched"
    <2>1. overrun' = (overrun \/ Overwritten(first))
      BY DEF Fetch, EmptyNext
    <2>2. ~Overwritten(first)
      BY <2>1 DEF Overwritten
    <2>3. /\ inbox' = Tail(inbox)
          /\ UNCHANGED <<inboxBuf, inboxHead, stack>>
      BY DEF Fetch, EmptyNext
    <2>4. daemon.at # "fetched"
      BY DEF Fetch, EmptyNext, Idle
    <2>5. QED
      BY <2>2, <2>3, <2>4
  <1>2. /\ inbox \in Box /\ inboxHead \in Entry /\ Consecutive(inbox, inboxHead)
    BY DEF Shape, InType
  <1>3. first \in InSet /\ InSet' = InSet \ {first} /\ InSet \subseteq Entry
    BY <1>1, <1>2, EntriesOfTail, EntriesInRing DEF InSet, Entries
  <1>4. InPbuf' = InPbuf
    BY <1>1 DEF InPbuf, Received, Overwritten
  <1>5. InPbuf[first] = inboxBuf[first]
    BY <1>1, <1>3 DEF InPbuf, Received
  <1>6. stack.at = "received" => first # inboxHead
    BY <1>1 DEF Overwritten
  <1> HIDE DEF first
  <1>7. InboxOnce'
    <2>1. RxLive' = RxLive \/ RxLive' = RxLive \ {inboxBuf[first]}
      BY DEF Fetch, EmptyNext, RxLive, first
    <2>2. QED
      BY <1>3, <1>4, <1>5, <2>1 DEF RxOnce, InboxOnce
  <1>8. CASE Fetch
    <2>1. daemon' = [at |-> "fetched", entry |-> first] /\ RxLive' = RxLive
      BY <1>8 DEF Fetch, RxLive, first
    <2>2. StackReceives'
      BY <1>1, <1>3, <1>4, <2>1 DEF RxOnce, StackReceives
    <2>3. DaemonFetches'
      BY <1>1, <1>3, <1>4, <1>5, <1>6, <2>1
      DEF RxOnce, InboxOnce, StackReceives, DaemonFetches
    <2>4. RxAccounted'
      BY <1>1, <1>3, <1>4, <1>5, <2>1 DEF RxOnce, RxAccounted
    <2>5. QED
      BY <1>7, <2>2, <2>3, <2>4 DEF RxOnce
  <1>9. CASE EmptyNext
    <2>1. daemon' = daemon /\ RxLive' = RxLive \ {inboxBuf[first]}
      BY <1>9 DEF EmptyNext, RxLive, first
    <2>2. StackReceives' /\ DaemonFetches'
      BY <1>1, <1>3, <1>4, <1>5, <2>1 DEF RxOnce, StackReceives, DaemonFetches
    <2>3. RxAccounted'
      BY <1>1, <1>3, <1>4, <1>5, <2>1 DEF RxOnce, RxAccounted
    <2>4. QED
      BY <1>7, <2>2, <2>3 DEF RxOnce
  <1>10. QED
    BY <1>8, <1>9

\* The daemon has read and freed its packet.
LEMMA ReadRx ==
  ASSUME RxOnce, ReadPacket
  PROVE  RxOnce'
PROOF
  <1>1. /\ daemon.at = "fetched" /\ daemon'.at = "idle"
        /\ UNCHANGED <<inboxBuf, inboxHead, inbox, stack>>
        /\ RxLive' = RxLive \ {inboxBuf[daemon.entry]}
    BY DEF ReadPacket, inVars, RxLive, Idle
  <1>2. InSet' = InSet /\ InPbuf' = InPbuf
    BY <1>1 DEF InSet, Entries, InPbuf, Received, Overwritten
  <1>3. QED
    BY <1>1, <1>2
    DEF RxOnce, InboxOnce, StackReceives, DaemonFetches, RxAccounted

\* The packets of the outbox, those of the two threads and of the driver, and
\* the one the daemon waits for; none of them has its timestamp yet.
TxLive == live \intersect TxPbuf
Unsent == (TxLive \ driver) \ stamped
OutboxOnce ==
  /\ \A e, f \in OutSet : OutPbuf[e] = OutPbuf[f] => e = f
  /\ \A e \in OutSet : OutPbuf[e] \in Unsent
DaemonQueues ==
  daemon.at = "queueing" =>
    /\ outboxBuf[outboxHead] = daemon.pbuf
    /\ daemon.pbuf \in Unsent
    /\ \A e \in OutSet : OutPbuf[e] # daemon.pbuf
StackSends ==
  stack.at = "sending" =>
    /\ stack.entry \notin OutSet
    /\ outboxBuf[stack.entry] \in Unsent
    /\ \A e \in OutSet : OutPbuf[e] # outboxBuf[stack.entry]
    /\ daemon.at = "queueing" =>
         stack.entry # outboxHead /\ outboxBuf[stack.entry] # daemon.pbuf
DriverSends == driver \subseteq TxLive \ stamped
Unfinished(p) ==
  \/ \E e \in OutSet : p = OutPbuf[e]
  \/ stack.at = "sending" /\ p = outboxBuf[stack.entry]
  \/ daemon.at = "queueing" /\ p = daemon.pbuf
  \/ p \in driver
TxAccounted ==
  \A p \in TxLive : Unfinished(p) \/ (daemon.at = "waiting" /\ p = daemon.pbuf)

TxOnce == OutboxOnce /\ DaemonQueues /\ StackSends /\ DriverSends /\ TxAccounted

\* The packet the daemon waits for is still to be sent, or it has its timestamp:
\* when a notification comes the daemon loses no packet.
Answers == callbacks + Sending + Cardinality(driver) + ptpTxNotify
WaitedFor ==
  /\ handler = "event" /\ daemon.at = "calling" =>
       \E e \in OutSet : daemon.pbuf = OutPbuf[e]
  /\ daemon.at = "waiting" =>
       Unfinished(daemon.pbuf) \/ daemon.pbuf \in stamped \/ Answers = 0

\* It also holds when packets were not sent.
AtMostOneAnswer == handler = "event" => Answers <= Waiting

Once == ~overrun => RxOnce /\ TxOnce /\ WaitedFor

\* What TxOnce depends on.
txView == <<outboxBuf, outboxHead, outbox, driver, stamped, TxLive>>

\* Steps of reception.
LEMMA SameTransmission ==
  ASSUME TxOnce, WaitedFor, UNCHANGED txView,
         UNCHANGED <<handler, callbacks, ptpTxNotify>>,
         \/ stack' = stack
         \/ stack.at # "sending" /\ stack'.at # "sending",
         \/ daemon' = daemon
         \/ /\ daemon.at \notin {"queueing", "calling", "waiting"}
            /\ daemon'.at \notin {"queueing", "calling", "waiting"}
  PROVE  TxOnce' /\ WaitedFor'
PROOF
  <1>1. OutSet' = OutSet
    BY DEF txView, OutSet, Entries
  <1>2. OutPbuf' = OutPbuf
    BY DEF txView, OutPbuf, Queued
  <1>3. Unsent' = Unsent
    BY DEF txView, Unsent
  <1>4. TxOnce'
    BY <1>1, <1>2, <1>3
    DEF txView, TxOnce, OutboxOnce, DaemonQueues, StackSends, DriverSends,
        TxAccounted, Unfinished
  <1>5. Answers' = Answers
    BY DEF txView, Answers, Sending
  <1>6. WaitedFor'
    BY <1>1, <1>2, <1>5 DEF txView, WaitedFor, Unfinished
  <1>7. QED
    BY <1>4, <1>6

\* A new packet, in an entry that the TCP/IP thread is not reading.
LEMMA QueueTx ==
  ASSUME Shape, TxOnce, ~overrun', NEW p \in TxPbuf, Queue(p)
  PROVE  TxOnce' /\ WaitedFor'
PROOF
  <1>1. /\ daemon.at = "idle" /\ daemon'.at = "queueing"
        /\ daemon' = [at |-> "queueing", pbuf |-> p, saved |-> outboxBuf[outboxHead]]
        /\ outboxBuf' = [outboxBuf EXCEPT ![outboxHead] = p]
        /\ UNCHANGED <<outboxHead, outbox, stack, driver>>
        /\ TxLive' = TxLive \union {p} /\ p \notin TxLive
        /\ stamped' = stamped \ {p}
    BY DEF Queue, TxLive, Idle
  <1>2. /\ outboxHead \in Entry /\ outbox \in Box
        /\ DOMAIN outboxBuf = Entry
    BY DEF Shape, OutType
  <1>3. OutSet' = OutSet /\ OutSet \subseteq Entry
    BY <1>1, <1>2, EntriesInRing DEF OutSet, Entries
  <1>4. OutPbuf' = OutPbuf
    <2>1. ASSUME NEW e \in Entry
          PROVE  Queued(e)' = Queued(e)
      BY <1>1, <1>2 DEF Queued
    <2>2. QED
      BY <2>1 DEF OutPbuf
  <1>5. outboxBuf'[outboxHead] = p
    BY <1>1, <1>2
  <1>6. stack.at = "sending" =>
          stack.entry # outboxHead /\ outboxBuf'[stack.entry] = outboxBuf[stack.entry]
    <2>1. stack.at = "sending" => stack.entry # outboxHead
      <3>1. stack # [at |-> "sending", entry |-> outboxHead]
        BY DEF Queue
      <3>2. QED
        BY <3>1 DEF Shape, StackType, Idle
    <2>2. stack.at = "sending" => stack.entry \in Entry
      BY Locals DEF Shape
    <2>3. QED
      BY <1>1, <1>2, <2>1, <2>2
  <1>7. p \notin driver /\ p \notin Unsent /\ Unsent' = Unsent \union {p}
    BY <1>1 DEF TxOnce, DriverSends, Unsent
  <1>8. OutboxOnce'
    BY <1>3, <1>4, <1>7 DEF TxOnce, OutboxOnce
  <1>9. DaemonQueues'
    BY <1>1, <1>3, <1>4, <1>5, <1>7 DEF TxOnce, OutboxOnce, DaemonQueues
  <1>10. StackSends'
    BY <1>1, <1>3, <1>4, <1>6, <1>7 DEF TxOnce, StackSends
  <1>11. DriverSends'
    BY <1>1 DEF TxOnce, DriverSends
  <1>12. TxAccounted'
    BY <1>1, <1>3, <1>4, <1>6 DEF TxOnce, TxAccounted, Unfinished
  <1>13. WaitedFor'
    BY <1>1 DEF WaitedFor
  <1>14. QED
    BY <1>8, <1>9, <1>10, <1>11, <1>12, <1>13 DEF TxOnce

\* The packet goes to the mailbox, or the entry gets the one it had before.
LEMMA PostQueuedTx ==
  ASSUME Shape, TxOnce, PostQueued
  PROVE  TxOnce' /\ WaitedFor'
PROOF
  <1>1. /\ daemon.at = "queueing"
        /\ UNCHANGED <<stack, driver, stamped>>
    BY DEF PostQueued, txVars
  <1>2. /\ outboxHead \in Entry /\ outbox \in Box /\ Consecutive(outbox, outboxHead)
        /\ DOMAIN outboxBuf = Entry /\ OutSet \subseteq Entry
    BY EntriesInRing DEF Shape, OutType, OutSet
  <1>3. stack.at = "sending" => stack.entry \in Entry /\ stack.entry # outboxHead
    BY <1>1, Locals DEF Shape, TxOnce, StackSends
  <1>4. CASE Len(outbox) < QueueSize
    <2>1. /\ outbox' = Append(outbox, outboxHead)
          /\ daemon' = [at |-> "calling", pbuf |-> daemon.pbuf]
          /\ UNCHANGED <<outboxBuf, live>>
      BY <1>4 DEF PostQueued
    <2>2. /\ OutSet' = OutSet \union {outboxHead}
          /\ outboxHead \notin OutSet
          /\ TxLive' = TxLive /\ Unsent' = Unsent
      BY <1>1, <1>2, <1>4, <2>1, EntriesOfAppend DEF OutSet, Entries, TxLive, Unsent
    <2>3. \A e \in Entry : OutPbuf'[e] = outboxBuf[e]
      BY <2>1 DEF OutPbuf, Queued
    <2>4. \A e \in OutSet : OutPbuf[e] = outboxBuf[e]
      BY <1>2, <2>2 DEF OutPbuf, Queued
    <2>5. daemon'.at = "calling" /\ daemon'.pbuf = daemon.pbuf
      BY <2>1
    <2>6. OutboxOnce'
      BY <1>1, <1>2, <2>2, <2>3, <2>4 DEF TxOnce, OutboxOnce, DaemonQueues
    <2>7. DaemonQueues' /\ DriverSends'
      BY <1>1, <2>2, <2>5 DEF TxOnce, DaemonQueues, DriverSends
    <2>8. StackSends'
      BY <1>1, <1>2, <1>3, <2>1, <2>2, <2>3, <2>4, <2>5
      DEF TxOnce, DaemonQueues, StackSends
    <2>9. TxAccounted'
      BY <1>1, <1>2, <2>1, <2>2, <2>3, <2>4, <2>5
      DEF TxOnce, DaemonQueues, TxAccounted, Unfinished
    <2>10. WaitedFor'
      BY <1>1, <1>2, <2>2, <2>3, <2>5 DEF TxOnce, DaemonQueues, WaitedFor
    <2>11. QED
      BY <2>6, <2>7, <2>8, <2>9, <2>10 DEF TxOnce
  <1>5. CASE ~(Len(outbox) < QueueSize)
    <2>1. /\ live' = live \ {daemon.pbuf}
          /\ outboxBuf' = [outboxBuf EXCEPT ![outboxHead] = daemon.saved]
          /\ daemon' = Idle
          /\ UNCHANGED <<outbox, outboxHead>>
      BY <1>5 DEF PostQueued, Restore, AfterFullOutbox
    <2>2. /\ OutSet' = OutSet
          /\ TxLive' = TxLive \ {daemon.pbuf}
          /\ Unsent' = Unsent \ {daemon.pbuf}
          /\ daemon'.at = "idle"
      BY <1>1, <2>1 DEF OutSet, Entries, TxLive, Unsent, Idle
    <2>3. OutPbuf' = OutPbuf
      BY <1>1, <1>2, <2>1, <2>2 DEF OutPbuf, Queued
    <2>4. stack.at = "sending" => outboxBuf'[stack.entry] = outboxBuf[stack.entry]
      BY <1>2, <1>3, <2>1
    <2>5. OutboxOnce'
      BY <1>1, <2>2, <2>3 DEF TxOnce, OutboxOnce, DaemonQueues
    <2>6. DaemonQueues' /\ DriverSends'
      BY <1>1, <2>2 DEF TxOnce, DaemonQueues, DriverSends, Unsent
    <2>7. StackSends'
      BY <1>1, <2>2, <2>3, <2>4 DEF TxOnce, DaemonQueues, StackSends
    <2>8. TxAccounted'
      BY <1>1, <2>2, <2>3, <2>4 DEF TxOnce, TxAccounted, Unfinished
    <2>9. WaitedFor'
      BY <2>2 DEF WaitedFor
    <2>10. QED
      BY <2>5, <2>6, <2>7, <2>8, <2>9 DEF TxOnce
  <1>6. QED
    BY <1>4, <1>5

\* The daemon waits, or has given up: its packet is in the outbox.
LEMMA CallTx ==
  ASSUME Waits, TxOnce, WaitedFor, Call
  PROVE  TxOnce' /\ WaitedFor'
PROOF
  <1>1. /\ daemon.at = "calling"
        /\ \/ daemon'.at = "idle"
           \/ daemon'.at = "waiting" /\ daemon'.pbuf = daemon.pbuf /\ handler = "event"
        /\ UNCHANGED <<handler, outboxBuf, outboxHead, outbox, stack, driver, stamped,
                       live>>
    BY DEF Call, AfterFailedCall, Idle, txVars
  <1>2. OutSet' = OutSet /\ OutPbuf' = OutPbuf /\ TxLive' = TxLive /\ Unsent' = Unsent
    BY <1>1 DEF OutSet, Entries, OutPbuf, Queued, TxLive, Unsent
  <1>3. TxOnce'
    BY <1>1, <1>2
    DEF TxOnce, OutboxOnce, DaemonQueues, StackSends, DriverSends, TxAccounted,
        Unfinished
  <1>4. WaitedFor'
    BY <1>1, <1>2 DEF WaitedFor, Unfinished
  <1>5. QED
    BY <1>3, <1>4

\* The packet is freed when it has its timestamp, and else still to be sent.
LEMMA ReturnTx ==
  ASSUME Shape, Waits, TxOnce, WaitedFor, Return
  PROVE  TxOnce' /\ WaitedFor'
PROOF
  <1>1. /\ daemon.at = "waiting" /\ daemon'.at = "idle"
        /\ ptpTxNotify > 0
        /\ UNCHANGED <<handler, outboxBuf, outboxHead, outbox, stack, driver, stamped>>
        /\ TxLive' = IF daemon.pbuf \in stamped THEN TxLive \ {daemon.pbuf} ELSE TxLive
    BY DEF Return, Notified, Idle, outVars, TxLive
  <1>2. OutSet' = OutSet /\ OutPbuf' = OutPbuf /\ Unsent' = Unsent
    BY <1>1 DEF OutSet, Entries, OutPbuf, Queued, Unsent
  <1>3. Answers # 0
    <2>1. /\ callbacks \in Nat /\ ptpTxNotify \in Nat /\ Cardinality(driver) \in Nat
          /\ Sending \in Nat
      BY FS_CardinalityType DEF Shape, CountType, Waits, Sending
    <2>2. QED
      BY <1>1, <2>1 DEF Answers
  <1>4. Unfinished(daemon.pbuf) \/ daemon.pbuf \in stamped
    BY <1>1, <1>3 DEF WaitedFor
  <1>5. OutboxOnce' /\ DaemonQueues' /\ StackSends' /\ DriverSends'
    BY <1>1, <1>2 DEF TxOnce, OutboxOnce, DaemonQueues, StackSends, DriverSends
  <1>6. TxAccounted'
    BY <1>1, <1>2, <1>4 DEF TxOnce, TxAccounted, Unfinished
  <1>7. WaitedFor'
    BY <1>1 DEF WaitedFor
  <1>8. QED
    BY <1>5, <1>6, <1>7 DEF TxOnce

\* The first packet leaves the outbox.  While the daemon of the event port has not
\* called no callback is left over, so its packet is still there.
LEMMA CallbackTx ==
  ASSUME Shape, EachPacketCalledFor, Waits, AtMostOneAnswer, TxOnce, WaitedFor,
         ~overrun', netSendCallback
  PROVE  TxOnce' /\ WaitedFor'
PROOF
  <1> DEFINE first == Head(outbox)
  <1>1. /\ UNCHANGED <<handler, outboxBuf, outboxHead, daemon, driver, stamped, live>>
        /\ stack.at = "idle" /\ callbacks > 0
    BY DEF netSendCallback, txVars, Idle
  <1>2. /\ callbacks \in Nat /\ ptpTxNotify \in Nat /\ Cardinality(driver) \in Nat
        /\ Sending \in Nat /\ stranded \in Nat
    BY FS_CardinalityType DEF Shape, CountType, Waits, Sending
  <1>3. Len(outbox) # 0
    BY <1>1, <1>2 DEF EachPacketCalledFor
  <1>4. outbox # <<>>
    BY <1>3, EmptySeq
  <1>5. /\ stack' = [at |-> "sending", entry |-> first]
        /\ outbox' = Tail(outbox)
        /\ ~(daemon.at = "queueing" /\ first = outboxHead)
    BY <1>4 DEF netSendCallback
  <1>6. /\ outbox \in Box /\ outboxHead \in Entry /\ Consecutive(outbox, outboxHead)
    BY DEF Shape, OutType
  <1>7. first \in OutSet /\ OutSet' = OutSet \ {first} /\ OutSet \subseteq Entry
    BY <1>4, <1>5, <1>6, EntriesOfTail, EntriesInRing DEF OutSet, Entries
  <1>8. OutPbuf' = OutPbuf /\ Unsent' = Unsent /\ TxLive' = TxLive
    BY <1>1 DEF OutPbuf, Queued, Unsent, TxLive
  <1>9. OutPbuf[first] = outboxBuf[first]
    BY <1>5, <1>7 DEF OutPbuf, Queued
  <1> HIDE DEF first
  <1>10. stack'.at = "sending" /\ stack'.entry = first
    BY <1>5
  <1>11. OutboxOnce' /\ DriverSends'
    BY <1>1, <1>7, <1>8 DEF TxOnce, OutboxOnce, DriverSends
  <1>12. DaemonQueues'
    BY <1>1, <1>7, <1>8 DEF TxOnce, DaemonQueues
  <1>13. StackSends'
    BY <1>1, <1>5, <1>7, <1>8, <1>9, <1>10
    DEF TxOnce, OutboxOnce, DaemonQueues, StackSends
  <1>14. \A p : Unfinished(p) => Unfinished(p)'
    BY <1>1, <1>7, <1>8, <1>9, <1>10 DEF Unfinished
  <1>15. TxAccounted'
    BY <1>1, <1>8, <1>14 DEF TxOnce, TxAccounted
  <1>16. Answers # 0 /\ (handler = "event" => daemon.at # "calling")
    <2>1. Answers \in Nat /\ Answers > 0
      BY <1>1, <1>2 DEF Answers
    <2>2. handler = "event" => Waiting # 0
      BY <2>1 DEF AtMostOneAnswer
    <2>3. QED
      BY <2>1, <2>2 DEF Waiting
  <1>17. WaitedFor'
    BY <1>1, <1>14, <1>16 DEF WaitedFor
  <1>18. QED
    BY <1>11, <1>12, <1>13, <1>15, <1>17 DEF TxOnce

\* A packet goes to the driver or is lost.  If the daemon waits for the one that
\* is lost, no notification comes any more.
LEMMA SendOutTx ==
  ASSUME Shape, Waits, AtMostOneAnswer, TxOnce, WaitedFor, SendOut
  PROVE  TxOnce' /\ WaitedFor'
PROOF
  <1> DEFINE p == outboxBuf[stack.entry]
  <1>1. /\ UNCHANGED <<handler, outboxBuf, outboxHead, outbox, callbacks, daemon,
                       stamped, ptpTxNotify>>
        /\ stack.at = "sending" /\ stack'.at = "idle"
    BY DEF SendOut, outVars, Idle
  <1>2. OutSet' = OutSet /\ OutPbuf' = OutPbuf
    BY <1>1 DEF OutSet, Entries, OutPbuf, Queued
  <1>3. /\ p \in Unsent
        /\ \A e \in OutSet : OutPbuf[e] # p
        /\ daemon.at = "queueing" => daemon.pbuf # p
    BY <1>1 DEF TxOnce, StackSends
  <1>4. CASE driver' = driver \union {p} /\ live' = live
    <2>1. Unsent' = Unsent \ {p} /\ TxLive' = TxLive
      BY <1>1, <1>4 DEF Unsent, TxLive
    <2> HIDE DEF p
    <2>2. OutboxOnce' /\ DaemonQueues' /\ StackSends'
      BY <1>1, <1>2, <1>3, <2>1 DEF TxOnce, OutboxOnce, DaemonQueues, StackSends
    <2>3. DriverSends'
      BY <1>1, <1>3, <1>4, <2>1 DEF TxOnce, DriverSends, Unsent
    <2>4. \A q : Unfinished(q) => Unfinished(q)'
      BY <1>1, <1>2, <1>4 DEF Unfinished, p
    <2>5. TxAccounted'
      BY <1>1, <2>1, <2>4 DEF TxOnce, TxAccounted
    <2>6. Answers # 0
      <3>1. /\ callbacks \in Nat /\ ptpTxNotify \in Nat /\ Cardinality(driver) \in Nat
        BY FS_CardinalityType DEF Shape, CountType, Waits
      <3>2. QED
        BY <1>1, <3>1 DEF Answers, Sending
    <2>7. WaitedFor'
      BY <1>1, <1>2, <2>4, <2>6 DEF WaitedFor
    <2>8. QED
      BY <2>2, <2>3, <2>5, <2>7 DEF TxOnce
  <1>5. CASE driver' = driver /\ live' = live \ Forgotten(p)
    <2>1. /\ TxLive' = TxLive \ Forgotten(p)
          /\ Unsent' = Unsent \ Forgotten(p)
      BY <1>1, <1>5 DEF Unsent, TxLive
    <2>2. Forgotten(p) = {p} \/ (Forgotten(p) = {} /\ daemon.at = "waiting"
                                                   /\ p = daemon.pbuf)
      BY DEF Forgotten
    <2>3. p \notin driver
      BY <1>3 DEF Unsent
    <2> HIDE DEF p
    <2>4. OutboxOnce' /\ DaemonQueues' /\ StackSends' /\ DriverSends'
      BY <1>1, <1>2, <1>3, <1>5, <2>1, <2>2, <2>3
      DEF TxOnce, OutboxOnce, DaemonQueues, StackSends, DriverSends
    <2>5. \A q : q # p /\ Unfinished(q) => Unfinished(q)'
      BY <1>1, <1>2, <1>5 DEF Unfinished, p
    <2>6. TxAccounted'
      BY <1>1, <2>1, <2>2, <2>5 DEF TxOnce, TxAccounted
    <2>7. daemon.at = "waiting" => Answers # 0 /\ Answers' = 0
      <3>1. /\ callbacks \in Nat /\ ptpTxNotify \in Nat /\ Cardinality(driver) \in Nat
        BY FS_CardinalityType DEF Shape, CountType, Waits
      <3>2. Answers = callbacks + 1 + Cardinality(driver) + ptpTxNotify
        BY <1>1 DEF Answers, Sending
      <3>3. Answers' = callbacks + 0 + Cardinality(driver) + ptpTxNotify
        BY <1>1, <1>5 DEF Answers, Sending
      <3>4. daemon.at = "waiting" => Answers <= 1
        BY DEF Waits, AtMostOneAnswer, Waiting
      <3>5. QED
        BY <3>1, <3>2, <3>3, <3>4
    <2>8. WaitedFor'
      BY <1>1, <1>2, <2>5, <2>7 DEF WaitedFor
    <2>9. QED
      BY <2>4, <2>6, <2>8 DEF TxOnce
  <1>6. QED
    BY <1>4, <1>5 DEF SendOut

\* The driver is done with a packet; the daemon may be waiting for it.
LEMMA TransmitTx ==
  ASSUME Shape, Waits, TxOnce, WaitedFor, NEW p \in TxPbuf, Transmit(p)
  PROVE  TxOnce' /\ WaitedFor'
PROOF
  <1>1. /\ UNCHANGED <<handler, outboxBuf, outboxHead, outbox, stack, daemon>>
        /\ p \in driver /\ driver' = driver \ {p}
        /\ TxLive' = TxLive \ Forgotten(p)
        /\ IF handler = "event" THEN stamped' = stamped \union {p}
                                ELSE stamped' = stamped
    BY DEF Transmit, outVars, TxLive
  <1>2. OutSet' = OutSet /\ OutPbuf' = OutPbuf
    BY <1>1 DEF OutSet, Entries, OutPbuf, Queued
  <1>3. Forgotten(p) = {p} \/ (/\ Forgotten(p) = {} /\ daemon.at = "waiting"
                               /\ p = daemon.pbuf /\ handler = "event")
    BY DEF Forgotten, Waits
  <1>4. Unsent' = Unsent
    BY <1>1, <1>3 DEF Unsent
  <1>5. OutboxOnce' /\ DaemonQueues' /\ StackSends' /\ DriverSends'
    BY <1>1, <1>2, <1>3, <1>4
    DEF TxOnce, OutboxOnce, DaemonQueues, StackSends, DriverSends
  <1>6. \A q : q # p /\ Unfinished(q) => Unfinished(q)'
    BY <1>1, <1>2 DEF Unfinished
  <1>7. TxAccounted'
    BY <1>1, <1>3, <1>6 DEF TxOnce, TxAccounted
  <1>8. Answers # 0
    <2>1. /\ callbacks \in Nat /\ ptpTxNotify \in Nat /\ Cardinality(driver) \in Nat
          /\ Sending \in Nat
      BY FS_CardinalityType DEF Shape, CountType, Waits, Sending
    <2>2. Cardinality(driver) > 0
      <3>1. Cardinality(driver) # 0
        BY <1>1, FS_EmptySet DEF Waits
      <3>2. QED
        BY <2>1, <3>1
    <2>3. QED
      BY <2>1, <2>2 DEF Answers
  <1>9. WaitedFor'
    BY <1>1, <1>2, <1>6, <1>8 DEF WaitedFor, Waits
  <1>10. QED
    BY <1>5, <1>7, <1>9 DEF TxOnce

\* At most one notification is on its way to a daemon that waits, and none to
\* another one, whether packets were lost or not.
THEOREM AtMostOneCorrect == Spec => []AtMostOneAnswer
PROOF
  <1>1. Init => AtMostOneAnswer
    BY FS_EmptySet DEF Init, AtMostOneAnswer, Answers, Sending, Waiting, Idle
  <1>2. Shape /\ EachPacketCalledFor /\ Waits /\ AtMostOneAnswer /\ [Next]_vars
          => AtMostOneAnswer'
    <2> SUFFICES ASSUME Shape, EachPacketCalledFor, Waits, AtMostOneAnswer, [Next]_vars
                 PROVE  AtMostOneAnswer'
      OBVIOUS
    <2>1. /\ callbacks \in Nat /\ stranded \in Nat /\ ptpTxNotify \in Nat
          /\ Cardinality(driver) \in Nat
      BY FS_CardinalityType DEF Shape, CountType, Waits
    <2>2. CASE \/ UNCHANGED vars
               \/ \E p \in RxPbuf : Overwrite(p)
               \/ PostReceived \/ Fetch \/ ReadPacket \/ netEmptyEventQ \/ EmptyNext
               \/ \E p \in TxPbuf : Queue(p)
               \/ PostQueued
      <3>1. UNCHANGED <<handler, callbacks, driver, ptpTxNotify>>
        BY <2>2
        DEF vars, outVars, txVars, history, Overwrite, PostReceived, Fetch, ReadPacket,
            netEmptyEventQ, EmptyNext, Queue, PostQueued
      <3>2. Sending' = Sending
        BY <2>2
        DEF vars, Overwrite, PostReceived, Fetch, ReadPacket, netEmptyEventQ, EmptyNext,
            Queue, PostQueued, Idle, Sending
      <3>3. Waiting' = Waiting
        BY <2>2
        DEF vars, Overwrite, PostReceived, Fetch, ReadPacket, netEmptyEventQ, EmptyNext,
            Queue, PostQueued, AfterFullOutbox, Idle, Waiting
      <3>4. QED
        BY <3>1, <3>2, <3>3 DEF AtMostOneAnswer, Answers
    <2>3. CASE Call
      <3>1. /\ UNCHANGED <<handler, driver, ptpTxNotify, stack>>
            /\ daemon.at = "calling"
            /\ \/ callbacks' = callbacks + 1
                  /\ daemon' = IF handler = "event"
                                 THEN [at |-> "waiting", pbuf |-> daemon.pbuf] ELSE Idle
               \/ callbacks' = callbacks /\ daemon' = Idle
        BY <2>3 DEF Call, AfterFailedCall, txVars
      <3>2. QED
        BY <2>1, <3>1 DEF AtMostOneAnswer, Answers, Sending, Waiting, Idle
    <2>4. CASE Return
      <3>1. /\ UNCHANGED <<handler, driver, callbacks, stack>>
            /\ daemon.at = "waiting" /\ daemon' = Idle
            /\ ptpTxNotify > 0 /\ ptpTxNotify' = ptpTxNotify - 1
        BY <2>1, <2>4 DEF Return, Notified, outVars
      <3>2. QED
        BY <2>1, <3>1 DEF AtMostOneAnswer, Answers, Sending, Waiting, Idle
    <2>5. CASE netSendCallback
      <3>1. /\ UNCHANGED <<handler, daemon, driver, ptpTxNotify>>
            /\ stack = Idle
            /\ callbacks > 0 /\ callbacks' = callbacks - 1
        BY <2>5 DEF netSendCallback, txVars
      <3>2. Sending = 0 /\ Sending' \in {0, 1} /\ Waiting' = Waiting
        BY <3>1 DEF Sending, Waiting, Idle
      <3>3. QED
        BY <2>1, <3>1, <3>2 DEF AtMostOneAnswer, Answers, Waiting
    <2>6. CASE SendOut
      <3>1. /\ UNCHANGED <<handler, daemon, callbacks, ptpTxNotify>>
            /\ Sending = 1 /\ Sending' = 0 /\ Waiting' = Waiting
            /\ \/ driver' = driver \union {outboxBuf[stack.entry]}
               \/ driver' = driver
        BY <2>6 DEF SendOut, outVars, Sending, Waiting, Idle
      <3>2. /\ Cardinality(driver') \in Nat
            /\ Cardinality(driver') <= Cardinality(driver) + 1
        <4>1. IsFiniteSet(driver)
          BY DEF Waits
        <4>2. CASE driver' = driver
          BY <2>1, <4>2
        <4>3. CASE driver' = driver \union {outboxBuf[stack.entry]}
          BY <2>1, <4>1, <4>3, FS_AddElement
        <4>4. QED
          BY <3>1, <4>2, <4>3
      <3>3. QED
        BY <2>1, <3>1, <3>2 DEF AtMostOneAnswer, Answers, Waiting
    <2>7. ASSUME NEW p \in TxPbuf, Transmit(p)
          PROVE  AtMostOneAnswer'
      <3>1. /\ UNCHANGED <<handler, daemon, stack, callbacks>>
            /\ driver' = driver \ {p} /\ p \in driver
            /\ handler = "event" => ptpTxNotify' = ptpTxNotify + 1
        BY <2>7 DEF Transmit, outVars
      <3>2. Cardinality(driver') = Cardinality(driver) - 1
        BY <3>1, FS_RemoveElement DEF Waits
      <3>3. QED
        BY <2>1, <3>1, <3>2 DEF AtMostOneAnswer, Answers, Sending, Waiting
    <2>8. QED
      BY <2>2, <2>3, <2>4, <2>5, <2>6, <2>7 DEF Next
  <1>3. QED
    BY <1>1, <1>2, ShapeCorrect, CalledForCorrect, WaitsCorrect, PTL DEF Spec

\* Every step keeps every packet in one place.
LEMMA OnceStep ==
  ASSUME Shape, EachPacketCalledFor, Waits, AtMostOneAnswer, Once, [Next]_vars
  PROVE  Once'
PROOF
  <1> SUFFICES ASSUME ~overrun'
               PROVE  RxOnce' /\ TxOnce' /\ WaitedFor'
    BY DEF Once
  <1>1. ~overrun
    BY DEF Next, vars, history, Overwrite, PostReceived, Fetch, ReadPacket, netEmptyEventQ,
           EmptyNext, Queue, Transmit, PostQueued, Call, Return, netSendCallback,
           SendOut
  <1>2. RxOnce /\ TxOnce /\ WaitedFor
    BY <1>1 DEF Once
  <1>3. CASE UNCHANGED vars
    <2>1. UNCHANGED rxView /\ UNCHANGED txView
          /\ UNCHANGED <<handler, callbacks, ptpTxNotify, stack, daemon>>
      BY <1>3 DEF vars, inVars, outVars, txVars, rxView, txView, RxLive, TxLive
    <2>2. QED
      BY <1>2, <2>1, SameReception, SameTransmission
  <1>4. CASE \/ \E p \in RxPbuf : Overwrite(p)
             \/ PostReceived \/ Fetch \/ ReadPacket \/ netEmptyEventQ \/ EmptyNext
    <2>1. /\ UNCHANGED <<handler, outboxBuf, outboxHead, outbox, callbacks, driver,
                         stamped, ptpTxNotify>>
          /\ \/ stack' = stack
             \/ stack.at # "sending" /\ stack'.at # "sending"
          /\ \/ daemon' = daemon
             \/ /\ daemon.at \notin {"queueing", "calling", "waiting"}
                /\ daemon'.at \notin {"queueing", "calling", "waiting"}
      BY <1>4
      DEF Overwrite, PostReceived, Fetch, ReadPacket, netEmptyEventQ, EmptyNext, Idle,
          outVars, txVars
    <2>2. TxLive' = TxLive
      <3>1. \A p \in RxPbuf : p \notin TxPbuf
        BY PbufAssumption
      <3>2. CASE (\E p \in RxPbuf : Overwrite(p)) \/ Fetch \/ netEmptyEventQ
        BY <3>1, <3>2 DEF Overwrite, Fetch, netEmptyEventQ, TxLive
      <3>3. CASE PostReceived
        <4>1. stack.at = "received" /\ live \ {inboxBuf[inboxHead]} \subseteq live'
              /\ live' \subseteq live
          BY <3>3 DEF PostReceived
        <4>2. inboxBuf[inboxHead] \in RxPbuf
          BY <1>2, <4>1 DEF RxOnce, StackReceives, RxLive
        <4>3. QED
          BY <3>1, <4>1, <4>2 DEF TxLive
      <3>4. CASE ReadPacket
        <4>1. daemon.at = "fetched" /\ live' = live \ {inboxBuf[daemon.entry]}
          BY <3>4 DEF ReadPacket
        <4>2. inboxBuf[daemon.entry] \in RxPbuf
          BY <1>2, <4>1 DEF RxOnce, DaemonFetches, RxLive
        <4>3. QED
          BY <3>1, <4>1, <4>2 DEF TxLive
      <3>5. CASE EmptyNext
        <4>1. CASE inbox = <<>>
          BY <3>5, <4>1 DEF EmptyNext, TxLive
        <4>2. CASE inbox # <<>>
          <5>1. /\ live' = live \ {inboxBuf[Head(inbox)]}
                /\ ~Overwritten(Head(inbox))
            BY <3>5, <4>2 DEF EmptyNext, Overwritten
          <5>2. Head(inbox) \in InSet /\ Head(inbox) \in Entry
            BY <4>2, EntriesOfTail, TailBox DEF Shape, InType, InSet
          <5>3. inboxBuf[Head(inbox)] \in RxPbuf
            BY <1>2, <5>1, <5>2 DEF RxOnce, InboxOnce, InPbuf, Received, RxLive
          <5>4. QED
            BY <3>1, <5>1, <5>3 DEF TxLive
        <4>3. QED
          BY <4>1, <4>2
      <3>6. QED
        BY <1>4, <3>2, <3>3, <3>4, <3>5
    <2>3. TxOnce' /\ WaitedFor'
      BY <1>2, <2>1, <2>2, SameTransmission DEF txView
    <2>4. RxOnce'
      <3>1. CASE netEmptyEventQ \/ (EmptyNext /\ inbox = <<>>)
        <4>1. /\ UNCHANGED rxView /\ stack' = stack
              /\ daemon.at # "fetched" /\ daemon'.at # "fetched"
          BY <3>1 DEF netEmptyEventQ, EmptyNext, inVars, rxView, RxLive, Idle
        <4>2. QED
          BY <1>2, <4>1, SameReception
      <3>2. CASE inbox # <<>> /\ (Fetch \/ EmptyNext)
        BY <1>2, <3>2, FetchRx
      <3>3. Fetch => inbox # <<>>
        BY DEF Fetch
      <3>4. QED
        BY <1>2, <1>4, <3>1, <3>2, <3>3, OverwriteRx, PostReceivedRx, ReadRx
    <2>5. QED
      BY <2>3, <2>4
  <1>5. CASE \/ \E p \in TxPbuf : Queue(p) \/ Transmit(p)
             \/ PostQueued \/ Call \/ Return
             \/ netSendCallback \/ SendOut
    <2>1. TxOnce' /\ WaitedFor'
      BY <1>2, <1>5, QueueTx, TransmitTx, PostQueuedTx, CallTx, ReturnTx, CallbackTx,
         SendOutTx
    <2>2. /\ UNCHANGED <<inboxBuf, inboxHead, inbox>>
          /\ \/ stack' = stack
             \/ stack.at # "received" /\ stack'.at # "received"
          /\ \/ daemon' = daemon
             \/ daemon.at # "fetched" /\ daemon'.at # "fetched"
      BY <1>5
      DEF Queue, Transmit, PostQueued, Call, Return, netSendCallback, SendOut, inVars,
          Idle, AfterFullOutbox, AfterFailedCall
    <2>3. RxLive' = RxLive
      <3>1. \A p \in TxPbuf : p \notin RxPbuf
        BY PbufAssumption
      <3>2. CASE \E p \in TxPbuf : Queue(p) \/ Transmit(p)
        BY <3>1, <3>2 DEF Queue, Transmit, Forgotten, RxLive
      <3>3. CASE PostQueued \/ Call \/ Return \/ netSendCallback
        <4>1. daemon.at \in {"queueing", "waiting"} => daemon.pbuf \in TxPbuf
          BY Locals DEF Shape
        <4>2. QED
          BY <3>1, <3>3, <4>1 DEF PostQueued, Call, Return, netSendCallback, RxLive
      <3>4. CASE SendOut
        <4>1. outboxBuf[stack.entry] \in TxPbuf
          BY <1>2, <3>4 DEF SendOut, TxOnce, StackSends, Unsent, TxLive
        <4>2. live' = live \/ live' = live \ Forgotten(outboxBuf[stack.entry])
          BY <3>4 DEF SendOut
        <4>3. QED
          BY <3>1, <4>1, <4>2 DEF Forgotten, RxLive
      <3>5. QED
        BY <1>5, <3>2, <3>3, <3>4
    <2>4. RxOnce'
      BY <1>2, <2>2, <2>3, SameReception DEF rxView
    <2>5. QED
      BY <2>1, <2>4
  <1>6. QED
    BY <1>3, <1>4, <1>5 DEF Next

\* The parts of EachPacketOnce, and that the packet the daemon waits for is still
\* to be sent or has its timestamp, hold until an entry is overwritten while it
\* is read: the invariant behind PacketsCorrect.
THEOREM OnceCorrect == Spec => []Once
PROOF
  <1>1. Init => Once
    <2> SUFFICES ASSUME Init
                 PROVE  RxOnce /\ TxOnce /\ WaitedFor
      BY DEF Once
    <2>1. Len(<<>>) = 0
      BY EmptySeq
    <2>2. InSet = {} /\ OutSet = {} /\ RxLive = {} /\ TxLive = {} /\ driver = {}
      BY <2>1 DEF Init, InSet, OutSet, Entries, RxLive, TxLive
    <2>3. stack.at = "idle" /\ daemon.at = "idle"
      BY DEF Init, Idle
    <2>4. QED
      BY <2>2, <2>3
      DEF RxOnce, InboxOnce, StackReceives, DaemonFetches, RxAccounted, TxOnce,
          OutboxOnce, DaemonQueues, StackSends, DriverSends, TxAccounted, WaitedFor
  <1>2. QED
    BY <1>1, OnceStep, ShapeCorrect, CalledForCorrect, WaitsCorrect, AtMostOneCorrect,
       PTL DEF Spec

(***************************************************************************)
(* The sequence of all pbufs held is made of those parts.                  *)
(***************************************************************************)

\* Two sequences without repetitions, of different elements.
LEMMA ConcatOnce ==
  ASSUME NEW S, NEW s \in Seq(S), NEW t \in Seq(S), IsInjective(s), IsInjective(t),
         Range(s) \intersect Range(t) = {}
  PROVE  /\ s \o t \in Seq(S)
         /\ IsInjective(s \o t)
         /\ Range(s \o t) = Range(s) \union Range(t)
PROOF
  <1>1. /\ s \o t \in Seq(S)
        /\ Len(s \o t) = Len(s) + Len(t)
        /\ \A i \in 1..(Len(s) + Len(t)) :
             (s \o t)[i] = IF i <= Len(s) THEN s[i] ELSE t[i - Len(s)]
    BY ConcatProperties
  <1>2. /\ Len(s) \in Nat /\ Len(t) \in Nat
        /\ DOMAIN s = 1..Len(s) /\ DOMAIN t = 1..Len(t)
        /\ DOMAIN (s \o t) = 1..(Len(s) + Len(t))
    BY <1>1, LenProperties
  <1>3. \A i \in 1..(Len(s) + Len(t)) :
          \/ i \in 1..Len(s) /\ (s \o t)[i] = s[i]
          \/ i - Len(s) \in 1..Len(t) /\ (s \o t)[i] = t[i - Len(s)]
    BY <1>1, <1>2
  <1>4. /\ \A i \in 1..Len(s) : s[i] \in Range(s)
        /\ \A i \in 1..Len(t) : t[i] \in Range(t)
    BY <1>2 DEF Range
  <1>5. IsInjective(s \o t)
    <2> SUFFICES ASSUME NEW i \in 1..(Len(s) + Len(t)), NEW j \in 1..(Len(s) + Len(t)),
                        (s \o t)[i] = (s \o t)[j]
                 PROVE  i = j
      BY <1>2 DEF IsInjective
    <2>1. CASE i \in 1..Len(s) /\ j \in 1..Len(s)
      BY <1>1, <1>2, <2>1 DEF IsInjective
    <2>2. CASE i - Len(s) \in 1..Len(t) /\ j - Len(s) \in 1..Len(t)
      <3>1. t[i - Len(s)] = t[j - Len(s)]
        BY <1>1, <1>2, <2>2
      <3>2. i - Len(s) = j - Len(s)
        BY <1>2, <2>2, <3>1 DEF IsInjective
      <3>3. QED
        BY <1>2, <3>2
    <2>3. QED
      BY <1>3, <1>4, <2>1, <2>2
  <1>6. Range(s \o t) = Range(s) \union Range(t)
    <2>1. \A i \in 1..Len(s) : i \in 1..(Len(s) + Len(t)) /\ (s \o t)[i] = s[i]
      BY <1>1, <1>2
    <2>2. \A i \in 1..Len(t) : Len(s) + i \in 1..(Len(s) + Len(t))
                               /\ (s \o t)[Len(s) + i] = t[i]
      BY <1>1, <1>2
    <2>3. Range(s \o t) \subseteq Range(s) \union Range(t)
      BY <1>2, <1>3, <1>4 DEF Range
    <2>4. \A i \in 1..Len(s) : s[i] \in Range(s \o t)
      BY <1>2, <2>1 DEF Range
    <2>5. \A i \in 1..Len(t) : t[i] \in Range(s \o t)
      BY <1>2, <2>2 DEF Range
    <2>6. Range(s) \subseteq Range(s \o t) /\ Range(t) \subseteq Range(s \o t)
      BY <1>2, <2>4, <2>5 DEF Range
    <2>7. QED
      BY <2>3, <2>6
  <1>7. QED
    BY <1>1, <1>5, <1>6

\* Four of them.
LEMMA FourOnce ==
  ASSUME NEW S, NEW a \in Seq(S), NEW b \in Seq(S), NEW c \in Seq(S), NEW d \in Seq(S),
         IsInjective(a), IsInjective(b), IsInjective(c), IsInjective(d),
         Range(a) \intersect Range(b) = {},
         (Range(a) \union Range(b)) \intersect Range(c) = {},
         ((Range(a) \union Range(b)) \union Range(c)) \intersect Range(d) = {}
  PROVE  /\ IsInjective(((a \o b) \o c) \o d)
         /\ Range(((a \o b) \o c) \o d)
              = ((Range(a) \union Range(b)) \union Range(c)) \union Range(d)
PROOF
  <1> DEFINE ab == a \o b
             abc == ab \o c
  <1>1. /\ ab \in Seq(S) /\ IsInjective(ab)
        /\ Range(ab) = Range(a) \union Range(b)
    BY ConcatOnce
  <1>2. Range(ab) \intersect Range(c) = {}
    BY <1>1
  <1>3. /\ abc \in Seq(S) /\ IsInjective(abc)
        /\ Range(abc) = (Range(a) \union Range(b)) \union Range(c)
    <2> HIDE DEF ab
    <2>1. /\ abc \in Seq(S) /\ IsInjective(abc)
          /\ Range(abc) = Range(ab) \union Range(c)
      BY <1>1, <1>2, ConcatOnce
    <2>2. QED
      BY <1>1, <2>1
  <1>4. Range(abc) \intersect Range(d) = {}
    BY <1>3
  <1>5. /\ IsInjective(abc \o d)
        /\ Range(abc \o d) = Range(abc) \union Range(d)
    <2> HIDE DEF abc
    <2>1. QED
      BY <1>3, <1>4, ConcatOnce
  <1>6. QED
    BY <1>3, <1>5

\* The packets of a mailbox, one for each of its entries.
LEMMA MailboxOnce ==
  ASSUME NEW box \in Box, NEW head \in Entry, Consecutive(box, head),
         NEW f \in [Entry -> Pbuf \union {NoPbuf}],
         \A d, e \in Entries(box) : f[d] = f[e] => d = e
  PROVE  LET s == [i \in 1..Len(box) |-> f[box[i]]]
         IN  /\ s \in Seq(Pbuf \union {NoPbuf})
             /\ IsInjective(s)
             /\ Range(s) = {f[e] : e \in Entries(box)}
PROOF
  <1> DEFINE s == [i \in 1..Len(box) |-> f[box[i]]]
  <1>1. Len(box) \in Nat /\ \A i \in 1..Len(box) : box[i] \in Entry
    BY BoxEntries, QueueSizeAssumption
  <1>2. s \in Seq(Pbuf \union {NoPbuf})
    BY <1>1, SeqDef
  <1>3. \A i \in 1..Len(box) : box[i] \in Entries(box)
    BY DEF Entries
  <1>4. IsInjective(s)
    <2> SUFFICES ASSUME NEW i \in 1..Len(box), NEW j \in 1..Len(box), s[i] = s[j]
                 PROVE  i = j
      BY DEF IsInjective
    <2>1. box[i] = box[j]
      BY <1>3
    <2>2. QED
      BY <2>1, Distinct
  <1>5. Range(s) = {f[e] : e \in Entries(box)}
    BY DEF Range, Entries
  <1>6. QED
    BY <1>2, <1>4, <1>5

\* One packet, or none.
LEMMA FewOnce ==
  ASSUME NEW S
  PROVE  /\ <<>> \in Seq(S) /\ IsInjective(<<>>) /\ Range(<<>>) = {}
         /\ \A p \in S : <<p>> \in Seq(S) /\ IsInjective(<<p>>) /\ Range(<<p>>) = {p}
PROOF
  BY DEF IsInjective, Range

\* Every packet is in one place, unless an entry was overwritten while the other
\* thread was fetching it: it is neither delivered nor sent twice, not used after
\* it was freed, and not lost.
THEOREM PacketsCorrect == Spec => []EachPacketOnce
PROOF
  <1>1. Shape /\ Once => EachPacketOnce
    <2> SUFFICES ASSUME Shape, RxOnce, TxOnce
                 PROVE  /\ IsInjective(Held)
                        /\ Range(Held) \subseteq live \ driver
                        /\ live \intersect RxPbuf \subseteq Range(Held)
                        /\ live \intersect TxPbuf \subseteq
                             Range(Held) \union driver
                               \union (IF daemon.at = "waiting" THEN {daemon.pbuf} ELSE {})
      BY DEF Once, EachPacketOnce
    <2> DEFINE P == Pbuf \union {NoPbuf}
               a == [i \in 1..Len(inbox) |-> Received(inbox[i])]
               b == [i \in 1..Len(outbox) |-> Queued(outbox[i])]
               c == CASE stack.at = "received" -> <<inboxBuf[inboxHead]>>
                      [] stack.at = "sending" -> <<outboxBuf[stack.entry]>>
                      [] OTHER -> <<>>
               d == CASE daemon.at = "fetched" -> <<inboxBuf[daemon.entry]>>
                      [] daemon.at = "queueing" -> <<daemon.pbuf>>
                      [] OTHER -> <<>>
    <2>1. /\ inbox \in Box /\ Consecutive(inbox, inboxHead) /\ inboxHead \in Entry
          /\ outbox \in Box /\ Consecutive(outbox, outboxHead) /\ outboxHead \in Entry
          /\ inboxBuf \in [Entry -> P] /\ outboxBuf \in [Entry -> P]
      BY DEF Shape, InType, OutType
    <2>2. InSet \subseteq Entry /\ OutSet \subseteq Entry
      BY <2>1, EntriesInRing DEF InSet, OutSet
    <2>3. InPbuf \in [Entry -> P]
      <3>1. stack.at = "received" => stack.saved \in P
        BY Locals DEF Shape
      <3>2. QED
        BY <2>1, <3>1 DEF InPbuf, Received, Overwritten
    <2>4. OutPbuf \in [Entry -> P]
      <3>1. daemon.at = "queueing" => daemon.saved \in P
        BY Locals DEF Shape
      <3>2. QED
        BY <2>1, <3>1 DEF OutPbuf, Queued
    <2>5. a \in Seq(P) /\ IsInjective(a) /\ Range(a) = {InPbuf[e] : e \in InSet}
      <3>1. a = [i \in 1..Len(inbox) |-> InPbuf[inbox[i]]]
        BY <2>1, BoxEntries DEF InPbuf
      <3>2. \A e, f \in Entries(inbox) : InPbuf[e] = InPbuf[f] => e = f
        BY DEF RxOnce, InboxOnce, InSet
      <3> HIDE DEF a
      <3>3. QED
        BY <2>1, <2>3, <3>1, <3>2, MailboxOnce DEF InSet
    <2>6. b \in Seq(P) /\ IsInjective(b) /\ Range(b) = {OutPbuf[e] : e \in OutSet}
      <3>1. b = [i \in 1..Len(outbox) |-> OutPbuf[outbox[i]]]
        BY <2>1, BoxEntries DEF OutPbuf
      <3>2. \A e, f \in Entries(outbox) : OutPbuf[e] = OutPbuf[f] => e = f
        BY DEF TxOnce, OutboxOnce, OutSet
      <3> HIDE DEF b
      <3>3. QED
        BY <2>1, <2>4, <3>1, <3>2, MailboxOnce DEF OutSet
    <2>7. /\ c \in Seq(P) /\ IsInjective(c)
          /\ Range(c) = {p \in P : \/ stack.at = "received" /\ p = inboxBuf[inboxHead]
                                   \/ stack.at = "sending" /\ p = outboxBuf[stack.entry]}
      <3>1. /\ stack.at = "received" => inboxBuf[inboxHead] \in P
            /\ stack.at = "sending" => outboxBuf[stack.entry] \in P
        BY DEF RxOnce, StackReceives, TxOnce, StackSends, RxLive, TxLive, Unsent, Pbuf
      <3>2. CASE stack.at = "received"
        <4>1. c = <<inboxBuf[inboxHead]>>
          BY <3>2
        <4> HIDE DEF c, P
        <4>2. QED
          BY <3>1, <3>2, <4>1, FewOnce
      <3>3. CASE stack.at = "sending"
        <4>1. c = <<outboxBuf[stack.entry]>>
          BY <3>3
        <4> HIDE DEF c, P
        <4>2. QED
          BY <3>1, <3>3, <4>1, FewOnce
      <3>4. CASE stack.at \notin {"received", "sending"}
        <4>1. c = <<>>
          BY <3>4
        <4> HIDE DEF c, P
        <4>2. QED
          BY <3>4, <4>1, FewOnce
      <3>5. QED
        BY <3>2, <3>3, <3>4
    <2>8. /\ d \in Seq(P) /\ IsInjective(d)
          /\ Range(d) = {p \in P : \/ daemon.at = "fetched" /\ p = inboxBuf[daemon.entry]
                                   \/ daemon.at = "queueing" /\ p = daemon.pbuf}
      <3>1. /\ daemon.at = "fetched" => inboxBuf[daemon.entry] \in P
            /\ daemon.at = "queueing" => daemon.pbuf \in P
        BY DEF RxOnce, DaemonFetches, TxOnce, DaemonQueues, RxLive, TxLive, Unsent, Pbuf
      <3>2. CASE daemon.at = "fetched"
        <4>1. d = <<inboxBuf[daemon.entry]>>
          BY <3>2
        <4> HIDE DEF d, P
        <4>2. QED
          BY <3>1, <3>2, <4>1, FewOnce
      <3>3. CASE daemon.at = "queueing"
        <4>1. d = <<daemon.pbuf>>
          BY <3>3
        <4> HIDE DEF d, P
        <4>2. QED
          BY <3>1, <3>3, <4>1, FewOnce
      <3>4. CASE daemon.at \notin {"fetched", "queueing"}
        <4>1. d = <<>>
          BY <3>4
        <4> HIDE DEF d, P
        <4>2. QED
          BY <3>4, <4>1, FewOnce
      <3>5. QED
        BY <3>2, <3>3, <3>4
    <2>9. Held = ((a \o b) \o c) \o d
      BY DEF Held
    <2> HIDE DEF a, b, c, d, P
    <2>10. /\ Range(a) \subseteq RxLive
           /\ Range(b) \subseteq Unsent
           /\ Range(c) \subseteq RxLive \union Unsent
           /\ Range(d) \subseteq RxLive \union Unsent
      BY <2>5, <2>6, <2>7, <2>8
      DEF RxOnce, InboxOnce, StackReceives, DaemonFetches, TxOnce, OutboxOnce,
          DaemonQueues, StackSends
    <2>11. RxLive \intersect Unsent = {} /\ RxLive \intersect TxLive = {}
      BY PbufAssumption DEF RxLive, TxLive, Unsent
    <2>12. /\ Range(a) \intersect Range(b) = {}
           /\ (Range(a) \union Range(b)) \intersect Range(c) = {}
           /\ ((Range(a) \union Range(b)) \union Range(c)) \intersect Range(d) = {}
      <3>1. /\ Range(a) \intersect Range(c) = {}
            /\ Range(a) \intersect Range(d) = {}
        BY <2>5, <2>7, <2>8, <2>10, <2>11
        DEF RxOnce, StackReceives, DaemonFetches, TxOnce, DaemonQueues, StackSends
      <3>2. /\ Range(b) \intersect Range(c) = {}
            /\ Range(b) \intersect Range(d) = {}
        BY <2>6, <2>7, <2>8, <2>10, <2>11
        DEF RxOnce, StackReceives, DaemonFetches, TxOnce, DaemonQueues, StackSends
      <3>3. Range(c) \intersect Range(d) = {}
        BY <2>7, <2>8, <2>11
        DEF RxOnce, StackReceives, DaemonFetches, TxOnce, DaemonQueues, StackSends
      <3>4. QED
        BY <2>10, <2>11, <3>1, <3>2, <3>3
    <2>13. /\ IsInjective(Held)
           /\ Range(Held) = ((Range(a) \union Range(b)) \union Range(c)) \union Range(d)
      <3>1. a \in Seq(P) /\ b \in Seq(P) /\ c \in Seq(P) /\ d \in Seq(P)
        BY <2>5, <2>6, <2>7, <2>8
      <3>2. IsInjective(a) /\ IsInjective(b) /\ IsInjective(c) /\ IsInjective(d)
        BY <2>5, <2>6, <2>7, <2>8
      <3>3. /\ IsInjective(((a \o b) \o c) \o d)
            /\ Range(((a \o b) \o c) \o d)
                 = ((Range(a) \union Range(b)) \union Range(c)) \union Range(d)
        BY <2>12, <3>1, <3>2, FourOnce
      <3>4. QED
        BY <2>9, <3>3
    <2>14. Range(Held) \subseteq live \ driver
      BY <2>10, <2>11, <2>13 DEF TxOnce, DriverSends, RxLive, TxLive, Unsent
    <2>15. RxLive \subseteq Range(Held)
      <3>1. ASSUME NEW p \in RxLive
            PROVE  p \in Range(a) \union Range(c) \union Range(d)
        <4>1. p \in P
          BY DEF RxLive, P, Pbuf
        <4>2. QED
          BY <2>5, <2>7, <2>8, <4>1 DEF RxOnce, RxAccounted
      <3>2. QED
        BY <2>13, <3>1
    <2>16. ASSUME NEW p \in TxLive
           PROVE  \/ p \in Range(Held) \/ p \in driver
                  \/ daemon.at = "waiting" /\ p = daemon.pbuf
      <3>1. p \in P
        BY DEF TxLive, P, Pbuf
      <3>2. Unfinished(p) \/ (daemon.at = "waiting" /\ p = daemon.pbuf)
        BY DEF TxOnce, TxAccounted
      <3>3. Unfinished(p) => p \in driver \/ p \in Range(b) \union Range(c) \union Range(d)
        BY <2>6, <2>7, <2>8, <3>1 DEF Unfinished
      <3>4. QED
        BY <2>13, <3>2, <3>3
    <2>17. QED
      BY <2>13, <2>14, <2>15, <2>16 DEF RxLive, TxLive
  <1>2. QED
    BY <1>1, ShapeCorrect, OnceCorrect, PTL
=============================================================================
