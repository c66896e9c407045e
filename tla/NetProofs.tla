------------------------------ MODULE NetProofs ------------------------------
(***************************************************************************)
(* Safety of Net for every queue size and all sets of pbufs.               *)
(***************************************************************************)
EXTENDS Net, SequenceTheorems, FiniteSetTheorems, TLAPS

(***************************************************************************)
(* Mailboxes.                                                              *)
(***************************************************************************)

\* A mailbox is a sequence of at most QueueSize entries.
LEMMA BoxIsASeq ==
  ASSUME NEW box \in Box
  PROVE  box \in Seq(Entry) /\ Len(box) \in 0..QueueSize
PROOF
  <1>1. PICK n \in 0..QueueSize : box \in [1..n -> Entry]
    BY DEF Box
  <1>2. n \in Nat
    BY <1>1, QueueSizeAssumption
  <1>3. box \in Seq(Entry)
    BY <1>1, <1>2, SeqDef
  <1>4. Len(box) = n
    BY <1>1, <1>2, <1>3, LenProperties
  <1>5. QED
    BY <1>1, <1>3, <1>4

LEMMA SeqIsABox ==
  ASSUME NEW s \in Seq(Entry), Len(s) <= QueueSize
  PROVE  s \in Box
PROOF
  <1>1. Len(s) \in Nat /\ s \in [1..Len(s) -> Entry]
    BY LenProperties
  <1>2. Len(s) \in 0..QueueSize
    BY <1>1, QueueSizeAssumption
  <1>3. QED
    BY <1>1, <1>2 DEF Box

\* Posting and fetching.
LEMMA AppendBox ==
  ASSUME NEW box \in Box, NEW e \in Entry, Len(box) < QueueSize
  PROVE  /\ Append(box, e) \in Box
         /\ Len(Append(box, e)) = Len(box) + 1
         /\ \A i \in 1..Len(box) : Append(box, e)[i] = box[i]
         /\ Append(box, e)[Len(box) + 1] = e
PROOF
  <1>1. box \in Seq(Entry) /\ Len(box) \in 0..QueueSize
    BY BoxIsASeq
  <1>2. /\ Append(box, e) \in Seq(Entry)
        /\ Len(Append(box, e)) = Len(box) + 1
        /\ \A i \in 1..Len(box) : Append(box, e)[i] = box[i]
        /\ Append(box, e)[Len(box) + 1] = e
    BY <1>1, AppendProperties
  <1>3. Len(Append(box, e)) <= QueueSize
    BY <1>1, <1>2, QueueSizeAssumption
  <1>4. QED
    BY <1>2, <1>3, SeqIsABox

LEMMA TailBox ==
  ASSUME NEW box \in Box, box # <<>>
  PROVE  /\ Head(box) \in Entry
         /\ Tail(box) \in Box
         /\ Len(box) \in 1..QueueSize
         /\ Len(Tail(box)) = Len(box) - 1
         /\ \A i \in 1..(Len(box) - 1) : Tail(box)[i] = box[i + 1]
PROOF
  <1>1. box \in Seq(Entry) /\ Len(box) \in 0..QueueSize
    BY BoxIsASeq
  <1>2. /\ Head(box) \in Entry
        /\ Tail(box) \in Seq(Entry)
        /\ Len(Tail(box)) = Len(box) - 1
        /\ \A i \in 1..Len(Tail(box)) : Tail(box)[i] = box[i + 1]
    BY <1>1, HeadTailProperties
  <1>3. Len(box) # 0
    BY <1>1, EmptySeq
  <1>4. Len(box) \in 1..QueueSize
    BY <1>1, <1>3, QueueSizeAssumption
  <1>5. Len(Tail(box)) <= QueueSize
    BY <1>2, <1>4, QueueSizeAssumption
  <1>6. Tail(box) \in Box
    BY <1>2, <1>5, SeqIsABox
  <1>7. QED
    BY <1>2, <1>4, <1>6

LEMMA AdvanceInRing ==
  ASSUME NEW head \in Entry
  PROVE  Advance(head) \in Entry
PROOF
  BY QueueSizeAssumption DEF Advance, Entry

(***************************************************************************)
(* The shape of the rings.                                                 *)
(***************************************************************************)

\* One wrap of the ring.
LEMMA Wrapped ==
  ASSUME NEW x \in 0..(2 * QueueSize - 1)
  PROVE  x % QueueSize = IF x < QueueSize THEN x ELSE x - QueueSize
PROOF
  <1>1. QueueSize \in Nat /\ QueueSize > 0 /\ x \in Nat
    BY QueueSizeAssumption
  <1>2. PICK q \in Int : x = QueueSize * q + (x % QueueSize)
    <2>1. x = QueueSize * (x \div QueueSize) + (x % QueueSize)
      BY <1>1
    <2>2. x \div QueueSize \in Int
      BY <1>1
    <2>3. QED
      BY <2>1, <2>2
  <1>3. x % QueueSize \in 0..(QueueSize - 1)
    BY <1>1
  <1>4. QED
    BY <1>1, <1>2, <1>3

\* A mailbox that is Consecutive stays so when the entry at the head is posted,
\* and when its first entry is fetched.
LEMMA Posted ==
  ASSUME NEW box \in Box, NEW head \in Entry, Len(box) < QueueSize,
         Consecutive(box, head)
  PROVE  Consecutive(Append(box, head), Advance(head))
PROOF
  <1> DEFINE new == Append(box, head)
  <1>1. Len(box) \in 0..QueueSize
    BY BoxIsASeq
  <1>2. /\ Len(new) = Len(box) + 1
        /\ \A i \in 1..Len(box) : new[i] = box[i]
        /\ new[Len(box) + 1] = head
    BY AppendBox
  <1>3. Advance(head) = IF head + 1 = QueueSize THEN 0 ELSE head + 1
    BY DEF Advance
  <1>4. /\ QueueSize \in Nat \ {0}
        /\ head \in 0..(QueueSize - 1)
    BY QueueSizeAssumption DEF Entry
  <1>5. ASSUME NEW i \in 1..(Len(box) + 1)
        PROVE  new[i] = (Advance(head) + QueueSize - (Len(box) + 1) + i - 1) % QueueSize
    <2> DEFINE y == Advance(head) + QueueSize - (Len(box) + 1) + i - 1
    <2>1. y \in 0..(2 * QueueSize - 1)
      BY <1>1, <1>3, <1>4
    <2>2. y % QueueSize = IF y < QueueSize THEN y ELSE y - QueueSize
      BY <2>1, Wrapped
    <2>3. CASE i = Len(box) + 1
      BY <1>1, <1>2, <1>3, <1>4, <2>2, <2>3
    <2>4. CASE i \in 1..Len(box)
      <3> DEFINE x == head + QueueSize - Len(box) + i - 1
      <3>1. x \in 0..(2 * QueueSize - 1)
        BY <1>1, <1>4, <2>4
      <3>2. x % QueueSize = IF x < QueueSize THEN x ELSE x - QueueSize
        BY <3>1, Wrapped
      <3>3. new[i] = x % QueueSize
        BY <1>2, <2>4 DEF Consecutive
      <3>4. y = x \/ (y = x - QueueSize /\ x >= QueueSize)
        BY <1>1, <1>3, <1>4, <2>4
      <3>5. x \in Int /\ y \in Int
        BY <2>1, <3>1
      <3>6. x % QueueSize = y % QueueSize
        <4> HIDE DEF x, y
        <4>1. CASE y = x
          BY <4>1
        <4>2. CASE y = x - QueueSize /\ x >= QueueSize
          <5>1. y < QueueSize
            BY <1>4, <2>1, <3>1, <3>5, <4>2
          <5>2. x % QueueSize = x - QueueSize /\ y % QueueSize = y
            BY <1>4, <2>2, <3>2, <3>5, <4>2, <5>1
          <5>3. QED
            BY <4>2, <5>2
        <4>3. QED
          BY <3>4, <4>1, <4>2
      <3>7. QED
        BY <3>3, <3>6
    <2>5. QED
      BY <1>1, <2>3, <2>4
  <1>6. QED
    BY <1>2, <1>5 DEF Consecutive

LEMMA Fetched ==
  ASSUME NEW box \in Box, NEW head \in Entry, box # <<>>, Consecutive(box, head)
  PROVE  Consecutive(Tail(box), head)
PROOF
  <1>1. /\ Len(box) \in 1..QueueSize
        /\ Len(Tail(box)) = Len(box) - 1
        /\ \A i \in 1..(Len(box) - 1) : Tail(box)[i] = box[i + 1]
    BY TailBox
  <1>2. head \in Int /\ QueueSize \in Int
    BY QueueSizeAssumption DEF Entry
  <1>3. ASSUME NEW i \in 1..(Len(box) - 1)
        PROVE  Tail(box)[i] =
                 (head + QueueSize - (Len(box) - 1) + i - 1) % QueueSize
    <2>1. i + 1 \in 1..Len(box)
      BY <1>1
    <2>2. box[i + 1] = (head + QueueSize - Len(box) + (i + 1) - 1) % QueueSize
      BY <2>1 DEF Consecutive
    <2>3. head + QueueSize - Len(box) + (i + 1) - 1
            = head + QueueSize - (Len(box) - 1) + i - 1
      BY <1>1, <1>2
    <2>4. QED
      BY <1>1, <2>2, <2>3
  <1>4. QED
    BY <1>1, <1>3 DEF Consecutive

\* The head of the ring is in a full mailbox.
LEMMA FullHoldsHead ==
  ASSUME NEW box \in Box, NEW head \in Entry, Len(box) = QueueSize,
         Consecutive(box, head)
  PROVE  1 \in 1..Len(box) /\ box[1] = head
PROOF
  <1>1. QueueSize \in Nat \ {0} /\ head \in 0..(QueueSize - 1)
    BY QueueSizeAssumption DEF Entry
  <1>2. 1 \in 1..Len(box)
    BY <1>1
  <1>3. box[1] = (head + QueueSize - Len(box) + 1 - 1) % QueueSize
    BY <1>2 DEF Consecutive
  <1>4. head + QueueSize - Len(box) + 1 - 1 = head
    BY <1>1
  <1>5. head % QueueSize = head
    BY <1>1, Wrapped
  <1>6. QED
    BY <1>2, <1>3, <1>4, <1>5

(***************************************************************************)
(* Types, and the shape of the rings.  What udp_sendto is given is a pbuf  *)
(* because the entries in the outbox have been filled: an entry that gets  *)
(* its former content back was in the full mailbox.                        *)
(***************************************************************************)

InType == /\ inboxBuf \in [Entry -> Pbuf \union {NoPbuf}]
          /\ inboxHead \in Entry
          /\ inbox \in Box
          /\ Consecutive(inbox, inboxHead)
OutType == /\ outboxBuf \in [Entry -> Pbuf \union {NoPbuf}]
           /\ outboxHead \in Entry
           /\ outbox \in Box
           /\ Consecutive(outbox, outboxHead)
StackType == stack \in {Idle}
               \union [at : {"received"}, saved : Pbuf \union {NoPbuf}]
               \union [at : {"sending"}, entry : Entry]
DaemonType == daemon \in {Idle, [at |-> "emptying"]}
                \union [at : {"fetched"}, entry : Entry]
                \union [at : {"queueing"}, pbuf : TxPbuf, saved : Pbuf \union {NoPbuf}]
                \union [at : {"calling", "waiting"}, pbuf : TxPbuf]
CountType == /\ handler \in {"event", "general"}
             /\ callbacks \in Nat /\ ptpTxNotify \in Nat /\ stranded \in Nat
PbufType == driver \subseteq Pbuf /\ stamped \subseteq Pbuf /\ live \subseteq Pbuf
FlagType == overrun \in BOOLEAN /\ dropped \in BOOLEAN

Filled ==
  /\ \A i \in 1..Len(outbox) : outboxBuf[outbox[i]] \in Pbuf
  /\ stack.at = "sending" => outboxBuf[stack.entry] \in Pbuf
  /\ daemon.at = "queueing" =>
       /\ outboxBuf[outboxHead] \in Pbuf
       /\ daemon.saved = NoPbuf =>
            /\ \A i \in 1..Len(outbox) : outbox[i] # outboxHead
            /\ stack.at = "sending" => stack.entry # outboxHead

Shape == /\ InType /\ OutType /\ StackType /\ DaemonType
         /\ CountType /\ PbufType /\ FlagType
         /\ Filled

LEMMA ShapeParts == Shape <=> TypeOK /\ RingShape /\ Filled
PROOF
  BY DEF Shape, InType, OutType, StackType, DaemonType, CountType, PbufType, FlagType,
         TypeOK, RingShape

\* The locals of the two threads.
LEMMA Locals ==
  ASSUME StackType, DaemonType
  PROVE  /\ stack.at = "received" => stack.saved \in Pbuf \union {NoPbuf}
         /\ stack.at = "sending" => stack.entry \in Entry
         /\ daemon.at = "fetched" => daemon.entry \in Entry
         /\ daemon.at = "queueing" =>
              daemon.pbuf \in TxPbuf /\ daemon.saved \in Pbuf \union {NoPbuf}
         /\ daemon.at \in {"calling", "waiting"} => daemon.pbuf \in TxPbuf
PROOF
  BY DEF StackType, DaemonType, Idle

LEMMA BoxEntries ==
  ASSUME NEW box \in Box
  PROVE  Len(box) \in 0..QueueSize /\ \A i \in 1..Len(box) : box[i] \in Entry
PROOF
  BY BoxIsASeq, ElementOfSeq

\* What the TCP/IP thread and the daemon do with the inbox.
LEMMA ReceptionShape ==
  ASSUME Shape,
         \/ \E p \in RxPbuf : Overwrite(p)
         \/ PostReceived \/ Fetch \/ ReadPacket \/ netEmptyEventQ \/ EmptyNext
  PROVE  Shape'
PROOF
  <1> USE DEF Shape
  <1>1. OutType' /\ CountType' /\ UNCHANGED <<outboxBuf, outboxHead, outbox>>
    BY DEF Overwrite, PostReceived, Fetch, ReadPacket, netEmptyEventQ, EmptyNext,
           outVars, txVars, history, OutType, CountType
  <1>2. UNCHANGED <<driver, stamped, dropped>>
    BY DEF Overwrite, PostReceived, Fetch, ReadPacket, netEmptyEventQ, EmptyNext,
           txVars, history
  <1>3. \/ stack' = stack \/ stack'.at \in {"idle", "received"}
    BY DEF Overwrite, PostReceived, Fetch, ReadPacket, netEmptyEventQ, EmptyNext, Idle
  <1>4. \/ daemon' = daemon \/ daemon'.at \in {"idle", "fetched", "emptying"}
    BY DEF Overwrite, PostReceived, Fetch, ReadPacket, netEmptyEventQ, EmptyNext, Idle
  <1>5. Filled'
    BY <1>1, <1>3, <1>4 DEF Filled
  <1>6. CASE \E p \in RxPbuf : Overwrite(p)
    <2>1. PICK p \in RxPbuf : Overwrite(p)
      BY <1>6
    <2>2. InType'
      BY <2>1 DEF Overwrite, InType, Pbuf
    <2>3. inboxBuf[inboxHead] \in Pbuf \union {NoPbuf}
      BY DEF InType
    <2>4. StackType' /\ DaemonType'
      BY <2>1, <2>3 DEF Overwrite, StackType, DaemonType
    <2>5. PbufType' /\ FlagType'
      BY <1>2, <2>1 DEF Overwrite, PbufType, FlagType, Pbuf
    <2>6. QED
      BY <1>1, <1>5, <2>2, <2>4, <2>5
  <1>7. CASE PostReceived
    <2>1. StackType' /\ DaemonType' /\ PbufType' /\ FlagType'
      BY <1>2, <1>7
      DEF PostReceived, StackType, DaemonType, PbufType, FlagType, history
    <2>2. CASE Len(inbox) < QueueSize
      <3>1. /\ Append(inbox, inboxHead) \in Box
            /\ Consecutive(Append(inbox, inboxHead), Advance(inboxHead))
            /\ Advance(inboxHead) \in Entry
        BY <2>2, AppendBox, Posted, AdvanceInRing DEF InType
      <3>2. InType'
        BY <1>7, <2>2, <3>1 DEF PostReceived, InType
      <3>3. QED
        BY <1>1, <1>5, <2>1, <3>2
    <2>3. CASE ~(Len(inbox) < QueueSize)
      <3>1. stack.saved \in Pbuf \union {NoPbuf}
        BY <1>7, Locals DEF PostReceived
      <3>2. InType'
        BY <1>7, <2>3, <3>1 DEF PostReceived, InType, Restore
      <3>3. QED
        BY <1>1, <1>5, <2>1, <3>2
    <2>4. QED
      BY <2>2, <2>3
  <1>8. CASE inbox = <<>> \/ ~(Fetch \/ EmptyNext)
    <2> SUFFICES ASSUME \/ ReadPacket \/ netEmptyEventQ
                        \/ EmptyNext /\ inbox = <<>>
                 PROVE  Shape'
      BY <1>6, <1>7, <1>8 DEF Fetch
    <2>1. UNCHANGED inVars /\ UNCHANGED <<stack, overrun>>
      BY DEF ReadPacket, netEmptyEventQ, EmptyNext, inVars, history
    <2>2. InType' /\ StackType'
      BY <2>1 DEF inVars, InType, StackType
    <2>3. daemon' \in {Idle, [at |-> "emptying"]} /\ live' \subseteq live
      BY DEF ReadPacket, netEmptyEventQ, EmptyNext
    <2>4. DaemonType' /\ PbufType' /\ FlagType'
      BY <1>2, <2>1, <2>3 DEF DaemonType, PbufType, FlagType
    <2>5. QED
      BY <1>1, <1>5, <2>2, <2>4
  <1>9. CASE inbox # <<>> /\ (Fetch \/ EmptyNext)
    <2>1. /\ Head(inbox) \in Entry /\ Tail(inbox) \in Box
          /\ Consecutive(Tail(inbox), inboxHead)
      BY <1>9, TailBox, Fetched DEF InType
    <2>2. /\ inbox' = Tail(inbox) /\ UNCHANGED <<inboxBuf, inboxHead, stack>>
          /\ live' \subseteq live /\ overrun' \in BOOLEAN
      BY <1>9 DEF Fetch, EmptyNext
    <2>3. InType' /\ StackType' /\ PbufType' /\ FlagType'
      BY <1>2, <2>1, <2>2 DEF InType, StackType, PbufType, FlagType
    <2>4. DaemonType'
      BY <1>9, <2>1 DEF Fetch, EmptyNext, DaemonType
    <2>5. QED
      BY <1>1, <1>5, <2>3, <2>4
  <1>10. QED
    BY <1>6, <1>7, <1>8, <1>9

\* What the daemon, the TCP/IP thread and the driver do with the outbox.
LEMMA TransmissionShape ==
  ASSUME Shape,
         \/ \E p \in TxPbuf : Queue(p) \/ Transmit(p)
         \/ PostQueued \/ Call \/ Return
         \/ netSendCallback \/ SendOut
  PROVE  Shape'
PROOF
  <1> USE DEF Shape
  <1>1. InType' /\ UNCHANGED handler
    BY DEF Queue, Transmit, PostQueued, Call, Return, netSendCallback, SendOut,
           inVars, InType
  <1>2. NoPbuf \notin Pbuf
    BY PbufAssumption DEF Pbuf
  <1>3. \A i \in 1..Len(outbox) : outbox[i] \in Entry
    BY BoxEntries DEF OutType
  <1>4. CASE \E p \in TxPbuf : Queue(p)
    <2>1. PICK p \in TxPbuf : Queue(p)
      BY <1>4
    <2>2. p \in Pbuf /\ outboxBuf[outboxHead] \in Pbuf \union {NoPbuf}
      BY DEF Pbuf, OutType
    <2>3. OutType' /\ UNCHANGED <<outboxHead, outbox, stack>>
      BY <2>1, <2>2 DEF Queue, OutType
    <2>4. StackType' /\ DaemonType'
      BY <2>1, <2>2 DEF Queue, StackType, DaemonType
    <2>5. CountType' /\ PbufType' /\ FlagType'
      BY <2>1, <2>2 DEF Queue, CountType, PbufType, FlagType
    <2>6. outboxBuf' = [outboxBuf EXCEPT ![outboxHead] = p]
          /\ daemon'.saved = outboxBuf[outboxHead]
      BY <2>1 DEF Queue
    <2>7. \A e \in Entry : outboxBuf'[e] = IF e = outboxHead THEN p ELSE outboxBuf[e]
      BY <2>6 DEF OutType
    <2>8. stack.at = "sending" => stack.entry \in Entry
      BY Locals
    <2>9. outboxHead \in Entry
      BY DEF OutType
    <2>10. Filled'
      BY <1>2, <1>3, <2>2, <2>3, <2>6, <2>7, <2>8, <2>9 DEF Filled
    <2>11. QED
      BY <1>1, <2>3, <2>4, <2>5, <2>10
  <1>5. CASE PostQueued
    <2>1. /\ UNCHANGED <<stack, callbacks, driver, stamped, ptpTxNotify, overrun,
                         dropped, stranded>>
          /\ daemon.at = "queueing" /\ daemon.pbuf \in TxPbuf
          /\ daemon.saved \in Pbuf \union {NoPbuf}
      BY <1>5, Locals DEF PostQueued, txVars, history
    <2>2. CountType' /\ StackType' /\ FlagType'
      BY <1>1, <2>1 DEF CountType, StackType, FlagType
    <2>3. CASE Len(outbox) < QueueSize
      <3>1. /\ outbox' = Append(outbox, outboxHead)
            /\ outboxHead' = Advance(outboxHead)
            /\ daemon' = [at |-> "calling", pbuf |-> daemon.pbuf]
            /\ UNCHANGED <<outboxBuf, live>>
        BY <1>5, <2>3 DEF PostQueued
      <3>2. /\ outbox' \in Box /\ Consecutive(outbox', outboxHead')
            /\ outboxHead' \in Entry
            /\ Len(outbox') = Len(outbox) + 1
            /\ \A i \in 1..Len(outbox) : outbox'[i] = outbox[i]
            /\ outbox'[Len(outbox) + 1] = outboxHead
        BY <2>3, <3>1, AppendBox, Posted, AdvanceInRing DEF OutType
      <3>3. OutType'
        BY <3>1, <3>2 DEF OutType, Consecutive
      <3>4. DaemonType' /\ PbufType'
        BY <2>1, <3>1 DEF DaemonType, PbufType
      <3>5. Len(outbox) \in Nat
        BY BoxEntries, QueueSizeAssumption DEF OutType
      <3>6. Filled'
        BY <2>1, <3>1, <3>2, <3>5 DEF Filled
      <3>7. QED
        BY <1>1, <2>2, <3>3, <3>4, <3>6
    <2>4. CASE ~(Len(outbox) < QueueSize)
      <3>1. /\ live' \subseteq live
            /\ outboxBuf' = [outboxBuf EXCEPT ![outboxHead] = daemon.saved]
            /\ daemon' = Idle
            /\ UNCHANGED <<outbox, outboxHead>>
        BY <1>5, <2>4 DEF PostQueued, Restore, AfterFullOutbox
      <3>2. OutType' /\ DaemonType' /\ PbufType'
        BY <2>1, <3>1 DEF OutType, DaemonType, PbufType
      <3>3. Len(outbox) = QueueSize
        BY <2>4, BoxEntries, QueueSizeAssumption DEF OutType
      <3>4. 1 \in 1..Len(outbox) /\ outbox[1] = outboxHead
        BY <3>3, FullHoldsHead DEF OutType
      <3>5. daemon.saved \in Pbuf
        BY <2>1, <3>4 DEF Filled
      <3>6. \A e \in Entry : outboxBuf'[e] = IF e = outboxHead THEN daemon.saved
                                                              ELSE outboxBuf[e]
        BY <3>1 DEF OutType
      <3>7. stack.at = "sending" => stack.entry \in Entry
        BY Locals
      <3>8. Filled'
        BY <1>3, <2>1, <3>1, <3>5, <3>6, <3>7 DEF Filled, Idle
      <3>9. QED
        BY <1>1, <2>2, <3>2, <3>8
    <2>5. QED
      BY <2>3, <2>4
  <1>6. CASE Call \/ Return \/ \E p \in TxPbuf : Transmit(p)
    <2>1. UNCHANGED <<outboxBuf, outboxHead, outbox, stack, overrun, dropped>>
      BY <1>6 DEF Call, Return, Transmit, outVars, txVars, history
    <2>2. OutType' /\ StackType' /\ FlagType'
      BY <2>1 DEF OutType, StackType, FlagType
    <2>3. /\ callbacks' \in {callbacks, callbacks + 1}
          /\ stranded' \in {stranded, stranded + 1}
          /\ ptpTxNotify' \in {ptpTxNotify, ptpTxNotify + 1}
               \/ (ptpTxNotify > 0 /\ ptpTxNotify' = ptpTxNotify - 1)
      BY <1>6 DEF Call, Return, Notified, Transmit, outVars, txVars, history, CountType
    <2>4. CountType'
      BY <1>1, <2>3 DEF CountType
    <2>5. PbufType'
      BY <1>6 DEF Call, Return, Transmit, outVars, txVars, history, PbufType, Pbuf
    <2>6. daemon' = daemon \/ daemon' = Idle
          \/ (daemon.at = "calling" /\ daemon' = [at |-> "waiting", pbuf |-> daemon.pbuf])
      BY <1>6 DEF Call, AfterFailedCall, Return, Transmit
    <2>7. DaemonType'
      BY <2>6, Locals DEF DaemonType
    <2>8. Filled'
      BY <2>1, <2>6 DEF Filled, Idle
    <2>9. QED
      BY <1>1, <2>2, <2>4, <2>5, <2>7, <2>8
  <1>7. CASE netSendCallback
    <2>1. /\ UNCHANGED <<outboxBuf, outboxHead, daemon, driver, stamped, ptpTxNotify,
                         live, dropped, stranded>>
          /\ callbacks > 0 /\ callbacks' = callbacks - 1
          /\ stack = Idle
      BY <1>7 DEF netSendCallback, txVars
    <2>2. CountType' /\ PbufType' /\ DaemonType'
      BY <1>1, <2>1 DEF CountType, PbufType, DaemonType
    <2>3. CASE outbox = <<>>
      <3>1. UNCHANGED <<stack, outbox, overrun>>
        BY <1>7, <2>3 DEF netSendCallback
      <3>2. QED
        BY <1>1, <2>1, <2>2, <3>1 DEF OutType, StackType, FlagType, Filled
    <2>4. CASE outbox # <<>>
      <3>1. /\ stack' = [at |-> "sending", entry |-> Head(outbox)]
            /\ outbox' = Tail(outbox)
            /\ overrun' \in BOOLEAN
        BY <1>7, <2>4 DEF netSendCallback
      <3>2. /\ Head(outbox) \in Entry /\ Tail(outbox) \in Box
            /\ Len(outbox) \in 1..QueueSize
            /\ Len(Tail(outbox)) = Len(outbox) - 1
            /\ \A i \in 1..(Len(outbox) - 1) : Tail(outbox)[i] = outbox[i + 1]
            /\ Consecutive(Tail(outbox), outboxHead)
        BY <2>4, TailBox, Fetched DEF OutType
      <3>3. OutType' /\ StackType' /\ FlagType'
        BY <2>1, <3>1, <3>2 DEF OutType, StackType, FlagType, Consecutive
      <3>4. 1 \in 1..Len(outbox) /\ Head(outbox) = outbox[1]
        BY <3>2
      <3>5. \A i \in 1..Len(outbox') : i + 1 \in 1..Len(outbox)
                                       /\ outbox'[i] = outbox[i + 1]
        BY <3>1, <3>2
      <3>6. Filled'
        BY <2>1, <3>1, <3>4, <3>5 DEF Filled
      <3>7. QED
        BY <1>1, <2>2, <3>3, <3>6
    <2>5. QED
      BY <2>3, <2>4
  <1>8. CASE SendOut
    <2>1. /\ stack.at = "sending" /\ stack' = Idle
          /\ UNCHANGED <<outboxBuf, outboxHead, outbox, callbacks, daemon, stamped,
                         ptpTxNotify, overrun, stranded>>
          /\ driver' \subseteq driver \union {outboxBuf[stack.entry]}
          /\ live' \subseteq live
          /\ dropped' \in {dropped, TRUE}
      BY <1>8 DEF SendOut, outVars
    <2>2. outboxBuf[stack.entry] \in Pbuf
      BY <2>1 DEF Filled
    <2>3. OutType' /\ CountType' /\ DaemonType'
      BY <1>1, <2>1 DEF OutType, CountType, DaemonType
    <2>4. StackType' /\ PbufType' /\ FlagType'
      BY <2>1, <2>2 DEF StackType, PbufType, FlagType
    <2>5. Filled'
      BY <2>1 DEF Filled, Idle
    <2>6. QED
      BY <1>1, <2>3, <2>4, <2>5
  <1>9. QED
    BY <1>4, <1>5, <1>6, <1>7, <1>8

THEOREM ShapeCorrect == Spec => []Shape
PROOF
  <1>1. Init => Shape
    <2> SUFFICES ASSUME Init PROVE Shape
      OBVIOUS
    <2>1. <<>> \in Box /\ Len(<<>>) = 0
      <3>1. <<>> \in Seq(Entry) /\ Len(<<>>) = 0
        BY EmptySeq
      <3>2. Len(<<>>) <= QueueSize
        BY <3>1, QueueSizeAssumption
      <3>3. QED
        BY <3>1, <3>2, SeqIsABox
    <2>2. 0 \in Entry
      BY QueueSizeAssumption DEF Entry
    <2>3. Consecutive(<<>>, 0)
      BY <2>1 DEF Consecutive
    <2>4. InType /\ OutType
      BY <2>1, <2>2, <2>3 DEF Init, InType, OutType
    <2>5. StackType /\ DaemonType /\ CountType /\ PbufType /\ FlagType
      BY DEF Init, StackType, DaemonType, CountType, PbufType, FlagType
    <2>6. Filled
      BY <2>1 DEF Init, Filled, Idle
    <2>7. QED
      BY <2>4, <2>5, <2>6 DEF Shape
  <1>2. Shape /\ [Next]_vars => Shape'
    <2> SUFFICES ASSUME Shape, [Next]_vars PROVE Shape'
      OBVIOUS
    <2>1. CASE UNCHANGED vars
      BY <2>1
      DEF vars, inVars, outVars, txVars, history, Shape, InType, OutType, StackType,
          DaemonType, CountType, PbufType, FlagType, Filled
    <2>2. CASE Next
      BY <2>2, ReceptionShape, TransmissionShape DEF Next
    <2>3. QED
      BY <2>1, <2>2
  <1>3. QED
    BY <1>1, <1>2, PTL DEF Spec

\* The variables have their types in every reachable state.
THEOREM TypeCorrect == Spec => []TypeOK
PROOF
  BY ShapeCorrect, ShapeParts, PTL

\* Mailbox and ring agree, for every queue size and every interleaving.
THEOREM RingCorrect == Spec => []RingShape
PROOF
  BY ShapeCorrect, ShapeParts, PTL

(***************************************************************************)
(* Packets, calls and notifications are counted.                           *)
(***************************************************************************)

\* The packets queued are those netSendCallback was called for, and those of
\* failed calls.
THEOREM CalledForCorrect == Spec => []EachPacketCalledFor
PROOF
  <1>1. Init => EachPacketCalledFor
    <2>1. Len(<<>>) = 0
      BY EmptySeq
    <2>2. QED
      BY <2>1 DEF Init, EachPacketCalledFor, Idle
  <1>2. Shape /\ EachPacketCalledFor /\ [Next]_vars => EachPacketCalledFor'
    <2> SUFFICES ASSUME Shape, EachPacketCalledFor, [Next]_vars
                 PROVE  EachPacketCalledFor'
      OBVIOUS
    <2>1. callbacks \in Nat /\ stranded \in Nat /\ outbox \in Box
          /\ Len(outbox) \in 0..QueueSize
      BY BoxEntries DEF Shape, CountType, OutType
    <2>2. CASE PostQueued
      <3>1. CASE Len(outbox) < QueueSize
        <4>1. Len(outbox') = Len(outbox) + 1
          BY <2>2, <3>1, AppendBox DEF PostQueued, Shape, OutType
        <4>2. QED
          BY <2>1, <2>2, <3>1, <4>1 DEF PostQueued, history, EachPacketCalledFor
      <3>2. CASE ~(Len(outbox) < QueueSize)
        BY <2>1, <2>2, <3>2
        DEF PostQueued, AfterFullOutbox, Idle, history, EachPacketCalledFor
      <3>3. QED
        BY <3>1, <3>2
    <2>3. CASE Call
      BY <2>1, <2>3 DEF Call, AfterFailedCall, Idle, EachPacketCalledFor
    <2>4. CASE netSendCallback
      <3>1. /\ callbacks > 0 /\ callbacks' = callbacks - 1
            /\ UNCHANGED <<daemon, stranded>>
        BY <2>4 DEF netSendCallback
      <3>2. Len(outbox) # 0
        BY <2>1, <3>1 DEF EachPacketCalledFor
      <3>3. outbox # <<>>
        BY <3>2, EmptySeq
      <3>4. outbox' = Tail(outbox) /\ Len(Tail(outbox)) = Len(outbox) - 1
        BY <2>1, <2>4, <3>3, TailBox DEF netSendCallback
      <3>5. QED
        BY <2>1, <3>1, <3>4 DEF EachPacketCalledFor
    <2>5. CASE \/ UNCHANGED vars
               \/ \E p \in RxPbuf : Overwrite(p)
               \/ PostReceived \/ Fetch \/ ReadPacket \/ netEmptyEventQ \/ EmptyNext
               \/ \E p \in TxPbuf : Queue(p) \/ Transmit(p)
               \/ Return \/ SendOut
      <3>1. UNCHANGED <<outbox, callbacks, stranded>>
        BY <2>5
        DEF vars, outVars, history, Overwrite, PostReceived, Fetch, ReadPacket,
            netEmptyEventQ, EmptyNext, Queue, Transmit, Return, SendOut
      <3>2. \/ daemon.at # "calling" /\ daemon'.at # "calling"
            \/ daemon' = daemon
        BY <2>5
        DEF vars, Overwrite, PostReceived, Fetch, ReadPacket, netEmptyEventQ, EmptyNext,
            Queue, Transmit, Return, SendOut, Idle
      <3>3. QED
        BY <3>1, <3>2 DEF EachPacketCalledFor
    <2>6. QED
      BY <2>2, <2>3, <2>4, <2>5 DEF Next
  <1>3. QED
    BY <1>1, <1>2, ShapeCorrect, PTL DEF Spec

\* Only the daemon of the event port waits, and the driver has few packets.
Waits == /\ daemon.at = "waiting" => handler = "event"
         /\ IsFiniteSet(driver)
         /\ WaitIsAnswered

Sending == IF stack.at = "sending" THEN 1 ELSE 0
Waiting == IF daemon.at = "waiting" THEN 1 ELSE 0

\* A step that does not change where the notification is.
LEMMA SameWait ==
  ASSUME Waits, UNCHANGED <<handler, callbacks, driver, ptpTxNotify>>,
         dropped' = dropped, Sending' = Sending, Waiting' = Waiting
  PROVE  Waits'
PROOF
  BY DEF Waits, WaitIsAnswered, Sending, Waiting

\* Nor does any other step change how many notifications are to come.
THEOREM WaitsCorrect == Spec => []Waits
PROOF
  <1>1. Init => Waits
    BY FS_EmptySet DEF Init, Waits, WaitIsAnswered, Idle
  <1>2. Shape /\ EachPacketCalledFor /\ Waits /\ [Next]_vars => Waits'
    <2> SUFFICES ASSUME Shape, EachPacketCalledFor, Waits, [Next]_vars
                 PROVE  Waits'
      OBVIOUS
    <2>1. /\ callbacks \in Nat /\ stranded \in Nat /\ ptpTxNotify \in Nat
          /\ Cardinality(driver) \in Nat
      BY FS_CardinalityType DEF Shape, CountType, Waits
    <2>2. CASE \/ UNCHANGED vars
               \/ \E p \in RxPbuf : Overwrite(p)
               \/ PostReceived \/ Fetch \/ ReadPacket \/ netEmptyEventQ \/ EmptyNext
               \/ \E p \in TxPbuf : Queue(p)
               \/ PostQueued
      <3>1. UNCHANGED <<handler, callbacks, driver, ptpTxNotify, dropped>>
        BY <2>2
        DEF vars, outVars, txVars, history, Overwrite, PostReceived, Fetch, ReadPacket,
            netEmptyEventQ, EmptyNext, Queue, PostQueued
      <3>2. Sending' = Sending
        BY <2>2
        DEF vars, Overwrite, PostReceived, Fetch, ReadPacket, netEmptyEventQ, EmptyNext,
            Queue, PostQueued, Idle, Sending
      <3>3. Waiting' = Waiting
        BY <2>2
        DEF vars, Overwrite, PostReceived, Fetch, ReadPacket, netEmptyEventQ, EmptyNext,
            Queue, PostQueued, AfterFullOutbox, Idle, Waiting
      <3>4. QED
        BY <3>1, <3>2, <3>3, SameWait
    <2>3. CASE Call
      <3>1. /\ UNCHANGED <<handler, driver, ptpTxNotify, dropped, stack>>
            /\ daemon.at = "calling"
            /\ \/ callbacks' = callbacks + 1
                  /\ daemon' = IF handler = "event"
                                 THEN [at |-> "waiting", pbuf |-> daemon.pbuf] ELSE Idle
               \/ callbacks' = callbacks /\ daemon' = Idle
        BY <2>3 DEF Call, AfterFailedCall, txVars
      <3>2. QED
        BY <2>1, <3>1 DEF Waits, WaitIsAnswered, Idle
    <2>4. CASE Return
      <3>1. /\ UNCHANGED <<handler, driver, callbacks, dropped, stack>>
            /\ daemon.at = "waiting" /\ daemon' = Idle
            /\ ptpTxNotify > 0 /\ ptpTxNotify' = ptpTxNotify - 1
        BY <2>1, <2>4 DEF Return, Notified, outVars, history
      <3>2. QED
        BY <2>1, <3>1 DEF Waits, WaitIsAnswered, Idle
    <2>5. CASE netSendCallback
      <3>1. /\ UNCHANGED <<handler, daemon, driver, ptpTxNotify, dropped>>
            /\ stack = Idle
            /\ callbacks > 0 /\ callbacks' = callbacks - 1
        BY <2>5 DEF netSendCallback, txVars
      <3>2. outbox # <<>>
        <4>1. Len(outbox) # 0
          BY <2>1, <3>1 DEF EachPacketCalledFor
        <4>2. QED
          BY <4>1, EmptySeq
      <3>3. stack'.at = "sending"
        BY <2>5, <3>2 DEF netSendCallback
      <3>4. QED
        BY <2>1, <3>1, <3>3 DEF Waits, WaitIsAnswered, Idle
    <2>6. CASE SendOut
      <3>1. /\ UNCHANGED <<handler, daemon, callbacks, ptpTxNotify>>
            /\ stack.at = "sending" /\ stack' = Idle
            /\ \/ /\ driver' = driver \union {outboxBuf[stack.entry]}
                  /\ dropped' = dropped
               \/ dropped' = TRUE /\ driver' = driver
        BY <2>6 DEF SendOut, outVars
      <3>2. CASE dropped' = TRUE /\ driver' = driver
        BY <3>1, <3>2 DEF Waits, WaitIsAnswered
      <3>3. CASE /\ driver' = driver \union {outboxBuf[stack.entry]}
                 /\ dropped' = dropped
        <4>1. IsFiniteSet(driver')
          BY <3>3, FS_AddElement DEF Waits
        <4>2. ASSUME handler = "event", ~dropped
              PROVE  Cardinality(driver') = Cardinality(driver) + 1
          <5>1. Cardinality(driver) = 0
            BY <2>1, <3>1, <4>2 DEF Waits, WaitIsAnswered
          <5>2. driver = {}
            BY <5>1, FS_EmptySet DEF Waits
          <5>3. QED
            BY <3>3, <5>2, FS_AddElement, FS_EmptySet
        <4>3. QED
          BY <2>1, <3>1, <3>3, <4>1, <4>2 DEF Waits, WaitIsAnswered, Idle
      <3>4. QED
        BY <3>1, <3>2, <3>3
    <2>7. ASSUME NEW p \in TxPbuf, Transmit(p)
          PROVE  Waits'
      <3>1. /\ UNCHANGED <<handler, daemon, stack, callbacks, dropped>>
            /\ driver' = driver \ {p} /\ p \in driver
            /\ handler = "event" => ptpTxNotify' = ptpTxNotify + 1
        BY <2>7 DEF Transmit, outVars, history
      <3>2. /\ IsFiniteSet(driver')
            /\ Cardinality(driver') = Cardinality(driver) - 1
        BY <3>1, FS_RemoveElement DEF Waits
      <3>3. QED
        BY <2>1, <3>1, <3>2 DEF Waits, WaitIsAnswered
    <2>8. QED
      BY <2>2, <2>3, <2>4, <2>5, <2>6, <2>7 DEF Next
  <1>3. QED
    BY <1>1, <1>2, ShapeCorrect, CalledForCorrect, PTL DEF Spec

\* The daemon waits for exactly one notification that is on its way, and none is
\* on its way when it does not wait, unless a packet was not sent.
THEOREM WaitCorrect == Spec => []WaitIsAnswered
PROOF
  <1>1. Waits => WaitIsAnswered
    BY DEF Waits
  <1>2. QED
    BY <1>1, WaitsCorrect, PTL

(***************************************************************************)
(* The notification that wakes the daemon up is that of its packet.  As    *)
(* long as no call failed the outbox holds at most that packet, and it is  *)
(* followed from there to the driver and to its timestamp.                 *)
(***************************************************************************)

OnlyItsPacket ==
  \A i \in 1..Len(outbox) : outboxBuf[outbox[i]] = daemon.pbuf

Followed ==
  /\ daemon.at = "queueing" => outboxBuf[outboxHead] = daemon.pbuf
  /\ daemon.at \in {"calling", "waiting"} =>
       /\ OnlyItsPacket
       /\ stack.at = "sending" => outboxBuf[stack.entry] = daemon.pbuf
       /\ driver \subseteq {daemon.pbuf}
  /\ daemon.at = "waiting" /\ ptpTxNotify > 0 => daemon.pbuf \in stamped

Follows == handler = "event" /\ stranded = 0 /\ ~dropped => Followed

\* Between two sends nothing is left of the first one.
LEMMA Quiet ==
  ASSUME Shape, EachPacketCalledFor, Waits, handler = "event", stranded = 0, ~dropped,
         daemon.at \notin {"calling", "waiting"}
  PROVE  Len(outbox) = 0 /\ stack.at # "sending" /\ driver = {}
PROOF
  <1>1. /\ callbacks \in Nat /\ ptpTxNotify \in Nat /\ Cardinality(driver) \in Nat
    BY FS_CardinalityType DEF Shape, CountType, Waits
  <1>2. callbacks = 0 /\ stack.at # "sending" /\ Cardinality(driver) = 0
    BY <1>1 DEF Waits, WaitIsAnswered
  <1>3. driver = {}
    BY <1>2, FS_EmptySet DEF Waits
  <1>4. QED
    BY <1>2, <1>3 DEF EachPacketCalledFor

\* The daemon reads its own packet's timestamp, unless a call has failed or a
\* packet was not sent.
THEOREM TimestampCorrect == Spec => []OwnTimestamp
PROOF
  <1>1. Init => Follows
    BY DEF Init, Follows, Followed, Idle
  <1>2. Shape /\ EachPacketCalledFor /\ Waits /\ Follows /\ [Next]_vars => Follows'
    <2> SUFFICES ASSUME Shape, EachPacketCalledFor, Waits, Follows, [Next]_vars,
                        handler' = "event", stranded' = 0, ~dropped'
                 PROVE  Followed'
      BY DEF Follows
    <2>1. callbacks \in Nat /\ stranded \in Nat /\ ptpTxNotify \in Nat
          /\ Cardinality(driver) \in Nat /\ outbox \in Box
          /\ Len(outbox) \in 0..QueueSize
      BY FS_CardinalityType, BoxEntries DEF Shape, CountType, OutType, Waits
    <2>2. handler = "event" /\ stranded = 0 /\ ~dropped
      BY <2>1
      DEF Next, vars, history, Overwrite, PostReceived, Fetch, ReadPacket,
          netEmptyEventQ, EmptyNext, Queue, Transmit, PostQueued, Call, Return,
          netSendCallback, SendOut
    <2>3. Followed
      BY <2>2 DEF Follows
    <2>4. CASE \/ UNCHANGED vars
               \/ \E p \in RxPbuf : Overwrite(p)
               \/ PostReceived \/ Fetch \/ ReadPacket \/ netEmptyEventQ \/ EmptyNext
      <3>1. UNCHANGED <<outboxBuf, outboxHead, outbox, driver, stamped, ptpTxNotify>>
        BY <2>4
        DEF vars, outVars, txVars, Overwrite, PostReceived, Fetch, ReadPacket,
            netEmptyEventQ, EmptyNext
      <3>2. stack' = stack \/ stack'.at # "sending"
        BY <2>4
        DEF vars, Overwrite, PostReceived, Fetch, ReadPacket, netEmptyEventQ, EmptyNext,
            Idle
      <3>3. daemon' = daemon \/ daemon'.at \in {"idle", "fetched", "emptying"}
        BY <2>4
        DEF vars, Overwrite, PostReceived, Fetch, ReadPacket, netEmptyEventQ, EmptyNext,
            Idle
      <3>4. QED
        BY <2>3, <3>1, <3>2, <3>3 DEF Followed, OnlyItsPacket
    <2>5. ASSUME NEW p \in TxPbuf, Queue(p)
          PROVE  Followed'
      <3>1. outboxBuf' = [outboxBuf EXCEPT ![outboxHead] = p] /\ outboxHead' = outboxHead
            /\ daemon'.at = "queueing" /\ daemon'.pbuf = p
        BY <2>5 DEF Queue
      <3>2. outboxBuf'[outboxHead] = p
        BY <3>1 DEF Shape, OutType
      <3>3. QED
        BY <3>1, <3>2 DEF Followed
    <2>6. CASE PostQueued
      <3>1. Len(outbox) = 0 /\ stack.at # "sending" /\ driver = {}
        BY <2>2, <2>6, Quiet DEF PostQueued
      <3>2. Len(outbox) < QueueSize
        BY <3>1, QueueSizeAssumption
      <3>3. /\ outbox' = Append(outbox, outboxHead)
            /\ daemon'.at = "calling" /\ daemon'.pbuf = daemon.pbuf
            /\ daemon.at = "queueing"
            /\ UNCHANGED <<outboxBuf, stack, driver>>
        BY <2>6, <3>2 DEF PostQueued, txVars
      <3>4. Len(outbox') = 1 /\ outbox'[1] = outboxHead
        BY <2>1, <3>1, <3>2, <3>3, AppendBox DEF Shape, OutType
      <3>5. OnlyItsPacket'
        BY <2>3, <3>3, <3>4 DEF Followed, OnlyItsPacket
      <3>6. QED
        BY <3>1, <3>3, <3>5 DEF Followed
    <2>7. CASE Call
      <3>1. UNCHANGED <<outboxBuf, outboxHead, outbox, driver, stamped, ptpTxNotify, stack>>
            /\ daemon.at = "calling"
        BY <2>7 DEF Call, txVars
      <3>2. daemon' = [at |-> "waiting", pbuf |-> daemon.pbuf]
        BY <2>1, <2>2, <2>7 DEF Call
      <3>3. ptpTxNotify = 0
        BY <2>1, <2>2, <3>1 DEF Waits, WaitIsAnswered
      <3>4. QED
        BY <2>3, <3>1, <3>2, <3>3 DEF Followed, OnlyItsPacket
    <2>8. CASE Return
      BY <2>8 DEF Return, Followed, Idle
    <2>9. CASE netSendCallback
      <3>1. /\ UNCHANGED <<outboxBuf, outboxHead, daemon, driver, ptpTxNotify, stamped>>
            /\ stack = Idle
            /\ callbacks > 0
        BY <2>9 DEF netSendCallback, txVars
      <3>2. outbox # <<>>
        <4>1. Len(outbox) # 0
          BY <2>1, <3>1 DEF EachPacketCalledFor
        <4>2. QED
          BY <4>1, EmptySeq
      <3>3. stack' = [at |-> "sending", entry |-> Head(outbox)] /\ outbox' = Tail(outbox)
        BY <2>9, <3>2 DEF netSendCallback
      <3>4. /\ Len(outbox) \in 1..QueueSize
            /\ Len(Tail(outbox)) = Len(outbox) - 1
            /\ \A i \in 1..(Len(outbox) - 1) : Tail(outbox)[i] = outbox[i + 1]
        BY <2>1, <3>2, TailBox
      <3>5. 1 \in 1..Len(outbox) /\ Head(outbox) = outbox[1]
        BY <3>4
      <3>6. \A i \in 1..Len(outbox') : i + 1 \in 1..Len(outbox)
                                       /\ outbox'[i] = outbox[i + 1]
        BY <3>3, <3>4
      <3>7. QED
        BY <2>3, <3>1, <3>3, <3>5, <3>6 DEF Followed, OnlyItsPacket
    <2>10. CASE SendOut
      <3>1. /\ UNCHANGED <<outboxBuf, outboxHead, outbox, daemon, stamped, ptpTxNotify>>
            /\ stack.at = "sending" /\ stack' = Idle
            /\ driver' \subseteq driver \union {outboxBuf[stack.entry]}
        BY <2>10 DEF SendOut, outVars
      <3>2. QED
        BY <2>3, <3>1 DEF Followed, OnlyItsPacket, Idle
    <2>11. ASSUME NEW p \in TxPbuf, Transmit(p)
           PROVE  Followed'
      <3>1. /\ UNCHANGED <<outboxBuf, outboxHead, outbox, daemon, stack>>
            /\ driver' = driver \ {p} /\ p \in driver
            /\ stamped' = stamped \union {p}
        BY <2>2, <2>11 DEF Transmit, outVars
      <3>2. daemon.at = "waiting" => p = daemon.pbuf
        BY <2>3, <3>1 DEF Followed
      <3>3. QED
        BY <2>3, <3>1, <3>2 DEF Followed, OnlyItsPacket
    <2>12. QED
      BY <2>4, <2>5, <2>6, <2>7, <2>8, <2>9, <2>10, <2>11 DEF Next
  <1>3. Waits /\ Follows => OwnTimestamp
    BY DEF Waits, Follows, Followed, OwnTimestamp
  <1>4. QED
    BY <1>1, <1>2, <1>3, ShapeCorrect, CalledForCorrect, WaitsCorrect, PTL DEF Spec
=============================================================================
