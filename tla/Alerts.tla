------------------------------- MODULE Alerts -------------------------------
(***************************************************************************)
(* How the ptpd thread is woken up: the mailbox ptpAlert of                *)
(* src/src/lwip-ptp.c, which netRecvCallback of src/src/net.c (in the      *)
(* thread of TCP/IP) and lwipPtpTimerExpired (wherever the platform's      *)
(* timers run) post to, and the inboxes of the two UDP ports, of which     *)
(* each call of doState reads at most one packet.                          *)
(*                                                                         *)
(* An alert says nothing of its cause and a full mailbox drops it, so the  *)
(* thread must not block while packets wait that no alert stands for.      *)
(* Packets are counted: what they contain, and their buffers, is not       *)
(* modelled.                                                               *)
(***************************************************************************)
EXTENDS Integers

CONSTANTS QueueSize,   \* PBUF_QUEUE_SIZE, the size of an inbox
          AlertSize    \* the size of ptpAlert

\* Every packet of both inboxes, and a receipt timeout, can have its alert.
ASSUME SizeAssumption == /\ QueueSize \in Nat \ {0}
                         /\ AlertSize \in Nat
                         /\ AlertSize >= 2 * QueueSize + 1

VARIABLES
  pc,        \* where the thread is: blocked, or in doState
  inbox,     \* the number of packets in each inbox
  alerts,    \* the number of alerts in ptpAlert
  callback,  \* netRecvCallback: "posted" between a packet and its alert
  expiry,    \* the timer that has expired and not yet posted its alert
  receipt    \* the receipt timer: "expired" when it has, and since then has
             \* not been checked

vars == <<pc, inbox, alerts, callback, expiry, receipt>>

Handler == {"event", "general"}
Phase == {"blocked", "doState", "handle", "general", "finish"}

\* The first doState has just opened the network and is about to return.
Init ==
  /\ pc = "finish"
  /\ inbox = [h \in Handler |-> 0]
  /\ alerts = 0
  /\ callback = "idle"
  /\ expiry = "none"
  /\ receipt = "running"

(***************************************************************************)
(* The posters.                                                            *)
(***************************************************************************)

\* A mistake: posts to a full mailbox.
PostAlways == alerts' = alerts + 1

\* sys_mbox_trypost(&ptpAlert, NULL).
Post == alerts' = IF alerts < AlertSize THEN alerts + 1 ELSE alerts

\* A packet arrives; netRecvCallback drops it when the inbox is full.
PacketArrives(h) ==
  /\ callback = "idle"
  /\ inbox[h] < QueueSize
  /\ inbox' = [inbox EXCEPT ![h] = @ + 1]
  /\ callback' = "posted"
  /\ UNCHANGED <<pc, alerts, expiry, receipt>>

\* The end of netRecvCallback.
PacketAlert ==
  /\ callback = "posted"
  /\ Post
  /\ callback' = "idle"
  /\ UNCHANGED <<pc, inbox, expiry, receipt>>

\* A timer expires: the announce receipt timer, or one of the others.
TimerExpires(timer) ==
  /\ expiry = "none"
  /\ expiry' = timer
  /\ receipt' = IF timer = "receipt" THEN "expired" ELSE receipt
  /\ UNCHANGED <<pc, inbox, alerts, callback>>

lwipPtpTimerExpired ==
  /\ expiry # "none"
  /\ Post
  /\ expiry' = "none"
  /\ UNCHANGED <<pc, inbox, callback, receipt>>

(***************************************************************************)
(* The thread.                                                             *)
(***************************************************************************)

\* toState may come from many places of doState: initClock empties the event
\* inbox, and a timer that is stopped or started is not expired any more.
MayChangeState ==
  /\ \/ inbox' = inbox
     \/ inbox' = [inbox EXCEPT !["event"] = 0]
  /\ receipt' \in {receipt, "running"}

\* A mistake: takes all the alerts at once.
WakeUpForAll ==
  /\ pc = "blocked"
  /\ alerts > 0
  /\ alerts' = 0
  /\ pc' = "doState"
  /\ UNCHANGED <<inbox, callback, expiry, receipt>>

\* sys_arch_mbox_fetch(&ptpAlert, NULL, 0) returns.
WakeUp ==
  /\ pc = "blocked"
  /\ alerts > 0
  /\ alerts' = alerts - 1
  /\ pc' = "doState"
  /\ UNCHANGED <<inbox, callback, expiry, receipt>>

\* The second switch of doState, and in the third the receipt timeout, after
\* which nothing is received.
CheckTimer ==
  /\ pc = "doState"
  /\ \/ /\ pc' = "handle"
        /\ MayChangeState
        /\ receipt' = "running"
     \/ /\ receipt = "expired"
        /\ receipt' = "running"
        /\ inbox' \in {inbox, [inbox EXCEPT !["event"] = 0]}
        /\ pc' = "blocked"
  /\ UNCHANGED <<alerts, callback, expiry>>

\* A mistake: reads the general port only after an event it could not use.
netRecvEventOnly ==
  /\ pc = "handle"
  /\ IF inbox["event"] > 0
       THEN /\ inbox' = [inbox EXCEPT !["event"] = @ - 1]
            /\ pc' \in {"general", "finish"}
       ELSE /\ pc' = "finish"
            /\ UNCHANGED inbox
  /\ UNCHANGED <<alerts, callback, expiry, receipt>>

\* netRecvEvent: a packet too long or empty is freed, and counts as none.
netRecvEvent ==
  /\ pc = "handle"
  /\ IF inbox["event"] > 0
       THEN /\ inbox' = [inbox EXCEPT !["event"] = @ - 1]
            /\ pc' \in {"general", "finish"}
       ELSE /\ pc' = "general"
            /\ UNCHANGED inbox
  /\ UNCHANGED <<alerts, callback, expiry, receipt>>

netRecvGeneral ==
  /\ pc = "general"
  /\ inbox' = [inbox EXCEPT !["general"] = IF @ > 0 THEN @ - 1 ELSE 0]
  /\ pc' = "finish"
  /\ UNCHANGED <<alerts, callback, expiry, receipt>>

\* What handle does with the packet, and the rest of doState.
Finish ==
  /\ pc = "finish"
  /\ MayChangeState
  /\ pc' = "blocked"
  /\ UNCHANGED <<alerts, callback, expiry>>

Next ==
  \/ \E h \in Handler : PacketArrives(h)
  \/ PacketAlert
  \/ \E timer \in {"receipt", "other"} : TimerExpires(timer)
  \/ lwipPtpTimerExpired
  \/ WakeUp \/ CheckTimer
  \/ netRecvEvent \/ netRecvGeneral
  \/ Finish

Spec == Init /\ [][Next]_vars

(***************************************************************************)
(* Properties.                                                             *)
(***************************************************************************)

\* The values the variables take: no mailbox holds more than its size.
TypeOK ==
  /\ pc \in Phase
  /\ inbox \in [Handler -> 0..QueueSize]
  /\ alerts \in 0..AlertSize
  /\ callback \in {"idle", "posted"}
  /\ expiry \in {"none", "receipt", "other"}
  /\ receipt \in {"running", "expired"}

\* No lost wakeup: the thread blocks for good only when it has read every
\* packet of both inboxes and has seen the receipt timeout, though a full
\* ptpAlert drops alerts and a doState that finds a timeout reads nothing.
NothingForgotten ==
  /\ pc = "blocked"
  /\ alerts = 0
  /\ callback = "idle"
  /\ expiry # "receipt"
  => /\ \A h \in Handler : inbox[h] = 0
     /\ receipt = "running"

Count(p) == IF p THEN 1 ELSE 0

\* Each waiting packet, and the timeout that is due, has an alert of its own:
\* in the mailbox, about to be posted, or taken by the thread for this doState.
Due == Count(receipt = "expired")
Posted == alerts + Count(callback = "posted") + Count(expiry = "receipt")
Reading == Count(pc \in {"doState", "handle", "general"})
AlertForEach ==
  /\ inbox["event"] + inbox["general"] + Due <= Posted + Reading
  /\ pc = "handle" => Due <= Posted
  /\ pc = "general" => inbox["event"] + Due <= Posted
=============================================================================
