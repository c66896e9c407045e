---------------------------- MODULE AlertsProofs ----------------------------
(***************************************************************************)
(* No wakeup of the ptpd thread is lost, for every size of the inboxes and *)
(* every ptpAlert that can hold an alert for each of their packets and one *)
(* for the receipt timeout.                                                *)
(***************************************************************************)
EXTENDS Alerts, TLAPS

USE SizeAssumption

(***************************************************************************)
(* Types.                                                                  *)
(***************************************************************************)

\* No inbox and no alert mailbox holds more than its size.
THEOREM TypeCorrect == Spec => []TypeOK
PROOF
  <1>1. Init => TypeOK
    BY DEF Init, TypeOK, Phase, Handler
  <1>2. TypeOK /\ [Next]_vars => TypeOK'
    <2> SUFFICES ASSUME TypeOK, [Next]_vars PROVE TypeOK'
      OBVIOUS
    <2>1. CASE \E h \in Handler : PacketArrives(h)
      BY <2>1 DEF TypeOK, PacketArrives, Handler
    <2>2. CASE PacketAlert \/ lwipPtpTimerExpired
      BY <2>2 DEF TypeOK, PacketAlert, lwipPtpTimerExpired, Post
    <2>3. CASE \E timer \in {"receipt", "other"} : TimerExpires(timer)
      BY <2>3 DEF TypeOK, TimerExpires
    <2>4. CASE WakeUp
      BY <2>4 DEF TypeOK, WakeUp, Phase
    <2>5. CASE CheckTimer \/ Finish
      <3>1. /\ inbox' \in {inbox, [inbox EXCEPT !["event"] = 0]}
            /\ receipt' \in {receipt, "running"}
            /\ pc' \in Phase
            /\ UNCHANGED <<alerts, callback, expiry>>
        BY <2>5 DEF CheckTimer, Finish, MayChangeState, Phase
      <3>2. QED
        BY <3>1 DEF TypeOK
    <2>6. CASE netRecvEvent \/ netRecvGeneral
      BY <2>6 DEF TypeOK, netRecvEvent, netRecvGeneral, Phase, Handler
    <2>7. CASE UNCHANGED vars
      BY <2>7 DEF TypeOK, vars
    <2>8. QED
      BY <2>1, <2>2, <2>3, <2>4, <2>5, <2>6, <2>7 DEF Next
  <1>3. QED
    BY <1>1, <1>2, PTL DEF Spec

(***************************************************************************)
(* The inductive invariant: an alert for each packet.                      *)
(***************************************************************************)

\* Each waiting packet, and the receipt timeout, has an alert of its own.
THEOREM AlertsCorrect == Spec => []AlertForEach
PROOF
  <1> USE DEF AlertForEach, Posted, Due, Reading, Count
  <1>1. Init => AlertForEach
    BY DEF Init, Handler
  <1>2. TypeOK /\ AlertForEach /\ [Next]_vars => AlertForEach'
    <2> SUFFICES ASSUME TypeOK, AlertForEach, [Next]_vars PROVE AlertForEach'
      OBVIOUS
    <2>1. /\ inbox["event"] \in 0..QueueSize /\ inbox["general"] \in 0..QueueSize
          /\ inbox \in [{"event", "general"} -> 0..QueueSize]
          /\ alerts \in 0..AlertSize
      BY DEF TypeOK, Handler
    <2>2. ASSUME NEW h \in {"event", "general"}, PacketArrives(h)
          PROVE  AlertForEach'
      BY <2>1, <2>2 DEF PacketArrives
    <2>3. CASE PacketAlert
      BY <2>1, <2>3 DEF PacketAlert, Post
    <2>4. CASE lwipPtpTimerExpired
      BY <2>1, <2>4 DEF lwipPtpTimerExpired, Post
    <2>5. ASSUME NEW timer \in {"receipt", "other"}, TimerExpires(timer)
          PROVE  AlertForEach'
      BY <2>1, <2>5 DEF TimerExpires
    <2>6. CASE WakeUp
      BY <2>1, <2>6 DEF WakeUp
    <2>7. CASE CheckTimer
      BY <2>1, <2>7 DEF CheckTimer, MayChangeState
    <2>8. CASE netRecvEvent
      BY <2>1, <2>8 DEF netRecvEvent
    <2>9. CASE netRecvGeneral
      BY <2>1, <2>9 DEF netRecvGeneral
    <2>10. CASE Finish
      BY <2>1, <2>10 DEF Finish, MayChangeState
    <2>11. CASE UNCHANGED vars
      BY <2>11 DEF vars
    <2>12. QED
      BY <2>2, <2>3, <2>4, <2>5, <2>6, <2>7, <2>8, <2>9, <2>10, <2>11
      DEF Next, Handler
  <1>3. QED
    BY <1>1, <1>2, TypeCorrect, PTL DEF Spec

\* No lost wakeup: when the thread blocks with no alert there or on its way, it
\* has read every packet and seen the receipt timeout.
THEOREM WakeupsCorrect == Spec => []NothingForgotten
PROOF
  <1>1. TypeOK /\ AlertForEach => NothingForgotten
    <2>1. TypeOK => /\ inbox["event"] \in Nat /\ inbox["general"] \in Nat
                    /\ receipt \in {"running", "expired"}
      BY DEF TypeOK, Handler
    <2>2. QED
      BY <2>1 DEF AlertForEach, NothingForgotten, Posted, Due, Reading, Count,
                  Handler
  <1>2. QED
    BY <1>1, TypeCorrect, AlertsCorrect, PTL
=============================================================================
