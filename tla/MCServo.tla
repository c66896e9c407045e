------------------------------- MODULE MCServo -------------------------------
(***************************************************************************)
(* Servo with words of 6 bits and seconds of 15: small and large parts of  *)
(* a second on both sides of a second's boundary.                          *)
(***************************************************************************)
EXTENDS Servo

MCOrder == [offset |-> 1, delay |-> 3]
MCInstants == [seconds : {0, 1}, nanoseconds : {0, 14}]
  \union {[seconds |-> 0, nanoseconds |-> 6]}

\* None, and a little more than 3 nanoseconds back.
MCCorrections == {0, -(3 * 65536 + 5)}
=============================================================================
