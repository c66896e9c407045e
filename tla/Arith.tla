-------------------------------- MODULE Arith --------------------------------
(***************************************************************************)
(* The time arithmetic of src/src/arith.c.  A time, or a difference of     *)
(* times, is a pair of seconds and nanoseconds; a result is in normal form *)
(* when its nanoseconds are less than a second and both parts have the     *)
(* same sign.  Integers are unbounded here: a result of two times in       *)
(* normal form has at most two seconds in its nanoseconds before it is     *)
(* normalised, which 32 bits hold (Servo cuts its filter to a word).       *)
(***************************************************************************)
EXTENDS Integers

CONSTANT Second   \* the nanoseconds of a second, 1000000000

ASSUME SecondAssumption == Second \in Nat \ {0}

Time == [seconds : Int, nanoseconds : Int]
ZeroTime == [seconds |-> 0, nanoseconds |-> 0]

\* Division in C truncates towards zero.
Quotient(n, d) == IF n >= 0 THEN n \div d ELSE -((-n) \div d)
Remainder(n, d) == n - d * Quotient(n, d)

\* The whole seconds of the nanoseconds are carried.
Carried(t) ==
  [seconds |-> t.seconds + Quotient(t.nanoseconds, Second),
   nanoseconds |-> Remainder(t.nanoseconds, Second)]

\* A mistake: the two parts may differ in sign.
normalizeTimeCarrying(t) == Carried(t)

normalizeTime(t) ==
  LET r == Carried(t)
  IN  IF r.seconds > 0 /\ r.nanoseconds < 0
        THEN [seconds |-> r.seconds - 1, nanoseconds |-> r.nanoseconds + Second]
      ELSE IF r.seconds < 0 /\ r.nanoseconds > 0
        THEN [seconds |-> r.seconds + 1, nanoseconds |-> r.nanoseconds - Second]
      ELSE r

addTime(x, y) ==
  normalizeTime([seconds |-> x.seconds + y.seconds,
                 nanoseconds |-> x.nanoseconds + y.nanoseconds])

subTime(x, y) ==
  normalizeTime([seconds |-> x.seconds - y.seconds,
                 nanoseconds |-> x.nanoseconds - y.nanoseconds])

\* An odd second goes to the nanoseconds, with its sign.
div2Time(t) ==
  normalizeTime(
    [seconds |-> Quotient(t.seconds, 2),
     nanoseconds |->
       Quotient(t.nanoseconds + Remainder(t.seconds, 2) * Second, 2)])

\* A correction field counts 2^-16 nanoseconds; their fraction is cut off.
WholeNanoseconds(n) == (IF n < 0 THEN -n ELSE n) \div 65536
Sign(n) == IF n < 0 THEN -1 ELSE 1

scaledNanosecondsToInternalTime(n) ==
  [seconds |-> Sign(n) * (WholeNanoseconds(n) \div Second),
   nanoseconds |-> Sign(n) * (WholeNanoseconds(n) % Second)]

\* 1 << n.
Power[n \in Nat] == IF n = 0 THEN 1 ELSE 2 * Power[n - 1]

\* One step of the binary search of floorLog2; `power' is 1 << bits.
Halved(bits, power, r) ==
  IF r.n >= power THEN [n |-> r.n \div power, pos |-> r.pos + bits] ELSE r

floorLog2(n) ==
  IF n = 0 THEN -1
  ELSE Halved(1, 2, Halved(2, 4, Halved(4, 16, Halved(8, 256, Halved(16, 65536,
         [n |-> n, pos |-> 0]))))).pos

(***************************************************************************)
(* What the results are compared with.                                     *)
(***************************************************************************)

\* The length of a time in nanoseconds.
Value(t) == t.seconds * Second + t.nanoseconds

IsNormal(t) ==
  /\ -Second < t.nanoseconds /\ t.nanoseconds < Second
  /\ ~(t.seconds > 0 /\ t.nanoseconds < 0)
  /\ ~(t.seconds < 0 /\ t.nanoseconds > 0)
=============================================================================
