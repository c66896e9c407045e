----------------------------- MODULE ServoProofs -----------------------------
(***************************************************************************)
(* The arithmetic of Arith is exact and yields normal forms, for every     *)
(* length of a second, and so is what the servo measures.                  *)
(***************************************************************************)
EXTENDS Servo, SetInduction, TLAPS

\* Truncating division, for positive divisors.
LEMMA QuotientFacts ==
  ASSUME NEW n \in Int, NEW d \in Nat \ {0}
  PROVE  /\ Quotient(n, d) \in Int /\ Remainder(n, d) \in Int
         /\ n = d * Quotient(n, d) + Remainder(n, d)
         /\ -d < Remainder(n, d) /\ Remainder(n, d) < d
         /\ n >= 0 => Remainder(n, d) >= 0 /\ Quotient(n, d) >= 0
         /\ n <= 0 => Remainder(n, d) <= 0 /\ Quotient(n, d) <= 0
<1>1. CASE n >= 0
  <2> DEFINE q == n \div d
             r == n % d
  <2>1. q \in Nat /\ r \in 0..(d - 1) /\ n = d * q + r
    BY <1>1
  <2>2. Quotient(n, d) = q /\ Remainder(n, d) = n - d * q
    BY <1>1 DEF Quotient, Remainder
  <2>3. d * q \in Int
    BY <2>1
  <2>4. n - d * q = r
    BY <2>1, <2>3
  <2> HIDE DEF q, r
  <2>5. Quotient(n, d) = q /\ Remainder(n, d) = r
    BY <2>2, <2>4
  <2>6. n = 0 => q = 0 /\ r = 0
    BY <2>1
  <2> QED  BY <1>1, <2>1, <2>5, <2>6
<1>2. CASE n < 0
  <2> DEFINE q == (-n) \div d
             r == (-n) % d
  <2>1. q \in Nat /\ r \in 0..(d - 1) /\ -n = d * q + r
    BY <1>2
  <2>2. Quotient(n, d) = -q /\ Remainder(n, d) = n - d * (-q)
    BY <1>2 DEF Quotient, Remainder
  <2> HIDE DEF q, r
  <2>3. d * (-q) = -(d * q) /\ d * q \in Int
    BY <2>1
  <2>4. Quotient(n, d) = -q /\ Remainder(n, d) = -r
    BY <2>1, <2>2, <2>3
  <2>5. n = d * (-q) + (-r)
    BY <2>1, <2>3
  <2> QED  BY <1>2, <2>1, <2>4, <2>5
<1> QED  BY <1>1, <1>2

\* normalizeTime keeps the length of a time.
LEMMA NormalizeExact ==
  ASSUME NEW t \in Time
  PROVE  /\ normalizeTime(t) \in Time
         /\ IsNormal(normalizeTime(t))
         /\ Value(normalizeTime(t)) = Value(t)
<1> DEFINE r == Carried(t)
           q == Quotient(t.nanoseconds, Second)
<1>1. t.seconds \in Int /\ t.nanoseconds \in Int /\ Second \in Nat \ {0}
  BY SecondAssumption DEF Time
<1>2. /\ q \in Int /\ Remainder(t.nanoseconds, Second) \in Int
      /\ t.nanoseconds = Second * q + Remainder(t.nanoseconds, Second)
      /\ -Second < Remainder(t.nanoseconds, Second)
      /\ Remainder(t.nanoseconds, Second) < Second
  BY <1>1, QuotientFacts
<1>3. r.seconds = t.seconds + q /\ r.nanoseconds = Remainder(t.nanoseconds, Second)
  BY DEF Carried
<1>4. r.seconds \in Int /\ r.nanoseconds \in Int /\ r \in Time
  BY <1>1, <1>2, <1>3 DEF Carried, Time
<1>5. r.seconds * Second + r.nanoseconds = t.seconds * Second + t.nanoseconds
  BY <1>1, <1>2, <1>3
<1>6. CASE r.seconds > 0 /\ r.nanoseconds < 0
  <2>1. normalizeTime(t) =
          [seconds |-> r.seconds - 1, nanoseconds |-> r.nanoseconds + Second]
    BY <1>6 DEF normalizeTime
  <2>2. (r.seconds - 1) * Second + (r.nanoseconds + Second)
          = r.seconds * Second + r.nanoseconds
    BY <1>1, <1>4
  <2> QED  BY <1>1, <1>2, <1>3, <1>4, <1>5, <1>6, <2>1, <2>2
           DEF Time, Value, IsNormal
<1>7. CASE r.seconds < 0 /\ r.nanoseconds > 0
  <2>1. normalizeTime(t) =
          [seconds |-> r.seconds + 1, nanoseconds |-> r.nanoseconds - Second]
    BY <1>1, <1>4, <1>7 DEF normalizeTime
  <2>2. (r.seconds + 1) * Second + (r.nanoseconds - Second)
          = r.seconds * Second + r.nanoseconds
    BY <1>1, <1>4
  <2> QED  BY <1>1, <1>2, <1>3, <1>4, <1>5, <1>7, <2>1, <2>2
           DEF Time, Value, IsNormal
<1>8. CASE /\ ~(r.seconds > 0 /\ r.nanoseconds < 0)
           /\ ~(r.seconds < 0 /\ r.nanoseconds > 0)
  <2>1. normalizeTime(t) = r
    BY <1>8 DEF normalizeTime
  <2> QED  BY <1>1, <1>2, <1>3, <1>4, <1>5, <1>8, <2>1 DEF Value, IsNormal
<1> QED  BY <1>6, <1>7, <1>8

\* addTime and subTime of any two times are exact, and in normal form.
THEOREM AddTimeExact ==
  ASSUME NEW x \in Time, NEW y \in Time
  PROVE  /\ addTime(x, y) \in Time /\ IsNormal(addTime(x, y))
         /\ Value(addTime(x, y)) = Value(x) + Value(y)
<1> DEFINE t == [seconds |-> x.seconds + y.seconds,
                 nanoseconds |-> x.nanoseconds + y.nanoseconds]
<1>1. t \in Time /\ addTime(x, y) = normalizeTime(t)
  BY DEF Time, addTime
<1>2. Value(t) = Value(x) + Value(y)
  BY SecondAssumption DEF Time, Value
<1> HIDE DEF t
<1> QED  BY <1>1, <1>2, NormalizeExact

\* subTime is exact too, whichever of the times is longer, and in normal form.
THEOREM SubTimeExact ==
  ASSUME NEW x \in Time, NEW y \in Time
  PROVE  /\ subTime(x, y) \in Time /\ IsNormal(subTime(x, y))
         /\ Value(subTime(x, y)) = Value(x) - Value(y)
<1> DEFINE t == [seconds |-> x.seconds - y.seconds,
                 nanoseconds |-> x.nanoseconds - y.nanoseconds]
<1>1. t \in Time /\ subTime(x, y) = normalizeTime(t)
  BY DEF Time, subTime
<1>2. Value(t) = Value(x) - Value(y)
  BY SecondAssumption DEF Time, Value
<1> HIDE DEF t
<1> QED  BY <1>1, <1>2, NormalizeExact

\* Half of an even number and of the rest, with the same sign.
LEMMA HalfOfSum ==
  ASSUME NEW a \in Int, NEW m \in Int,
         (a >= 0 /\ m >= 0) \/ (a <= 0 /\ m <= 0)
  PROVE  Quotient(2 * a + m, 2) = a + Quotient(m, 2)
<1>1. CASE a >= 0 /\ m >= 0
  <2>1. (2 * a + m) \div 2 = a + (m \div 2)
    OBVIOUS
  <2> QED  BY <1>1, <2>1 DEF Quotient
<1>2. CASE a <= 0 /\ m <= 0 /\ ~(a = 0 /\ m = 0)
  <2>1. 2 * a + m < 0
    BY <1>2
  <2>2. (-(2 * a + m)) \div 2 = (-a) + ((-m) \div 2)
    OBVIOUS
  <2>3. m = 0 => m \div 2 = 0 /\ (-m) \div 2 = 0
    OBVIOUS
  <2> QED  BY <1>2, <2>1, <2>2, <2>3 DEF Quotient
<1> QED  BY <1>1, <1>2

\* div2Time halves a time in normal form, truncating towards zero.
THEOREM HalfExact ==
  ASSUME NEW t \in Time, IsNormal(t)
  PROVE  /\ div2Time(t) \in Time /\ IsNormal(div2Time(t))
         /\ Value(div2Time(t)) = Quotient(Value(t), 2)
<1> DEFINE q == Quotient(t.seconds, 2)
           r == Remainder(t.seconds, 2)
           m == t.nanoseconds + r * Second
           h == [seconds |-> q, nanoseconds |-> Quotient(m, 2)]
<1>1. t.seconds \in Int /\ t.nanoseconds \in Int /\ Second \in Nat \ {0}
  BY SecondAssumption DEF Time
<1>2. /\ q \in Int /\ r \in Int
      /\ t.seconds = 2 * q + r
      /\ -2 < r /\ r < 2
      /\ t.seconds >= 0 => r >= 0 /\ q >= 0
      /\ t.seconds <= 0 => r <= 0 /\ q <= 0
  <2>1. 2 \in Nat \ {0} /\ t.seconds \in Int
    BY <1>1
  <2> HIDE DEF q, r
  <2> QED  BY ONLY <2>1, QuotientFacts DEF q, r
<1> HIDE DEF q, r
<1>3. m \in Int /\ r * Second \in {-Second, 0, Second} /\ q * Second \in Int
      /\ (r >= 0 => r * Second >= 0) /\ (r <= 0 => r * Second <= 0)
      /\ (q >= 0 => q * Second >= 0) /\ (q <= 0 => q * Second <= 0)
  BY <1>1, <1>2
<1>4. \/ q * Second >= 0 /\ m >= 0
      \/ q * Second <= 0 /\ m <= 0
  BY <1>1, <1>2, <1>3 DEF IsNormal
<1>5. Value(t) = 2 * (q * Second) + m
  BY <1>1, <1>2, <1>3 DEF Value
<1>6. h \in Time /\ Value(h) = q * Second + Quotient(m, 2)
  BY <1>2, <1>3, QuotientFacts DEF Time, Value
<1>7. div2Time(t) = normalizeTime(h)
  BY DEF div2Time, q, r
<1> HIDE DEF m, h
<1>8. Quotient(Value(t), 2) = Value(h)
  BY <1>3, <1>4, <1>5, <1>6, HalfOfSum
<1> QED  BY <1>6, <1>7, <1>8, NormalizeExact

\* A correction field is cut to whole nanoseconds, towards zero.
THEOREM CorrectionExact ==
  ASSUME NEW n \in Int
  PROVE  /\ scaledNanosecondsToInternalTime(n) \in Time
         /\ IsNormal(scaledNanosecondsToInternalTime(n))
         /\ Value(scaledNanosecondsToInternalTime(n)) = Quotient(n, 65536)
<1> DEFINE a == WholeNanoseconds(n)
           q == a \div Second
           r == a % Second
           t == scaledNanosecondsToInternalTime(n)
<1>1. a \in Nat /\ Second \in Nat \ {0}
  BY SecondAssumption DEF WholeNanoseconds
<1>2. Quotient(n, 65536) = IF n < 0 THEN -a ELSE a
  BY DEF Quotient, WholeNanoseconds
<1>3. t.seconds = Sign(n) * q /\ t.nanoseconds = Sign(n) * r
      /\ t = [seconds |-> t.seconds, nanoseconds |-> t.nanoseconds]
  BY DEF scaledNanosecondsToInternalTime
<1> HIDE DEF a, t
<1>4. q \in Nat /\ r \in 0..(Second - 1) /\ a = Second * q + r
  BY <1>1
<1> HIDE DEF q, r
<1>5. q * Second \in Int /\ (-1 * q) * Second = -(q * Second)
      /\ a = q * Second + r
  BY <1>1, <1>4
<1>6. CASE n < 0
  <2>1. t.seconds = -q /\ t.nanoseconds = -r /\ t \in Time
    BY <1>3, <1>4, <1>6 DEF Time, Sign
  <2>2. t.seconds * Second = -(q * Second)
    BY <1>1, <1>4, <1>5, <2>1
  <2>3. IsNormal(t) /\ Value(t) = -a
    BY <1>1, <1>4, <1>5, <2>1, <2>2 DEF IsNormal, Value
  <2> QED  BY <1>2, <1>6, <2>1, <2>3 DEF t
<1>7. CASE ~(n < 0)
  <2>1. t.seconds = q /\ t.nanoseconds = r /\ t \in Time
    BY <1>3, <1>4, <1>7 DEF Time, Sign
  <2>2. IsNormal(t) /\ Value(t) = a
    BY <1>1, <1>4, <1>5, <2>1 DEF IsNormal, Value
  <2> QED  BY <1>2, <1>7, <2>1, <2>2 DEF t
<1> QED  BY <1>6, <1>7

\* A measured time in normal form, of its true length.
IsExact(m) == m.time \in Time /\ IsNormal(m.time) /\ Value(m.time) = m.truth

\* What updateOffset computes before it filters.
LEMMA OffsetExact ==
  ASSUME NEW ingress \in Instants, NEW origin \in Instants,
         NEW correction \in Corrections, NEW delay \in Instants
  PROVE  IsExact(Offset(ingress, origin, correction, delay))
<1> DEFINE c == scaledNanosecondsToInternalTime(correction)
           d == subTime(ingress, origin)
           Tms == subTime(d, c)
           o == Offset(ingress, origin, correction, delay)
<1>1. /\ ingress \in Time /\ origin \in Time /\ delay \in Time
      /\ correction \in Int /\ Second \in Nat
  BY ReadingsAssumption, SecondAssumption
<1>2. c \in Time /\ Value(c) = Quotient(correction, 65536)
  BY <1>1, CorrectionExact
<1>3. d \in Time /\ Value(d) = Value(ingress) - Value(origin)
  BY <1>1, SubTimeExact
<1>4. Tms \in Time /\ Value(Tms) = Value(d) - Value(c)
  BY <1>2, <1>3, SubTimeExact
<1>5. /\ o.time \in Time /\ IsNormal(o.time)
      /\ Value(o.time) = Value(Tms) - Value(delay)
  BY <1>1, <1>4, SubTimeExact DEF Offset
<1>6. o.truth = Value(ingress) - Value(origin) - Quotient(correction, 65536)
                  - Value(delay)
  BY DEF Offset
<1> QED  BY <1>2, <1>3, <1>4, <1>5, <1>6 DEF IsExact

\* What updateDelay and updatePeerDelay compute before they filter.
LEMMA DelayExact ==
  ASSUME NEW sent \in Instants, NEW received \in Instants,
         NEW answered \in Instants, NEW heard \in Instants
  PROVE  IsExact(Delay(sent, received, answered, heard))
<1> DEFINE x == subTime(received, sent)
           y == subTime(heard, answered)
           both == addTime(x, y)
           d == Delay(sent, received, answered, heard)
<1>1. /\ sent \in Time /\ received \in Time /\ answered \in Time
      /\ heard \in Time
      /\ \A t \in Time : Value(t) \in Int
  BY ReadingsAssumption, SecondAssumption DEF Time, Value
<1>2. x \in Time /\ Value(x) = Value(received) - Value(sent)
  BY <1>1, SubTimeExact
<1>3. y \in Time /\ Value(y) = Value(heard) - Value(answered)
  BY <1>1, SubTimeExact
<1>4. both \in Time /\ IsNormal(both) /\ Value(both) = Value(x) + Value(y)
  BY <1>2, <1>3, AddTimeExact
<1>5. Value(both) = Value(received) - Value(sent) + Value(heard) - Value(answered)
  BY <1>1, <1>2, <1>3, <1>4
<1>6. /\ d.time \in Time /\ IsNormal(d.time)
      /\ Value(d.time) = Quotient(Value(both), 2)
  BY <1>4, HalfExact DEF Delay
<1>7. d.truth = Quotient(Value(received) - Value(sent)
                           + Value(heard) - Value(answered), 2)
  BY DEF Delay
<1> QED  BY <1>5, <1>6, <1>7 DEF IsExact

\* A measurement replaces the last by an exact one, the rest keep it.
LEMMA TimesStep == TimesExact /\ [Next]_vars => TimesExact'
<1> SUFFICES ASSUME TimesExact, [Next]_vars PROVE TimesExact'
  OBVIOUS
<1>1. ASSUME NEW offset \in Offsets, MeasureOffset(offset) PROVE TimesExact'
  <2>1. IsExact(offset)
    BY OffsetExact DEF Offsets
  <2> QED  BY <1>1, <2>1 DEF MeasureOffset, TimesExact, IsExact, IsNormal, Value
<1>2. ASSUME NEW delay \in Delays, MeasureDelay(delay) PROVE TimesExact'
  <2>1. IsExact(delay)
    BY DelayExact DEF Delays
  <2> QED  BY <1>2, <2>1 DEF MeasureDelay, TimesExact, IsExact, IsNormal, Value
<1>3. CASE MeasureAgain
  BY <1>3 DEF MeasureAgain, TimesExact, IsNormal, Value
<1>4. CASE Restart
  BY <1>4 DEF Restart, TimesExact, IsNormal, Value
<1>5. CASE BecomeSteady
  BY <1>5 DEF BecomeSteady, TimesExact, IsNormal, Value
<1>6. CASE UNCHANGED vars
  BY <1>6 DEF vars, TimesExact, IsNormal, Value
<1> QED  BY <1>1, <1>2, <1>3, <1>4, <1>5, <1>6 DEF Next

\* The servo filters and acts on exact offsets and delays in normal form,
\* whatever the length of a second and the readings of the clocks.
THEOREM MeasurementsExact == Spec => []TimesExact
<1>1. Init => TimesExact
  BY SecondAssumption DEF Init, TimesExact, IsNormal, Value, ZeroTime
<1>2. TimesExact /\ [Next]_vars => TimesExact'
  BY TimesStep
<1> QED  BY <1>1, <1>2, PTL DEF Spec

(***************************************************************************)
(* Powers of two.                                                          *)
(***************************************************************************)

\* Power is what its recursive definition says.
LEMMA PowerFacts ==
  /\ Power[0] = 1
  /\ \A n \in Nat : Power[n + 1] = 2 * Power[n]
<1> DEFINE step == [k \in Nat |-> 2 * k]
           Def(f) == [n \in Nat |-> IF n = 0 THEN 1 ELSE 2 * f[n - 1]]
<1>1. \E f : f = Def(f)
  <2>1. step \in Steps(Nat) /\ 1 \in Nat
    BY DEF Steps
  <2>2. PICK f : Iterated(Nat, 1, step, f)
    <3> HIDE DEF step
    <3> QED  BY <2>1, Iteration
  <2>3. \A n \in Nat : f[n + 1] = 2 * f[n]
    BY <2>2 DEF Iterated
  <2>4. ASSUME NEW n \in Nat PROVE f[n] = IF n = 0 THEN 1 ELSE 2 * f[n - 1]
    <3>1. CASE n = 0
      BY <2>2, <3>1 DEF Iterated
    <3>2. CASE n # 0
      <4>1. n - 1 \in Nat /\ (n - 1) + 1 = n
        BY <3>2
      <4> QED  BY <2>3, <3>2, <4>1
    <3> QED  BY <3>1, <3>2
  <2>5. f = Def(f)
    BY <2>2, <2>4 DEF Iterated
  <2> QED  BY <2>5
<1>2. Power = Def(Power)
  <2>1. Power = CHOOSE f : f = Def(f)
    BY DEF Power
  <2> HIDE DEF Def
  <2> QED  BY <1>1, <2>1
<1>3. \A n \in Nat : Power[n] = IF n = 0 THEN 1 ELSE 2 * Power[n - 1]
  <2>1. \A f : f = Def(f) =>
               \A n \in Nat : f[n] = IF n = 0 THEN 1 ELSE 2 * f[n - 1]
    OBVIOUS
  <2> HIDE DEF Def
  <2> QED  BY <1>2, <2>1
<1>4. ASSUME NEW n \in Nat PROVE Power[n + 1] = 2 * Power[n]
  <2>1. n + 1 \in Nat /\ n + 1 # 0 /\ (n + 1) - 1 = n
    OBVIOUS
  <2> QED  BY <1>3, <2>1
<1> QED  BY <1>3, <1>4

\* Powers are positive.
LEMMA PowerPositive == \A n \in Nat : Power[n] \in Nat \ {0}
<1> DEFINE S == {n \in Nat : Power[n] \in Nat \ {0}}
<1>1. 0 \in S
  BY PowerFacts
<1>2. \A n \in Nat : n \in S => n + 1 \in S
  BY PowerFacts
<1> HIDE DEF S
<1>3. Nat \subseteq S
  BY <1>1, <1>2, Induction
<1> QED  BY <1>3 DEF S

\* A shift by r + s is a shift by r and one by s.
LEMMA PowerOfSum ==
  ASSUME NEW r \in Nat
  PROVE  \A s \in Nat : Power[r + s] = Power[r] * Power[s]
<1> DEFINE S == {s \in Nat : Power[r + s] = Power[r] * Power[s]}
<1>1. Power[r] \in Nat
  BY PowerPositive
<1>2. 0 \in S
  BY <1>1, PowerFacts
<1>3. ASSUME NEW s \in Nat, s \in S PROVE s + 1 \in S
  <2>1. /\ Power[s] \in Nat /\ r + s \in Nat
        /\ Power[r + s] = Power[r] * Power[s]
    BY <1>3, PowerPositive
  <2>2. Power[s + 1] = 2 * Power[s] /\ Power[(r + s) + 1] = 2 * Power[r + s]
    BY <2>1, PowerFacts
  <2>3. (r + s) + 1 = r + (s + 1)
    OBVIOUS
  <2>4. \A a, b \in Nat : 2 * (a * b) = a * (2 * b)
    OBVIOUS
  <2>5. Power[r + (s + 1)] = Power[r] * Power[s + 1]
    BY <1>1, <2>1, <2>2, <2>3, <2>4
  <2> QED  BY <2>5
<1> HIDE DEF S
<1>4. Nat \subseteq S
  BY <1>2, <1>3, Induction
<1> QED  BY <1>4 DEF S

\* The greater the shift, the greater the power.
LEMMA PowerMonotone ==
  ASSUME NEW m \in Nat, NEW n \in Nat
  PROVE  /\ m <= n => Power[m] <= Power[n]
         /\ Power[m] < Power[n] => m < n
<1>1. ASSUME NEW a \in Nat, NEW b \in Nat, a <= b PROVE Power[a] <= Power[b]
  <2>1. b - a \in Nat /\ a + (b - a) = b
    BY <1>1
  <2>2. Power[b] = Power[a] * Power[b - a]
    BY <2>1, PowerOfSum
  <2>3. Power[a] \in Nat \ {0} /\ Power[b - a] \in Nat \ {0}
    BY <2>1, PowerPositive
  <2>4. \A p, q \in Nat \ {0} : p <= p * q
    OBVIOUS
  <2> QED  BY <2>2, <2>3, <2>4
<1>2. Power[m] \in Nat /\ Power[n] \in Nat
  BY PowerPositive
<1> QED  BY <1>1, <1>2

(***************************************************************************)
(* floorLog2.                                                              *)
(***************************************************************************)

\* How far the search has come: r.n is what is left of n after r.pos shifts.
Searched(n, r) ==
  /\ r.n \in Nat \ {0} /\ r.pos \in Nat
  /\ r.n * Power[r.pos] <= n /\ n < (r.n + 1) * Power[r.pos]

\* A step of the search shifts by `bits' where the rest has that many.
LEMMA HalvedSearches ==
  ASSUME NEW n \in Nat, NEW bits \in Nat, NEW power, power = Power[bits],
         NEW r, Searched(n, r)
  PROVE  /\ Searched(n, Halved(bits, power, r))
         /\ Halved(bits, power, r).pos <= r.pos + bits
         /\ Halved(bits, power, r).pos >= r.pos
         /\ r.n < power * power => Halved(bits, power, r).n < power
<1>1. power \in Nat \ {0} /\ r.n \in Nat \ {0} /\ r.pos \in Nat
  BY PowerPositive DEF Searched
<1>2. CASE r.n >= power
  <2> DEFINE q == r.n \div power
             p == Power[r.pos]
  <2>1. Halved(bits, power, r) = [n |-> q, pos |-> r.pos + bits]
    BY <1>2 DEF Halved
  <2>2. q \in Nat /\ power * q <= r.n /\ r.n < power * q + power
    BY <1>1
  <2>3. p \in Nat \ {0} /\ Power[r.pos + bits] = p * power
    BY <1>1, PowerOfSum, PowerPositive
  <2>4. r.n * p <= n /\ n < (r.n + 1) * p
    BY DEF Searched
  <2> HIDE DEF q, p
  <2>5. q # 0
    BY <1>1, <1>2, <2>2
  <2>6. power * q \in Nat /\ (q + 1) * power = power * q + power
    BY <1>1, <2>2
  <2>7. (power * q) * p <= r.n * p /\ (r.n + 1) * p <= ((q + 1) * power) * p
    <3>1. \A a, b, c \in Nat : a <= b => a * c <= b * c
      OBVIOUS
    <3>2. r.n + 1 <= (q + 1) * power /\ (q + 1) * power \in Nat
      BY <1>1, <2>2, <2>6
    <3> QED  BY <1>1, <2>2, <2>3, <2>6, <3>1, <3>2
  <2>8. (power * q) * p = q * (p * power)
        /\ ((q + 1) * power) * p = (q + 1) * (p * power)
    <3>1. \A a, b, c \in Nat : (a * b) * c = b * (c * a) /\ (b * a) * c = b * (c * a)
      OBVIOUS
    <3> QED  BY <1>1, <2>2, <2>3, <3>1
  <2>9. q * (p * power) <= n /\ n < (q + 1) * (p * power)
    <3>1. \A a, b, c, d \in Int : (a <= b /\ b <= n /\ n < c /\ c <= d)
                                    => (a <= n /\ n < d)
      OBVIOUS
    <3>2. /\ (power * q) * p \in Int /\ r.n * p \in Int
          /\ (r.n + 1) * p \in Int /\ ((q + 1) * power) * p \in Int
      BY <1>1, <2>2, <2>3, <2>6
    <3> QED  BY <2>4, <2>7, <2>8, <3>1, <3>2
  <2>10. r.n < power * power => q < power
    <3>1. \A a, b \in Nat : a >= b => b * b <= b * a
      OBVIOUS
    <3> QED  BY <1>1, <2>2, <2>6, <3>1
  <2> QED  BY <1>1, <2>1, <2>2, <2>3, <2>5, <2>9, <2>10 DEF Searched
<1>3. CASE r.n < power
  BY <1>1, <1>3 DEF Halved
<1> QED  BY <1>1, <1>2, <1>3

\* The same for every state of the search, with the power of the step known.
LEMMA HalvedOf ==
  ASSUME NEW n \in Nat
  PROVE  \A bits \in Nat : \A power, r, h :
           power = Power[bits] /\ Searched(n, r) /\ h = Halved(bits, power, r) =>
             /\ Searched(n, h) /\ h.pos <= r.pos + bits
             /\ r.n < power * power => h.n < power
BY HalvedSearches

\* floorLog2 is the place of the highest bit of a number of 32 bits.
THEOREM LogarithmExact ==
  ASSUME NEW n \in Nat \ {0}
  PROVE  /\ floorLog2(n) \in 0..31
         /\ Power[floorLog2(n)] <= n
         /\ n < Power[32] => n < Power[floorLog2(n) + 1]
<1> DEFINE r0 == [n |-> n, pos |-> 0]
           r1 == Halved(16, 65536, r0)
           r2 == Halved(8, 256, r1)
           r3 == Halved(4, 16, r2)
           r4 == Halved(2, 4, r3)
           r5 == Halved(1, 2, r4)
<1>1. floorLog2(n) = r5.pos
  BY DEF floorLog2
<1>2. /\ 2 = Power[1] /\ 4 = Power[2] /\ 16 = Power[4] /\ 256 = Power[8]
      /\ 65536 = Power[16] /\ Power[32] = 65536 * 65536
  <2>1. 2 = Power[1] /\ 4 = Power[2]
    BY PowerFacts
  <2>2. \A k \in Nat : Power[k + k] = Power[k] * Power[k]
    BY PowerOfSum
  <2>3. 16 = Power[2 + 2]
    BY <2>1, <2>2
  <2>4. 256 = Power[4 + 4]
    BY <2>2, <2>3
  <2>5. 65536 = Power[8 + 8]
    BY <2>2, <2>4
  <2>6. Power[16 + 16] = 65536 * 65536
    BY <2>2, <2>5
  <2> QED  BY <2>1, <2>3, <2>4, <2>5, <2>6
<1>3. Searched(n, r0) /\ r0.pos = 0 /\ r0.n = n
  BY PowerFacts DEF Searched
<1> HIDE DEF r0
<1>4. Searched(n, r1) /\ r1.pos <= r0.pos + 16
      /\ (r0.n < 65536 * 65536 => r1.n < 65536)
  <2> HIDE DEF r1
  <2>1. \A r, h : Searched(n, r) /\ h = Halved(16, 65536, r) =>
          /\ Searched(n, h) /\ h.pos <= r.pos + 16
          /\ r.n < 65536 * 65536 => h.n < 65536
    <3>1. 16 \in Nat /\ 65536 = Power[16]
      BY <1>2
    <3> QED  BY <3>1, HalvedOf, SMT
  <2>2. r1 = Halved(16, 65536, r0)
    BY DEF r1
  <2> QED  BY <1>3, <2>1, <2>2
<1> HIDE DEF r1
<1>5. Searched(n, r2) /\ r2.pos <= r1.pos + 8 /\ (r1.n < 256 * 256 => r2.n < 256)
  <2> HIDE DEF r2
  <2>1. \A r, h : Searched(n, r) /\ h = Halved(8, 256, r) =>
          /\ Searched(n, h) /\ h.pos <= r.pos + 8
          /\ r.n < 256 * 256 => h.n < 256
    <3>1. 8 \in Nat /\ 256 = Power[8]
      BY <1>2
    <3> QED  BY <3>1, HalvedOf, SMT
  <2>2. r2 = Halved(8, 256, r1)
    BY DEF r2
  <2> QED  BY <1>4, <2>1, <2>2
<1> HIDE DEF r2
<1>6. Searched(n, r3) /\ r3.pos <= r2.pos + 4 /\ (r2.n < 16 * 16 => r3.n < 16)
  <2> HIDE DEF r3
  <2>1. \A r, h : Searched(n, r) /\ h = Halved(4, 16, r) =>
          /\ Searched(n, h) /\ h.pos <= r.pos + 4
          /\ r.n < 16 * 16 => h.n < 16
    <3>1. 4 \in Nat /\ 16 = Power[4]
      BY <1>2
    <3> QED  BY <3>1, HalvedOf, SMT
  <2>2. r3 = Halved(4, 16, r2)
    BY DEF r3
  <2> QED  BY <1>5, <2>1, <2>2
<1> HIDE DEF r3
<1>7. Searched(n, r4) /\ r4.pos <= r3.pos + 2 /\ (r3.n < 4 * 4 => r4.n < 4)
  <2> HIDE DEF r4
  <2>1. \A r, h : Searched(n, r) /\ h = Halved(2, 4, r) =>
          /\ Searched(n, h) /\ h.pos <= r.pos + 2
          /\ r.n < 4 * 4 => h.n < 4
    <3>1. 2 \in Nat /\ 4 = Power[2]
      BY <1>2
    <3> QED  BY <3>1, HalvedOf, SMT
  <2>2. r4 = Halved(2, 4, r3)
    BY DEF r4
  <2> QED  BY <1>6, <2>1, <2>2
<1> HIDE DEF r4
<1>8. Searched(n, r5) /\ r5.pos <= r4.pos + 1 /\ (r4.n < 2 * 2 => r5.n < 2)
  <2> HIDE DEF r5
  <2>1. \A r, h : Searched(n, r) /\ h = Halved(1, 2, r) =>
          /\ Searched(n, h) /\ h.pos <= r.pos + 1
          /\ r.n < 2 * 2 => h.n < 2
    <3>1. 1 \in Nat /\ 2 = Power[1]
      BY <1>2
    <3> QED  BY <3>1, HalvedOf, SMT
  <2>2. r5 = Halved(1, 2, r4)
    BY DEF r5
  <2> QED  BY <1>7, <2>1, <2>2
<1> HIDE DEF r5
<1>9. r5.pos \in 0..31
  <2>1. /\ r1.pos \in Nat /\ r2.pos \in Nat /\ r3.pos \in Nat
        /\ r4.pos \in Nat /\ r5.pos \in Nat
    BY <1>4, <1>5, <1>6, <1>7, <1>8 DEF Searched
  <2> QED  BY <1>3, <1>4, <1>5, <1>6, <1>7, <1>8, <2>1
<1>10. n < Power[32] => r5.n < 2
  BY <1>2, <1>3, <1>4, <1>5, <1>6, <1>7, <1>8
<1>11. /\ r5.n \in Nat \ {0} /\ Power[r5.pos] \in Nat
       /\ r5.n * Power[r5.pos] <= n /\ n < (r5.n + 1) * Power[r5.pos]
  BY <1>8, <1>9, PowerPositive DEF Searched
<1>12. Power[r5.pos] <= n
  <2>1. \A a \in Nat \ {0}, b \in Nat : a * b >= b
    OBVIOUS
  <2>2. r5.n * Power[r5.pos] \in Nat
    BY <1>11
  <2> QED  BY <1>11, <2>1, <2>2
<1>13. r5.n < 2 => n < Power[r5.pos + 1]
  <2>1. Power[r5.pos + 1] = 2 * Power[r5.pos]
    BY <1>9, PowerFacts
  <2> QED  BY <1>11, <2>1
<1> QED  BY <1>1, <1>9, <1>10, <1>12, <1>13

(***************************************************************************)
(* The filter: the values it takes.                                        *)
(***************************************************************************)

\* What is assumed of the constants, with the power opaque.
LEMMA Widths ==
  /\ Bits \in Nat /\ Bits - 1 \in Nat /\ Bits - 2 \in Nat
  /\ Bits = (Bits - 1) + 1
  /\ Power[Bits - 1] \in Nat \ {0} /\ Power[Bits] = 2 * Power[Bits - 1]
  /\ Second \in Nat \ {0} /\ 2 * Second < Power[Bits - 1]
<1>1. Bits - 1 \in Nat /\ Second \in Nat \ {0}
      /\ 2 * Second < Power[Bits - 1] /\ Bits \in Nat
  BY WidthAssumption, SecondAssumption
<1>2. Power[Bits - 1] \in Nat \ {0}
  BY <1>1, PowerPositive
<1>3. Bits - 1 # 0
  BY <1>1, PowerFacts
<1>4. Power[(Bits - 1) + 1] = 2 * Power[Bits - 1]
  BY <1>1, PowerFacts
<1>5. Bits = (Bits - 1) + 1 /\ Bits - 2 \in Nat
  BY <1>1, <1>3
<1> QED  BY <1>1, <1>2, <1>4, <1>5

\* A value that is cut to a word is a word, and the same if it was one.
LEMMA WrappedIsWord ==
  ASSUME NEW n \in Int
  PROVE  Wrapped(n) \in Word /\ (n \in Word => Wrapped(n) = n)
<1> DEFINE h == Power[Bits - 1]
<1>1. h \in Nat \ {0} /\ Power[Bits] = 2 * h
  BY Widths
<1>2. Word = -h..(h - 1) /\ Wrapped(n) = ((n + h) % (2 * h)) - h
  BY <1>1 DEF Word, Wrapped
<1> HIDE DEF h
<1>3. (n + h) % (2 * h) \in 0..(2 * h - 1)
  BY <1>1
<1>4. n \in -h..(h - 1) => (n + h) % (2 * h) = n + h
  BY <1>1
<1> QED  BY <1>1, <1>2, <1>3, <1>4

\* The order of a number that fits m bits is less than m.
LEMMA OrderOf ==
  ASSUME NEW n \in Int, NEW m \in Nat \ {0}, -Power[m] < n, n < Power[m]
  PROVE  order(n) \in 0..(m - 1)
<1>1. CASE n = 0
  BY <1>1 DEF order
<1>2. CASE n # 0
  <2> DEFINE a == IF n < 0 THEN -n ELSE n
  <2>1. a \in Nat \ {0} /\ a < Power[m] /\ order(n) = floorLog2(a)
    <3>1. Power[m] \in Nat
      BY PowerPositive
    <3> QED  BY <1>2, <3>1 DEF order
  <2> HIDE DEF a
  <2>2. floorLog2(a) \in Nat /\ Power[floorLog2(a)] <= a
    BY <2>1, LogarithmExact
  <2>3. Power[floorLog2(a)] \in Nat /\ Power[m] \in Nat
    BY <2>2, PowerPositive
  <2>4. Power[floorLog2(a)] < Power[m]
    BY <2>1, <2>2, <2>3
  <2>5. floorLog2(a) < m
    BY <2>2, <2>4, PowerMonotone
  <2> QED  BY <2>1, <2>2, <2>5
<1> QED  BY <1>1, <1>2

\* The values of a filter of this kind.
Filters == [n : 0..Power[Order[kind]], s_prev : 0..Order[kind],
            y_prev : Word, y_sum : Word]

\* The order of either filter.
LEMMA OrderOfKind ==
  ASSUME kind \in {"offset", "delay"}
  PROVE  Order[kind] \in Nat /\ (kind = "offset" => Order[kind] \in {0, 1})
<1>1. Order["offset"] \in {0, 1} /\ Order["delay"] \in Nat
  BY WidthAssumption
<1> QED  BY <1>1

\* Small values are words.
LEMMA NanosecondsAreWords == Nanoseconds \subseteq Word
BY Widths DEF Nanoseconds, Word

\* The first sample is a filter of order 0.
LEMMA StartedType ==
  ASSUME kind \in {"offset", "delay"}, NEW f \in Filters, NEW x \in Nanoseconds
  PROVE  /\ Started(f, x).n \in 1..(Power[Order[kind]] + 1)
         /\ Started(f, x).s_prev \in 0..Order[kind]
         /\ Started(f, x).y_prev \in Word /\ Started(f, x).y_sum \in Word
<1>1. x \in Word /\ Order[kind] \in Nat /\ Power[Order[kind]] \in Nat \ {0}
  BY NanosecondsAreWords, OrderOfKind, PowerPositive
<1>2. /\ f.n \in 0..Power[Order[kind]] /\ f.s_prev \in 0..Order[kind]
      /\ f.y_prev \in Word /\ f.y_sum \in Word
  BY DEF Filters
<1>3. CASE f.n = 0
  BY <1>1, <1>3 DEF Started
<1>4. CASE f.n # 0
  <2>1. Started(f, x) = [f EXCEPT !.n = @ + 1]
    BY <1>4 DEF Started
  <2>2. /\ Started(f, x).n = f.n + 1 /\ Started(f, x).s_prev = f.s_prev
        /\ Started(f, x).y_prev = f.y_prev /\ Started(f, x).y_sum = f.y_sum
    BY <2>1 DEF Filters
  <2> QED  BY <1>1, <1>2, <1>4, <2>2
<1> QED  BY <1>3, <1>4

\* The order that is chosen is a shift: never negative, and at most that of the
\* filter.
LEMMA OrderForType ==
  ASSUME kind \in {"offset", "delay"}, NEW f,
         f.n \in Nat \ {0}, f.y_prev \in Word, NEW x \in Nanoseconds
  PROVE  /\ OrderFor(f, x) \in 0..Order[kind]
         /\ OrderFor(f, x) <= Bits - 2 - order(Greater(f.y_prev, x))
<1> DEFINE g == Greater(f.y_prev, x)
           a == IF Power[Order[kind]] > f.n THEN order(f.n) ELSE Order[kind]
<1>1. /\ Order[kind] \in Nat /\ Power[Order[kind]] \in Nat
      /\ Bits \in Nat /\ Bits - 1 \in Nat \ {0} /\ Bits - 2 \in Nat
  BY Widths, OrderOfKind, PowerPositive
<1>2. g \in Int /\ -Power[Bits - 1] < g /\ g < Power[Bits - 1]
  BY Widths DEF Greater, Word, Nanoseconds
<1> HIDE DEF g
<1>3. order(g) \in 0..(Bits - 2)
  <2>1. order(g) \in 0..((Bits - 1) - 1)
    BY <1>1, <1>2, OrderOf
  <2> QED  BY <1>1, <2>1
<1>4. a \in 0..Order[kind]
  <2>1. CASE Power[Order[kind]] > f.n
    <3>1. Order[kind] # 0
      BY <2>1, PowerFacts
    <3>2. -Power[Order[kind]] < f.n /\ f.n \in Int /\ Order[kind] \in Nat \ {0}
      BY <1>1, <3>1
    <3>3. order(f.n) \in 0..(Order[kind] - 1)
      BY <2>1, <3>2, OrderOf
    <3> QED  BY <1>1, <2>1, <3>3
  <2>2. CASE ~(Power[Order[kind]] > f.n)
    BY <1>1, <2>2
  <2> QED  BY <2>1, <2>2
<1>5. OrderFor(f, x) = Smaller(a, Bits - 2 - order(g))
  BY DEF OrderFor, g
<1> HIDE DEF a
<1> QED  BY <1>1, <1>3, <1>4, <1>5 DEF Smaller, g

\* A shift of an integer is an integer.
LEMMA RescaledType ==
  ASSUME NEW f, f.s_prev \in Nat, f.y_sum \in Int, NEW s \in Nat
  PROVE  Rescaled(f, s) \in Int
<1>1. CASE f.s_prev > s
  <2>1. f.s_prev - s \in Nat
    BY <1>1
  <2>2. Power[f.s_prev - s] \in Nat \ {0}
    BY <2>1, PowerPositive
  <2> QED  BY <1>1, <2>2 DEF Rescaled
<1>2. CASE ~(f.s_prev > s)
  <2>1. s - f.s_prev \in Nat
    BY <1>2
  <2>2. Power[s - f.s_prev] \in Nat \ {0}
    BY <2>1, PowerPositive
  <2> QED  BY <1>2, <2>2 DEF Rescaled
<1> QED  BY <1>1, <1>2

\* The output of the filter is what its sum holds of 1 << order.
Fraction(f) ==
  /\ f.y_prev * Power[f.s_prev] <= f.y_sum
  /\ f.y_sum < (f.y_prev + 1) * Power[f.s_prev]

\* Flooring division by a positive number.
LEMMA FloorOf ==
  ASSUME NEW n \in Int, NEW d \in Nat \ {0}
  PROVE  /\ n \div d \in Int
         /\ (n \div d) * d <= n /\ n < (n \div d + 1) * d
<1> DEFINE q == n \div d
<1>1. q \in Int /\ d * q <= n /\ n < d * q + d
  OBVIOUS
<1> HIDE DEF q
<1>2. q * d = d * q /\ (q + 1) * d = d * q + d
  BY <1>1
<1>3. q \in Int /\ q * d <= n /\ n < (q + 1) * d
  BY <1>1, <1>2
<1> QED  BY <1>3 DEF q

\* The floor is determined by its bounds.
LEMMA FloorBetween ==
  ASSUME NEW n \in Int, NEW d \in Nat \ {0}, NEW a \in Int, NEW b \in Int
  PROVE  /\ a * d <= n => a <= n \div d
         /\ n < (b + 1) * d => n \div d <= b
<1> DEFINE q == n \div d
<1>1. q \in Int /\ q * d <= n /\ n < (q + 1) * d
  BY FloorOf
<1> HIDE DEF q
<1>2. \A i, j \in Int : i * d < j * d => i < j
  <2> SUFFICES ASSUME NEW i \in Int, NEW j \in Int, i * d < j * d, j <= i
               PROVE  FALSE
    OBVIOUS
  <2>1. i - j \in Nat
    OBVIOUS
  <2>2. (i - j) * d \in Nat
    BY <2>1
  <2>3. (i - j) * d = i * d - j * d
    OBVIOUS
  <2>4. i * d \in Int /\ j * d \in Int
    OBVIOUS
  <2> QED  BY <2>2, <2>3, <2>4
<1>3. ASSUME a * d <= n PROVE a <= q
  <2>1. a * d \in Int /\ (q + 1) * d \in Int /\ q + 1 \in Int
    BY <1>1
  <2>2. a * d < (q + 1) * d
    BY <1>1, <1>3, <2>1
  <2>3. a < q + 1
    BY <1>2, <2>1, <2>2
  <2> QED  BY <1>1, <2>3
<1>4. ASSUME n < (b + 1) * d PROVE q <= b
  <2>1. q * d \in Int /\ (b + 1) * d \in Int /\ b + 1 \in Int
    BY <1>1
  <2>2. q * d < (b + 1) * d
    BY <1>1, <1>4, <2>1
  <2>3. q < b + 1
    BY <1>1, <1>2, <2>1, <2>2
  <2> QED  BY <1>1, <2>3
<1>5. (a * d <= n => a <= q) /\ (n < (b + 1) * d => q <= b)
  BY <1>3, <1>4
<1> QED  BY <1>5 DEF q

\* The filter stays in its types, and its output is the floor of its sum.
LEMMA FilterType ==
  ASSUME kind \in {"offset", "delay"}, NEW before \in Filters,
         NEW x \in Nanoseconds
  PROVE  /\ filter(before, x) \in Filters
         /\ filter(before, x).n > 0 /\ Fraction(filter(before, x))
<1> DEFINE f == Started(before, x)
           s == OrderFor(f, x)
           sum == Sum(f, s, x)
           y_sum == Wrapped(sum)
           y == y_sum \div Power[s]
           n == Smaller(f.n, Power[Order[kind]])
<1>1. filter(before, x) = [n |-> n, s_prev |-> s, y_prev |-> y, y_sum |-> y_sum]
  BY DEF filter
<1>2. /\ f.n \in 1..(Power[Order[kind]] + 1) /\ f.s_prev \in 0..Order[kind]
      /\ f.y_prev \in Word /\ f.y_sum \in Word
  BY StartedType
<1>3. Order[kind] \in Nat /\ Power[Order[kind]] \in Nat \ {0}
      /\ Power[Bits - 1] \in Nat \ {0}
  BY OrderOfKind, PowerPositive, Widths
<1>4. Word \subseteq Int /\ x \in Int
  BY <1>3, Widths DEF Word, Nanoseconds
<1> HIDE DEF f
<1>5. s \in 0..Order[kind]
  BY <1>2, <1>3, OrderForType
<1> HIDE DEF s
<1>6. sum \in Int
  <2>1. f.s_prev \in Nat /\ f.y_sum \in Int /\ s \in Nat /\ f.y_prev \in Int
    <3>1. \A k \in 0..Order[kind] : k \in Nat
      BY <1>3
    <3>2. f.s_prev \in Nat /\ s \in Nat
      BY <1>2, <1>5, <3>1
    <3>3. f.y_sum \in Int /\ f.y_prev \in Int
      BY <1>2, <1>4
    <3> QED  BY <3>2, <3>3
  <2>2. Rescaled(f, s) \in Int
    BY <2>1, RescaledType
  <2> QED  BY <1>4, <2>1, <2>2 DEF Sum
<1> HIDE DEF sum
<1>7. y_sum \in Word
  BY <1>6, WrappedIsWord
<1> HIDE DEF y_sum
<1>8. Power[s] \in Nat \ {0}
  BY <1>3, <1>5, PowerPositive
<1>9. y \in Int /\ y * Power[s] <= y_sum /\ y_sum < (y + 1) * Power[s]
  BY <1>4, <1>7, <1>8, FloorOf
<1>10. y \in Word
  <2> DEFINE h == Power[Bits - 1]
             p == Power[s]
  <2>1. h \in Nat \ {0} /\ p \in Nat \ {0} /\ y_sum \in Int
        /\ -h <= y_sum /\ y_sum < h /\ Word = -h..(h - 1)
    BY <1>3, <1>4, <1>7, <1>8 DEF Word
  <2> HIDE DEF h, p
  <2>2. -h * p <= -h /\ h <= h * p /\ -h * p \in Int /\ h * p \in Int
    BY <2>1
  <2>3. -h * p <= y_sum /\ y_sum < (h - 1 + 1) * p
    BY <2>1, <2>2
  <2>4. -h <= y_sum \div p /\ y_sum \div p <= h - 1
    <3>1. -h \in Int /\ h - 1 \in Int
      BY <2>1
    <3> QED  BY <2>1, <2>3, <3>1, FloorBetween
  <2>5. y_sum \div p \in -h..(h - 1)
    BY <1>9, <2>1, <2>4 DEF p
  <2> QED  BY <2>1, <2>5 DEF p
<1>11. n \in 1..Power[Order[kind]]
  BY <1>2, <1>3 DEF Smaller
<1> HIDE DEF y, n
<1> QED  BY <1>1, <1>5, <1>7, <1>9, <1>10, <1>11 DEF Filters, Fraction

(***************************************************************************)
(* The filter: its sum fits a word.                                        *)
(***************************************************************************)

\* The samples of a filter that no negative delay has entered.
Samples == IF kind = "offset" THEN Nanoseconds ELSE 0..(Second - 1)

\* A change of the order keeps the output: what is cut off, or shifted in, is
\* less than one.
LEMMA RescaledBounds ==
  ASSUME NEW f, f.s_prev \in Nat, f.y_prev \in Int, f.y_sum \in Int,
         Fraction(f), NEW s \in Nat
  PROVE  /\ f.y_prev * Power[s] <= Rescaled(f, s)
         /\ Rescaled(f, s) < (f.y_prev + 1) * Power[s]
<1> DEFINE y == f.y_prev
           p == Power[s]
           r == Power[f.s_prev]
<1>1. /\ p \in Nat \ {0} /\ r \in Nat \ {0} /\ y \in Int /\ f.y_sum \in Int
      /\ y * r <= f.y_sum /\ f.y_sum < (y + 1) * r
  BY PowerPositive DEF Fraction
<1>2. CASE f.s_prev > s
  <2> DEFINE d == Power[f.s_prev - s]
  <2>1. f.s_prev - s \in Nat /\ s + (f.s_prev - s) = f.s_prev
    BY <1>2
  <2>2. d \in Nat \ {0} /\ r = p * d
    BY <2>1, PowerOfSum, PowerPositive
  <2>3. Rescaled(f, s) = f.y_sum \div d
    BY <1>2 DEF Rescaled
  <2> HIDE DEF d, y, p, r
  <2>4. y * r = (y * p) * d /\ (y + 1) * r = ((y + 1) * p) * d
    <3>1. \A i, j, k \in Int : i * (j * k) = (i * j) * k
      OBVIOUS
    <3> QED  BY <1>1, <2>2, <3>1
  <2>5. y * p \in Int /\ (y + 1) * p - 1 \in Int
        /\ (y + 1) * p = ((y + 1) * p - 1) + 1
    BY <1>1
  <2>6. (y * p) * d <= f.y_sum /\ f.y_sum < (((y + 1) * p - 1) + 1) * d
    BY <1>1, <2>4, <2>5
  <2>7. y * p <= f.y_sum \div d /\ f.y_sum \div d <= (y + 1) * p - 1
    <3> DEFINE a == y * p
               b == (y + 1) * p - 1
    <3>1. a \in Int /\ b \in Int /\ a * d <= f.y_sum /\ f.y_sum < (b + 1) * d
      BY <2>5, <2>6
    <3> HIDE DEF a, b
    <3>2. a <= f.y_sum \div d /\ f.y_sum \div d <= b
      BY <1>1, <2>2, <3>1, FloorBetween
    <3> QED  BY <3>2 DEF a, b
  <2>8. f.y_sum \div d \in Int
    BY <1>1, <2>2
  <2> QED  BY <2>3, <2>5, <2>7, <2>8 DEF y, p
<1>3. CASE ~(f.s_prev > s)
  <2> DEFINE d == Power[s - f.s_prev]
  <2>1. s - f.s_prev \in Nat /\ f.s_prev + (s - f.s_prev) = s
    BY <1>3
  <2>2. d \in Nat \ {0} /\ p = r * d
    <3>1. Power[f.s_prev + (s - f.s_prev)] = r * d
      BY <2>1, PowerOfSum
    <3>2. d \in Nat \ {0}
      BY <2>1, PowerPositive
    <3> QED  BY <2>1, <3>1, <3>2
  <2>3. Rescaled(f, s) = f.y_sum * d
    BY <1>3 DEF Rescaled
  <2> HIDE DEF d, y, p, r
  <2>4. y * p = (y * r) * d /\ (y + 1) * p = ((y + 1) * r) * d
    <3>1. \A i, j, k \in Int : i * (j * k) = (i * j) * k
      OBVIOUS
    <3> QED  BY <1>1, <2>2, <3>1
  <2>5. \A i, j \in Int : (i <= j => i * d <= j * d) /\ (i < j => i * d < j * d)
    <3> SUFFICES ASSUME NEW i \in Int, NEW j \in Int
                 PROVE  (i <= j => i * d <= j * d) /\ (i < j => i * d < j * d)
      OBVIOUS
    <3>1. i * d \in Int /\ j * d \in Int /\ (j - i) * d = j * d - i * d
      BY <2>2
    <3>2. j - i >= 0 => (j - i) * d >= 0
      BY <2>2
    <3>3. j - i > 0 => (j - i) * d > 0
      BY <2>2
    <3> QED  BY <3>1, <3>2, <3>3
  <2>6. y * r \in Int /\ (y + 1) * r \in Int
    BY <1>1
  <2>7. (y * r) * d <= f.y_sum * d /\ f.y_sum * d < ((y + 1) * r) * d
    BY <1>1, <2>5, <2>6
  <2> QED  BY <2>3, <2>4, <2>7 DEF y, p
<1> QED  BY <1>2, <1>3

\* The sum with a sample lies between the sums of the output and the sample.
LEMMA SumBetween ==
  ASSUME NEW y \in Int, NEW x \in Int, NEW p \in Nat \ {0}, NEW r \in Int,
         y * p <= r, r < (y + 1) * p
  PROVE  /\ Smaller(x, y) * p <= r + (x - y)
         /\ r + (x - y) < (Greater(x, y) + 1) * p
<1>1. y * p \in Int /\ x * p \in Int /\ (y + 1) * p = y * p + p
      /\ (x + 1) * p = x * p + p
      /\ (x - y) * p = x * p - y * p /\ (y - x) * p = y * p - x * p
  OBVIOUS
<1>2. \A k \in Nat : k * p >= k
  OBVIOUS
<1>3. CASE x >= y
  <2>1. x - y \in Nat
    BY <1>3
  <2>2. (x - y) * p >= x - y
    BY <1>2, <2>1
  <2>3. y * p <= r + (x - y) /\ r + (x - y) < (x + 1) * p
    BY <1>1, <1>3, <2>2
  <2>4. Smaller(x, y) = y /\ Greater(x, y) = x
    BY <1>3 DEF Smaller, Greater
  <2> QED  BY <2>3, <2>4
<1>4. CASE x < y
  <2>1. y - x \in Nat
    BY <1>4
  <2>2. (y - x) * p >= y - x
    BY <1>2, <2>1
  <2>3. x * p <= r + (x - y) /\ r + (x - y) < (y + 1) * p
    BY <1>1, <1>4, <2>2
  <2>4. Smaller(x, y) = x /\ Greater(x, y) = y
    BY <1>4 DEF Smaller, Greater
  <2> QED  BY <2>3, <2>4
<1> QED  BY <1>3, <1>4

\* The order of a number is that of its highest bit: one more shift exceeds it.
LEMMA OrderAbove ==
  ASSUME NEW n \in Nat, n < Power[Bits - 1]
  PROVE  order(n) \in Nat /\ n < Power[order(n) + 1]
<1>1. CASE n = 0
  <2>1. order(n) = 0 /\ Power[0 + 1] = 2 * Power[0] /\ Power[0] = 1
    BY <1>1, PowerFacts DEF order
  <2> QED  BY <1>1, <2>1
<1>2. CASE n # 0
  <2>1. n \in Nat \ {0} /\ order(n) = floorLog2(n)
    BY <1>2 DEF order
  <2>2. n < Power[32]
    <3>1. Bits - 1 \in Nat /\ Bits - 1 <= 32
      BY WidthAssumption
    <3>2. Power[Bits - 1] <= Power[32]
      BY <3>1, PowerMonotone
    <3>3. Power[Bits - 1] \in Nat /\ Power[32] \in Nat
      BY <3>1, PowerPositive
    <3> QED  BY <3>2, <3>3
  <2> QED  BY <2>1, <2>2, LogarithmExact
<1> QED  BY <1>1, <1>2

\* The order that is chosen leaves room for the sum.
LEMMA SumFits ==
  ASSUME kind \in {"offset", "delay"}, NEW f, NEW x \in Samples,
         f.n \in Nat \ {0}, f.s_prev \in Nat,
         f.y_prev \in Samples, f.y_sum \in Int, Fraction(f)
  PROVE  /\ OrderFor(f, x) \in Nat
         /\ Rescaled(f, OrderFor(f, x)) \in Word
         /\ Sum(f, OrderFor(f, x), x) \in Word
<1> DEFINE s == OrderFor(f, x)
           y == f.y_prev
           p == Power[s]
           r == Rescaled(f, s)
           h == Power[Bits - 1]
           g == Greater(y, x)
<1>1. /\ Second \in Nat \ {0} /\ h \in Nat \ {0} /\ 2 * Second < h
      /\ Word = -h..(h - 1) /\ Bits - 2 \in Nat
      /\ (Bits - 2) + 1 = Bits - 1 /\ Bits \in Nat
  BY Widths DEF Word
<1>2. /\ x \in Nanoseconds /\ y \in Nanoseconds /\ x \in Int /\ y \in Int
      /\ y \in Word
  BY <1>1, NanosecondsAreWords DEF Samples, Nanoseconds
<1>3. s \in 0..Order[kind] /\ s <= Bits - 2 - order(g) /\ s \in Nat
  <2>1. OrderFor(f, x) \in 0..Order[kind]
        /\ OrderFor(f, x) <= Bits - 2 - order(Greater(f.y_prev, x))
    BY <1>2, OrderForType
  <2>2. Order[kind] \in Nat
    BY OrderOfKind
  <2> QED  BY <2>1, <2>2
<1>4. p \in Nat \ {0} /\ r \in Int
  BY <1>3, PowerPositive, RescaledType
<1>5. y * p <= r /\ r < (y + 1) * p
  BY <1>2, <1>3, RescaledBounds
<1>6. Sum(f, s, x) = r + (x - y)
  BY DEF Sum
<1> HIDE DEF s, y, p, r, h
<1>7. Smaller(x, y) * p <= r + (x - y) /\ r + (x - y) < (Greater(x, y) + 1) * p
  BY <1>2, <1>4, <1>5, SumBetween
<1>8. CASE kind = "offset"
  <2>1. s \in {0, 1}
    <3>1. Order[kind] \in {0, 1}
      BY <1>8, OrderOfKind
    <3> QED  BY <1>3, <3>1
  <2>2. p \in {1, 2}
    <3>1. Power[0] = 1 /\ Power[0 + 1] = 2 * Power[0]
      BY PowerFacts
    <3> QED  BY <2>1, <3>1 DEF p
  <2>3. /\ -Second < x /\ x < Second /\ -Second < y /\ y < Second
    BY <1>1, <1>2 DEF Nanoseconds
  <2>4. r \in Word
    BY <1>1, <1>2, <1>4, <1>5, <2>2, <2>3
  <2>5. r + (x - y) \in Word
    BY <1>1, <1>2, <1>4, <1>7, <2>2, <2>3 DEF Smaller, Greater
  <2> QED  BY <1>3, <1>6, <2>4, <2>5 DEF s, r
<1>9. CASE kind = "delay"
  <2>1. x \in 0..(Second - 1) /\ y \in 0..(Second - 1)
    BY <1>9 DEF Samples, y
  <2>2. g \in Nat /\ g < h /\ y <= g /\ Greater(x, y) = g /\ Smaller(x, y) \in Nat
    BY <1>1, <2>1 DEF Greater, Smaller
  <2> HIDE DEF g
  <2>3. order(g) \in Nat /\ g < Power[order(g) + 1]
    BY <2>2, OrderAbove DEF h
  <2>4. (g + 1) * p <= h
    <3> DEFINE q == Power[order(g) + 1]
    <3>1. order(g) + 1 \in Nat
      BY <2>3
    <3>2. q \in Nat /\ q * p = Power[(order(g) + 1) + s]
      BY <1>3, <3>1, PowerPositive, PowerOfSum DEF p
    <3>3. (order(g) + 1) + s <= Bits - 1 /\ (order(g) + 1) + s \in Nat
          /\ Bits - 1 \in Nat
      BY <1>1, <1>3, <2>3
    <3>4. q * p <= h
      BY <3>2, <3>3, PowerMonotone DEF h
    <3>5. g + 1 <= q
      BY <2>2, <2>3, <3>2
    <3> HIDE DEF q
    <3>6. (g + 1) * p <= q * p
      <4>1. q - (g + 1) \in Nat
        BY <2>2, <3>2, <3>5
      <4>2. (q - (g + 1)) * p \in Nat
        BY <1>4, <4>1
      <4>3. (q - (g + 1)) * p = q * p - (g + 1) * p
        BY <1>4, <2>2, <3>2
      <4>4. q * p \in Int /\ (g + 1) * p \in Int
        BY <1>4, <2>2, <3>2
      <4> QED  BY <4>2, <4>3, <4>4
    <3>7. q * p \in Int /\ (g + 1) * p \in Int
      BY <1>4, <2>2, <3>2
    <3> QED  BY <1>1, <3>4, <3>6, <3>7
  <2>5. y * p \in Nat /\ (y + 1) * p <= (g + 1) * p
        /\ (y + 1) * p \in Int /\ (g + 1) * p \in Int
        /\ Smaller(x, y) * p \in Nat
    <3>1. y \in Nat /\ g - y \in Nat
      BY <1>1, <2>1, <2>2
    <3>2. (g - y) * p \in Nat /\ (g - y) * p = (g + 1) * p - (y + 1) * p
      BY <1>4, <2>2, <3>1
    <3>3. (y + 1) * p \in Int /\ (g + 1) * p \in Int /\ y * p \in Nat
          /\ Smaller(x, y) * p \in Nat
      BY <1>4, <2>2, <3>1
    <3> QED  BY <3>2, <3>3
  <2>6. r \in Word
    BY <1>1, <1>4, <1>5, <2>4, <2>5
  <2>7. r + (x - y) \in Word
    <3>1. r + (x - y) < (g + 1) * p /\ Smaller(x, y) * p <= r + (x - y)
      BY <1>7, <2>2
    <3>2. r + (x - y) \in Int
      BY <1>2, <1>4
    <3> QED  BY <1>1, <2>4, <2>5, <3>1, <3>2
  <2> QED  BY <1>3, <1>6, <2>6, <2>7 DEF s, r
<1> QED  BY <1>8, <1>9

(***************************************************************************)
(* The filter: its output moves towards the sample.                        *)
(***************************************************************************)

\* A filter that no negative delay has entered.
Sound(f) == f.n > 0 => Fraction(f) /\ f.y_prev \in Samples

\* So is the filter that the sample is added to.
LEMMA StartedSound ==
  ASSUME kind \in {"offset", "delay"}, NEW before \in Filters, Sound(before),
         NEW x \in Samples
  PROVE  /\ x \in Nanoseconds
         /\ Started(before, x).n \in Nat \ {0}
         /\ Started(before, x).s_prev \in Nat
         /\ Started(before, x).y_sum \in Int
         /\ Started(before, x).y_prev \in Samples
         /\ Fraction(Started(before, x))
         /\ before.n > 0 => Started(before, x).y_prev = before.y_prev
         /\ before.n = 0 => Started(before, x).y_prev = x
<1>1. x \in Nanoseconds /\ x \in Int
  BY Widths DEF Samples, Nanoseconds
<1>2. Power[Order[kind]] \in Nat \ {0} /\ Order[kind] \in Nat
      /\ Power[Bits - 1] \in Nat \ {0}
  BY OrderOfKind, PowerPositive, Widths
<1>3. /\ Started(before, x).n \in Nat \ {0}
      /\ Started(before, x).s_prev \in Nat
      /\ Started(before, x).y_sum \in Int
  <2> DEFINE f == Started(before, x)
  <2>1. /\ f.n \in 1..(Power[Order[kind]] + 1) /\ f.s_prev \in 0..Order[kind]
        /\ f.y_sum \in Word
    BY <1>1, StartedType
  <2> HIDE DEF f
  <2>2. f.n \in Nat \ {0} /\ f.s_prev \in Nat
    BY <1>2, <2>1
  <2>3. f.y_sum \in Int
    BY <1>2, <2>1 DEF Word
  <2> QED  BY <2>2, <2>3 DEF f
<1>4. before.n \in Nat
  BY <1>2 DEF Filters
<1>5. CASE before.n = 0
  <2>1. Started(before, x) = [n |-> 1, s_prev |-> 0, y_prev |-> x, y_sum |-> x]
    BY <1>5 DEF Started
  <2>2. x * Power[0] <= x /\ x < (x + 1) * Power[0]
    BY <1>1, PowerFacts
  <2> QED  BY <1>1, <1>3, <1>5, <2>1, <2>2 DEF Fraction
<1>6. CASE before.n # 0
  <2>1. Started(before, x) = [before EXCEPT !.n = @ + 1]
    BY <1>6 DEF Started
  <2>2. /\ Started(before, x).s_prev = before.s_prev
        /\ Started(before, x).y_prev = before.y_prev
        /\ Started(before, x).y_sum = before.y_sum
    BY <2>1 DEF Filters
  <2> QED  BY <1>1, <1>3, <1>4, <1>6, <2>2 DEF Sound, Fraction
<1> QED  BY <1>4, <1>5, <1>6

\* A sample leaves the filter sound, and moves its output towards itself.
LEMMA FilterSound ==
  ASSUME kind \in {"offset", "delay"}, NEW before \in Filters, Sound(before),
         NEW x \in Samples
  PROVE  /\ filter(before, x).y_prev \in Samples
         /\ before.n > 0 =>
              filter(before, x).y_prev
                \in Smaller(x, before.y_prev)..Greater(x, before.y_prev)
<1> DEFINE f == Started(before, x)
           s == OrderFor(f, x)
           sum == Sum(f, s, x)
           y == f.y_prev
           p == Power[s]
           r == Rescaled(f, s)
           z == filter(before, x).y_prev
<1>1. /\ x \in Nanoseconds /\ f.n \in Nat \ {0} /\ f.s_prev \in Nat
      /\ f.y_sum \in Int /\ y \in Samples /\ Fraction(f)
      /\ (before.n > 0 => y = before.y_prev)
  BY StartedSound
<1>2. s \in Nat /\ sum \in Word
  BY <1>1, SumFits
<1>3. x \in Int /\ y \in Int /\ Second \in Nat \ {0}
      /\ Power[Bits - 1] \in Nat
  BY <1>1, Widths DEF Samples, Nanoseconds
<1>4. Wrapped(sum) = sum /\ sum \in Int
  <2>1. sum \in Int
    BY <1>2, <1>3 DEF Word
  <2> HIDE DEF sum
  <2> QED  BY <1>2, <2>1, WrappedIsWord
<1>5. z = Wrapped(sum) \div p
  BY DEF filter
<1>6. sum = r + (x - y)
  BY DEF Sum
<1> HIDE DEF f, s, z, sum, r, p
<1>7. p \in Nat \ {0} /\ r \in Int /\ y * p <= r /\ r < (y + 1) * p
  <2>1. p \in Nat \ {0}
    BY <1>2, PowerPositive DEF p
  <2>2. r \in Int
    BY <1>1, <1>2, RescaledType DEF r
  <2>3. y * p <= r /\ r < (y + 1) * p
    BY <1>1, <1>2, <1>3, RescaledBounds DEF r, p
  <2> QED  BY <2>1, <2>2, <2>3
<1> HIDE DEF y
<1>8. Smaller(x, y) * p <= sum /\ sum < (Greater(x, y) + 1) * p
  BY <1>3, <1>6, <1>7, SumBetween
<1>9. Smaller(x, y) \in Int /\ Greater(x, y) \in Int
  BY <1>3 DEF Smaller, Greater
<1>10. Smaller(x, y) <= sum \div p /\ sum \div p <= Greater(x, y)
  <2> DEFINE a == Smaller(x, y)
             b == Greater(x, y)
  <2>1. a \in Int /\ b \in Int /\ a * p <= sum /\ sum < (b + 1) * p
    BY <1>8, <1>9
  <2> HIDE DEF a, b
  <2>2. a <= sum \div p /\ sum \div p <= b
    BY <1>4, <1>7, <2>1, FloorBetween
  <2> QED  BY <2>2 DEF a, b
<1>11. sum \div p \in Int /\ z = sum \div p
  BY <1>4, <1>5, <1>7
<1>12. z \in Smaller(x, y)..Greater(x, y)
  BY <1>9, <1>10, <1>11
<1>13. z \in Samples
  <2>1. CASE kind = "offset"
    BY <1>1, <1>3, <1>12, <2>1 DEF Samples, Nanoseconds, Smaller, Greater
  <2>2. CASE kind = "delay"
    BY <1>1, <1>3, <1>12, <2>2 DEF Samples, Smaller, Greater
  <2> QED  BY <2>1, <2>2
<1> QED  BY <1>1, <1>12, <1>13 DEF z

(***************************************************************************)
(* The invariant of the servo.                                             *)
(***************************************************************************)

\* The output is the floor of the sum, and a value between samples unless a
\* negative delay has entered.
FilterShape ==
  filt.n > 0 => Fraction(filt) /\ (~negative => filt.y_prev \in Samples)

ServoInv == TypeOK /\ TimesExact /\ FilterShape

\* What is said of a step by FilterAverages.
Averages ==
  filt.n > 0 /\ filt'.n > 0 /\ filt' # filt /\ ~negative' =>
    LET y == filt.y_prev
        x == measured'.nanoseconds
    IN  filt'.y_prev \in Smaller(x, y)..Greater(x, y)

Adjustments == -MaxAdjust..MaxAdjust

\* What every operation on the filter and the clock leaves.
Kept ==
  /\ filt' \in Filters
  /\ observedDrift' \in Adjustments /\ adj' \in Adjustments
  /\ negative' \in BOOLEAN
  /\ filt'.n > 0 => Fraction(filt') /\ (~negative' => filt'.y_prev \in Samples)
  /\ Averages

\* An adjustment is clamped.
LEMMA ClampedType == ASSUME NEW n \in Int PROVE Clamped(n) \in Adjustments
BY GainAssumption DEF Clamped, Adjustments

\* The clock is adjusted as far as the hardware allows.
LEMMA AdjFreqType ==
  ASSUME TypeOK, NEW n \in Int, adjFreq(n)
  PROVE  adj' \in Adjustments
BY ClampedType DEF adjFreq, TypeOK, Adjustments

\* The filters are initialised, and the clock runs at its own rate.
LEMMA InitClockKeeps == ServoInv /\ initClock => Kept
<1> SUFFICES ASSUME ServoInv, initClock PROVE Kept
  OBVIOUS
<1>1. TypeOK
  BY DEF ServoInv
<1>2. filt \in Filters /\ Power[Order[kind]] \in Nat
  BY <1>1, OrderOfKind, PowerPositive DEF TypeOK, Filters
<1>3. filt' = [filt EXCEPT !.n = 0] /\ observedDrift' = 0 /\ negative' = FALSE
      /\ adjFreq(0)
  BY DEF initClock
<1>4. filt' \in Filters /\ filt'.n = 0
  BY <1>2, <1>3 DEF Filters
<1>5. adj' \in Adjustments
  BY <1>1, <1>3, AdjFreqType
<1>6. observedDrift' \in Adjustments
  BY <1>3, GainAssumption DEF Adjustments
<1>7. negative' \in BOOLEAN
  BY <1>3
<1>8. ~(filt'.n > 0)
  BY <1>4
<1> QED  BY <1>4, <1>5, <1>6, <1>7, <1>8 DEF Kept, Averages

\* Nothing happens to the filter and the clock.
LEMMA UnchangedKeeps ==
  ServoInv /\ UNCHANGED <<filt, observedDrift, adj, negative>> => Kept
BY DEF ServoInv, TypeOK, FilterShape, Kept, Averages, Filters, Adjustments

\* A time without seconds, in normal form, is a sample.
LEMMA ShortIsSample ==
  ASSUME NEW t \in Time, IsNormal(t), t.seconds = 0
  PROVE  t.nanoseconds \in Nanoseconds
BY SecondAssumption DEF Time, IsNormal, Nanoseconds

\* A sample enters the filter.
LEMMA FilterKeeps ==
  ASSUME ServoInv, NEW x \in Nanoseconds, filt' = filter(filt, x),
         negative' \in BOOLEAN, ~negative' => ~negative /\ x \in Samples,
         x = measured'.nanoseconds
  PROVE  /\ filt' \in Filters
         /\ filt'.n > 0 => Fraction(filt') /\ (~negative' => filt'.y_prev \in Samples)
         /\ Averages
<1>1. kind \in {"offset", "delay"} /\ filt \in Filters
  BY DEF ServoInv, TypeOK, Filters
<1>2. filt' \in Filters /\ Fraction(filt')
  BY <1>1, FilterType
<1>3. ASSUME ~negative'
      PROVE  /\ filt'.y_prev \in Samples
             /\ filt.n > 0 => filt'.y_prev
                                \in Smaller(x, filt.y_prev)..Greater(x, filt.y_prev)
  <2>1. Sound(filt) /\ x \in Samples
    BY <1>3 DEF ServoInv, FilterShape, Sound
  <2> QED  BY <1>1, <2>1, FilterSound
<1> QED  BY <1>2, <1>3 DEF Averages

\* updateOffset and updateClock.
LEMMA UseOffsetKeeps ==
  ASSUME ServoInv, kind = "offset", measured' \in Time, IsNormal(measured'),
         UseOffset
  PROVE  Kept
<1>1. TypeOK
  BY DEF ServoInv
<1>2. CASE measured'.seconds # 0
  <2>1. StepClock
    BY <1>2 DEF UseOffset
  <2>2. CASE servo.noAdjust
    BY <2>1, <2>2, UnchangedKeeps DEF StepClock
  <2>3. CASE ~servo.noAdjust /\ servo.noResetClock
    <3>1. UNCHANGED <<filt, observedDrift, negative>>
          /\ adjFreq(IF measured'.nanoseconds > 0 THEN -MaxAdjust ELSE MaxAdjust)
      BY <2>1, <2>3 DEF StepClock
    <3>2. (IF measured'.nanoseconds > 0 THEN -MaxAdjust ELSE MaxAdjust) \in Int
      BY GainAssumption
    <3>3. adj' \in Adjustments
      BY <1>1, <3>1, <3>2, AdjFreqType
    <3> QED  BY <3>1, <3>3
             DEF ServoInv, TypeOK, FilterShape, Kept, Averages, Filters, Adjustments
  <2>4. CASE ~servo.noAdjust /\ ~servo.noResetClock
    BY <2>1, <2>4, InitClockKeeps DEF StepClock
  <2> QED  BY <2>2, <2>3, <2>4
<1>3. CASE measured'.seconds = 0
  <2> DEFINE x == measured'.nanoseconds
  <2>1. filt' = filter(filt, x) /\ Regulate(filt'.y_prev) /\ negative' = negative
    BY <1>3 DEF UseOffset
  <2>2. x \in Nanoseconds /\ x \in Samples
    BY <1>3, ShortIsSample DEF Samples
  <2>3. negative' \in BOOLEAN /\ (~negative' => ~negative)
    BY <1>1, <2>1 DEF TypeOK
  <2> HIDE DEF x
  <2>4. /\ filt' \in Filters
        /\ filt'.n > 0 => Fraction(filt') /\ (~negative' => filt'.y_prev \in Samples)
        /\ Averages
    BY <2>1, <2>2, <2>3, FilterKeeps DEF x
  <2>5. filt'.y_prev \in Int
    BY <2>4, Widths DEF Filters, Word
  <2>6. /\ observedDrift' = Clamped(observedDrift + Quotient(filt'.y_prev, ai))
        /\ adjFreq(-(Quotient(filt'.y_prev, ap) + observedDrift'))
    BY <2>1 DEF Regulate
  <2>7. Quotient(filt'.y_prev, ai) \in Int /\ Quotient(filt'.y_prev, ap) \in Int
    BY <2>5, GainAssumption, QuotientFacts
  <2>8. observedDrift \in Int
    BY <1>1, GainAssumption DEF TypeOK
  <2>9. observedDrift' \in Adjustments
    BY <2>6, <2>7, <2>8, ClampedType
  <2>10. observedDrift' \in Int
    BY <2>9, GainAssumption DEF Adjustments
  <2>11. -(Quotient(filt'.y_prev, ap) + observedDrift') \in Int
    BY <2>7, <2>10
  <2>12. adj' \in Adjustments
    BY <1>1, <2>6, <2>11, AdjFreqType
  <2> QED  BY <2>3, <2>4, <2>9, <2>12 DEF Kept
<1> QED  BY <1>2, <1>3

\* updateDelay and updatePeerDelay.
LEMMA UseDelayKeeps ==
  ASSUME ServoInv, kind = "delay", measured' \in Time, IsNormal(measured'),
         UseDelay
  PROVE  Kept
<1>1. TypeOK
  BY DEF ServoInv
<1>2. CASE measured'.seconds # 0
  BY <1>2, UnchangedKeeps DEF UseDelay
<1>3. CASE measured'.seconds = 0
  <2> DEFINE x == measured'.nanoseconds
  <2>1. /\ filt' = filter(filt, x)
        /\ negative' = (negative \/ x < 0)
        /\ UNCHANGED <<observedDrift, adj>>
    BY <1>3 DEF UseDelay
  <2>2. x \in Nanoseconds /\ x \in Int /\ Second \in Nat
    BY <1>3, ShortIsSample, SecondAssumption DEF Nanoseconds
  <2>3. negative' \in BOOLEAN /\ (~negative' => ~negative /\ ~(x < 0))
    BY <1>1, <2>1 DEF TypeOK
  <2>4. ~(x < 0) => x \in Samples
    BY <2>2 DEF Samples, Nanoseconds
  <2> HIDE DEF x
  <2>5. /\ filt' \in Filters
        /\ filt'.n > 0 => Fraction(filt') /\ (~negative' => filt'.y_prev \in Samples)
        /\ Averages
    BY <2>1, <2>2, <2>3, <2>4, FilterKeeps DEF x
  <2> QED  BY <1>1, <2>1, <2>3, <2>5 DEF Kept, TypeOK, Adjustments
<1> QED  BY <1>2, <1>3

\* Every step keeps the invariant, and averages.
LEMMA ServoStep == ServoInv /\ [Next]_vars => ServoInv' /\ [Averages]_vars
<1> SUFFICES ASSUME ServoInv, [Next]_vars PROVE ServoInv' /\ [Averages]_vars
  OBVIOUS
<1>1. TypeOK /\ TimesExact /\ FilterShape
  BY DEF ServoInv
<1>2. TimesExact'
  BY <1>1, TimesStep
<1>3. ASSUME Kept, UNCHANGED config, measured' \in Time, truth' \in Int,
             steady' \in BOOLEAN
      PROVE  ServoInv' /\ Averages
  <2>1. TypeOK'
    BY <1>1, <1>3 DEF Kept, config, TypeOK, Filters, Word, Adjustments
  <2>2. FilterShape'
    BY <1>3 DEF Kept, config, FilterShape, Samples, Fraction
  <2> QED  BY <1>2, <1>3, <2>1, <2>2 DEF ServoInv, Kept
<1>4. ASSUME NEW offset \in Offsets, MeasureOffset(offset)
      PROVE  ServoInv' /\ Averages
  <2>1. IsExact(offset)
    BY OffsetExact DEF Offsets
  <2>2. measured' = offset.time /\ truth' = offset.truth /\ UseOffset
        /\ kind = "offset" /\ UNCHANGED <<config, steady>>
    BY <1>4 DEF MeasureOffset
  <2>3. measured' \in Time /\ IsNormal(measured') /\ truth' \in Int
    BY <2>1, <2>2, SecondAssumption DEF IsExact, Value, Time
  <2>4. Kept
    BY <2>2, <2>3, UseOffsetKeeps
  <2> QED  BY <1>1, <1>3, <2>2, <2>3, <2>4 DEF TypeOK
<1>5. ASSUME NEW delay \in Delays, MeasureDelay(delay)
      PROVE  ServoInv' /\ Averages
  <2>1. IsExact(delay)
    BY DelayExact DEF Delays
  <2>2. measured' = delay.time /\ truth' = delay.truth /\ UseDelay
        /\ kind = "delay" /\ UNCHANGED <<config, steady>>
    BY <1>5 DEF MeasureDelay
  <2>3. measured' \in Time /\ IsNormal(measured') /\ truth' \in Int
    BY <2>1, <2>2, SecondAssumption DEF IsExact, Value, Time
  <2>4. Kept
    BY <2>2, <2>3, UseDelayKeeps
  <2> QED  BY <1>1, <1>3, <2>2, <2>3, <2>4 DEF TypeOK
<1>6. ASSUME MeasureAgain PROVE ServoInv' /\ Averages
  <2>1. UNCHANGED <<measured, truth>> /\ UNCHANGED <<config, steady>>
        /\ IF kind = "offset" THEN UseOffset ELSE UseDelay
    BY <1>6 DEF MeasureAgain
  <2>2. measured' \in Time /\ IsNormal(measured') /\ truth' \in Int
    BY <1>1, <2>1 DEF TypeOK, TimesExact
  <2>3. kind \in {"offset", "delay"}
    BY <1>1 DEF TypeOK
  <2>4. CASE kind = "offset"
    BY <2>1, <2>2, <2>4, UseOffsetKeeps, <1>1, <1>3 DEF TypeOK
  <2>5. CASE kind = "delay"
    BY <2>1, <2>2, <2>5, UseDelayKeeps, <1>1, <1>3 DEF TypeOK
  <2> QED  BY <2>3, <2>4, <2>5
<1>7. ASSUME Restart PROVE ServoInv' /\ Averages
  <2>1. UNCHANGED <<config, measured, truth, steady>> /\ initClock
    BY <1>7 DEF Restart
  <2>2. Kept
    BY <2>1, InitClockKeeps
  <2> QED  BY <1>1, <1>3, <2>1, <2>2 DEF TypeOK
<1>8. ASSUME BecomeSteady PROVE ServoInv' /\ Averages
  <2>1. /\ UNCHANGED <<config, filt, observedDrift, adj, measured, truth, negative>>
        /\ steady' = TRUE
    BY <1>8 DEF BecomeSteady
  <2>2. Kept
    BY <2>1, UnchangedKeeps
  <2> QED  BY <1>1, <1>3, <2>1, <2>2 DEF TypeOK
<1>9. ASSUME UNCHANGED vars PROVE ServoInv'
  BY <1>1, <1>2, <1>9 DEF vars, config, ServoInv, TypeOK, FilterShape, Samples,
                          Fraction, Word
<1> QED  BY <1>4, <1>5, <1>6, <1>7, <1>8, <1>9 DEF Next

\* The filter is empty at first.
LEMMA ServoInit == Init => ServoInv
<1> SUFFICES ASSUME Init PROVE ServoInv
  OBVIOUS
<1>1. /\ kind \in {"offset", "delay"}
      /\ servo \in [noAdjust : BOOLEAN, noResetClock : BOOLEAN]
      /\ filt = EmptyFilter /\ observedDrift = 0 /\ adj = 0
      /\ measured = ZeroTime /\ truth = 0 /\ negative = FALSE /\ steady = FALSE
  BY DEF Init
<1>2. Order[kind] \in Nat /\ Power[Order[kind]] \in Nat
  BY <1>1, OrderOfKind, PowerPositive
<1>3. 0 \in Word
  BY Widths DEF Word
<1>4. TypeOK
  <2>1. filt \in [n : 0..Power[Order[kind]], s_prev : 0..Order[kind],
                  y_prev : Word, y_sum : Word]
    <3>1. 0 \in 0..Power[Order[kind]] /\ 0 \in 0..Order[kind]
      BY <1>2
    <3> QED  BY <1>1, <1>3, <3>1 DEF EmptyFilter
  <2>2. observedDrift \in -MaxAdjust..MaxAdjust /\ adj \in -MaxAdjust..MaxAdjust
    BY <1>1, GainAssumption
  <2>3. measured \in Time /\ truth \in Int
    BY <1>1 DEF ZeroTime, Time
  <2>4. negative \in BOOLEAN /\ steady \in BOOLEAN
    BY <1>1
  <2> QED  BY <1>1, <2>1, <2>2, <2>3, <2>4 DEF TypeOK
<1>5. TimesExact
  BY <1>1, SecondAssumption DEF TimesExact, IsNormal, Value, ZeroTime
<1>6. FilterShape
  BY <1>1 DEF FilterShape, EmptyFilter
<1> QED  BY <1>4, <1>5, <1>6 DEF ServoInv

\* The servo is in its types and its filter sound, whatever the width of a word,
\* the orders and the gains.
THEOREM ServoCorrect == Spec => []ServoInv
<1>1. Init => ServoInv
  BY ServoInit
<1>2. ServoInv /\ [Next]_vars => ServoInv'
  BY ServoStep
<1> QED  BY <1>1, <1>2, PTL DEF Spec

\* The filter counts no further than its order, and what the clock is told is
\* clamped.
THEOREM TypeCorrect == Spec => []TypeOK
<1>1. ServoInv => TypeOK
  BY DEF ServoInv
<1> QED  BY <1>1, ServoCorrect, PTL

\* Whatever is measured next, the sum of the filter does not overflow.
THEOREM FitsCorrect == Spec => []FilterFits
<1>1. ServoInv => FilterFits
  <2> SUFFICES ASSUME ServoInv, ~negative, NEW x \in Samples
               PROVE  LET f == Started(filt, x)
                          s == OrderFor(f, x)
                      IN  Rescaled(f, s) \in Word /\ Sum(f, s, x) \in Word
    BY DEF FilterFits, Samples
  <2> DEFINE f == Started(filt, x)
  <2>1. kind \in {"offset", "delay"} /\ filt \in Filters /\ Sound(filt)
    BY DEF ServoInv, TypeOK, FilterShape, Filters, Sound
  <2>2. /\ f.n \in Nat \ {0} /\ f.s_prev \in Nat /\ f.y_sum \in Int
        /\ f.y_prev \in Samples /\ Fraction(f)
    BY <2>1, StartedSound
  <2> HIDE DEF f
  <2>3. Rescaled(f, OrderFor(f, x)) \in Word /\ Sum(f, OrderFor(f, x), x) \in Word
    BY <2>1, <2>2, SumFits
  <2> QED  BY <2>3 DEF f
<1> QED  BY <1>1, ServoCorrect, PTL

\* The output of the filter moves towards each sample, and not past it.
THEOREM AveragesCorrect == Spec => FilterAverages
<1>1. ServoInv /\ [Next]_vars => [Averages]_vars
  BY ServoStep
<1>2. Spec => [][Averages]_vars
  BY <1>1, ServoCorrect, PTL DEF Spec
<1>3. [][Averages]_vars => FilterAverages
  BY DEF Averages, FilterAverages
<1> QED  BY <1>2, <1>3

(***************************************************************************)
(* What makes the filter converge.                                         *)
(***************************************************************************)

\* While the same is measured it is a sample, and no negative delay has entered.
SteadySample ==
  steady => ~negative /\ measured.seconds = 0 /\ measured.nanoseconds \in Samples

\* A filter that has started is not started again, moves no further away from
\* what is measured, and with its order also its sum tells how far it still is.
Approaches ==
  steady /\ filt.n > 0 =>
    LET y == filt.y_prev
        x == measured.nanoseconds
    IN  /\ filt'.n > 0 /\ measured' = measured
        /\ filt'.y_prev \in Smaller(x, y)..Greater(x, y)
        /\ filt'.s_prev = filt.s_prev => filt'.y_sum = filt.y_sum + (x - y)

\* In a steady state the filter takes the sample again.
LEMMA AgainFilters ==
  ASSUME ServoInv, SteadySample, MeasureAgain
  PROVE  /\ measured' = measured /\ steady
         /\ filt' = filter(filt, measured.nanoseconds) /\ negative' = FALSE
         /\ UNCHANGED kind
<1>1. steady /\ UNCHANGED <<measured, truth>> /\ UNCHANGED <<config, steady>>
      /\ IF kind = "offset" THEN UseOffset ELSE UseDelay
  BY DEF MeasureAgain
<1>2. ~negative /\ measured.seconds = 0 /\ measured.nanoseconds \in Samples
      /\ kind \in {"offset", "delay"} /\ negative = FALSE
  BY <1>1 DEF SteadySample, ServoInv, TypeOK
<1>3. CASE kind = "offset"
  <2>1. UseOffset
    BY <1>1, <1>3
  <2> QED  BY <1>1, <1>2, <2>1 DEF UseOffset, config
<1>4. CASE kind = "delay"
  <2>1. UseDelay /\ measured.nanoseconds \in 0..(Second - 1) /\ Second \in Nat
    BY <1>1, <1>2, <1>4, SecondAssumption DEF Samples
  <2>2. ~(measured.nanoseconds < 0)
    BY <2>1
  <2>3. /\ filt' = filter(filt, measured'.nanoseconds)
        /\ negative' = (negative \/ measured'.nanoseconds < 0)
    BY <1>1, <1>2, <2>1 DEF UseDelay
  <2>4. negative' = FALSE
    BY <1>1, <1>2, <2>2, <2>3
  <2> QED  BY <1>1, <2>3, <2>4 DEF config
<1> QED  BY <1>2, <1>3, <1>4

\* A sample that leaves the order adds its distance to the sum.
LEMMA SumApproaches ==
  ASSUME kind \in {"offset", "delay"}, NEW before \in Filters, Sound(before),
         NEW x \in Samples, before.n > 0,
         filter(before, x).s_prev = before.s_prev
  PROVE  filter(before, x).y_sum = before.y_sum + (x - before.y_prev)
<1> DEFINE f == Started(before, x)
           s == OrderFor(f, x)
<1>1. /\ f.n \in Nat \ {0} /\ f.s_prev \in Nat /\ f.y_sum \in Int
      /\ f.y_prev \in Samples /\ Fraction(f)
  BY StartedSound
<1>2. /\ filter(before, x).s_prev = s
      /\ filter(before, x).y_sum = Wrapped(Sum(f, s, x))
  BY DEF filter
<1>3. /\ f.s_prev = before.s_prev /\ f.y_prev = before.y_prev
      /\ f.y_sum = before.y_sum
  <2>1. f = [before EXCEPT !.n = @ + 1]
    BY DEF Started
  <2> QED  BY <2>1 DEF Filters
<1> HIDE DEF f
<1>4. Sum(f, s, x) \in Word
  BY <1>1, SumFits
<1> HIDE DEF s
<1>5. Sum(f, s, x) = f.y_sum + (x - f.y_prev)
  <2>1. s = f.s_prev /\ s - f.s_prev = 0 /\ ~(f.s_prev > s)
    <3>1. s = f.s_prev
      BY <1>2, <1>3
    <3>2. \A k \in Nat : k - k = 0 /\ ~(k > k)
      OBVIOUS
    <3> QED  BY <1>1, <3>1, <3>2
  <2>2. Rescaled(f, s) = f.y_sum * Power[s - f.s_prev]
    BY <2>1 DEF Rescaled
  <2>3. Rescaled(f, s) = f.y_sum
    BY <1>1, <2>1, <2>2, PowerFacts
  <2> QED  BY <2>3 DEF Sum
<1>6. Sum(f, s, x) \in Int
  BY <1>4, Widths DEF Word
<1> QED  BY <1>2, <1>3, <1>4, <1>5, <1>6, WrappedIsWord

\* Every step while the same is measured approaches it.
LEMMA SteadyStep ==
  ServoInv /\ SteadySample /\ [Next]_vars => SteadySample' /\ [Approaches]_vars
<1> SUFFICES ASSUME ServoInv, SteadySample, [Next]_vars
             PROVE  SteadySample' /\ [Approaches]_vars
  OBVIOUS
<1>1. kind \in {"offset", "delay"} /\ filt \in Filters /\ measured \in Time
      /\ IsNormal(measured) /\ negative \in BOOLEAN
  BY DEF ServoInv, TypeOK, TimesExact, Filters
<1>2. CASE MeasureAgain
  <2> DEFINE x == measured.nanoseconds
  <2>1. /\ measured' = measured /\ steady /\ filt' = filter(filt, x)
        /\ negative' = FALSE /\ UNCHANGED kind
    BY <1>2, AgainFilters
  <2>2. ~negative /\ x \in Samples /\ measured.seconds = 0
    BY <2>1 DEF SteadySample
  <2>3. SteadySample'
    BY <2>1, <2>2 DEF SteadySample, Samples
  <2>4. Sound(filt) /\ x \in Nanoseconds
    BY <1>1, <2>2, StartedSound DEF ServoInv, FilterShape, Sound
  <2> HIDE DEF x
  <2>5. filt'.n > 0
    BY <1>1, <2>1, <2>4, FilterType
  <2>6. filt.n > 0 => filt'.y_prev \in Smaller(x, filt.y_prev)..Greater(x, filt.y_prev)
    BY <1>1, <2>1, <2>2, <2>4, FilterSound
  <2>7. filt.n > 0 /\ filt'.s_prev = filt.s_prev
          => filt'.y_sum = filt.y_sum + (x - filt.y_prev)
    BY <1>1, <2>1, <2>2, <2>4, SumApproaches
  <2>8. Approaches
    BY <2>1, <2>5, <2>6, <2>7 DEF Approaches, x
  <2> QED  BY <2>3, <2>8
<1>3. ASSUME NEW offset \in Offsets, MeasureOffset(offset)
      PROVE  SteadySample' /\ Approaches
  <2>1. ~steady /\ ~steady'
    BY <1>3 DEF MeasureOffset
  <2> QED  BY <2>1 DEF SteadySample, Approaches
<1>4. ASSUME NEW delay \in Delays, MeasureDelay(delay)
      PROVE  SteadySample' /\ Approaches
  <2>1. ~steady /\ ~steady'
    BY <1>4 DEF MeasureDelay
  <2> QED  BY <2>1 DEF SteadySample, Approaches
<1>5. CASE Restart
  <2>1. ~steady /\ ~steady'
    BY <1>5 DEF Restart
  <2> QED  BY <2>1 DEF SteadySample, Approaches
<1>6. CASE BecomeSteady
  <2>1. /\ ~steady /\ ~negative /\ measured.seconds = 0
        /\ kind = "delay" => measured.nanoseconds >= 0
        /\ UNCHANGED <<kind, measured, negative>>
    BY <1>6 DEF BecomeSteady, config
  <2>2. measured.nanoseconds \in Nanoseconds
    BY <1>1, <2>1, ShortIsSample
  <2>3. measured.nanoseconds \in Samples
    BY <1>1, <2>1, <2>2, SecondAssumption DEF Samples, Nanoseconds
  <2> QED  BY <2>1, <2>3 DEF SteadySample, Samples, Approaches
<1>7. CASE UNCHANGED vars
  BY <1>7 DEF vars, config, SteadySample, Samples
<1> QED  BY <1>2, <1>3, <1>4, <1>5, <1>6, <1>7 DEF Next

\* While the same offset or delay is measured, a filter that has started is not
\* reset, never moves away from it, and its sum changes until it is reached, unless
\* its order does: the part of Converges that needs no fairness.
THEOREM ApproachCorrect == Spec => [][Approaches]_vars
<1>1. Init => SteadySample
  BY DEF Init, SteadySample
<1>2. ServoInv /\ SteadySample /\ [Next]_vars => SteadySample' /\ [Approaches]_vars
  BY SteadyStep
<1> QED  BY <1>1, <1>2, ServoCorrect, PTL DEF Spec
=============================================================================
