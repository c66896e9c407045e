-------------------------------- MODULE Servo --------------------------------
(***************************************************************************)
(* The clock servo of src/src/servo.c: how a measured offset or delay is   *)
(* computed from timestamps, smoothed, and turned into an adjustment of    *)
(* the clock.  The constants Bits and Second keep the proportions of the   *)
(* code's 32 bits and 10^9: a word holds a little more than two seconds.   *)
(*                                                                         *)
(* The servo has two filters, which do not depend on each other; `kind'    *)
(* tells which one is looked at: ofm_filt, for the offset, or owd_filt,    *)
(* for the delay of either mechanism.                                      *)
(***************************************************************************)
EXTENDS Arith

CONSTANTS
  Bits,          \* the width of s32_t
  Order,         \* servo.sOffset and servo.sDelay, for each kind
  ap,            \* servo.ap
  ai,            \* servo.ai
  MaxAdjust,     \* ADJ_FREQ_MAX
  Instants,      \* what the clocks show, and their differences in normal form
  Corrections    \* correction fields

ASSUME WidthAssumption ==
  /\ Bits \in 1..32 /\ 2 * Second < Power[Bits - 1]
  /\ Order.offset \in {0, 1} /\ Order.delay \in Nat
ASSUME GainAssumption ==
  ap \in Nat \ {0} /\ ai \in Nat \ {0} /\ MaxAdjust \in Nat \ {0}

ASSUME ReadingsAssumption ==
  /\ \A t \in Instants : t \in Time /\ IsNormal(t)
  /\ Corrections \subseteq Int

VARIABLES
  kind,           \* "offset" or "delay"
  servo,          \* servo.noAdjust and servo.noResetClock
  filt,           \* the filter of this kind
  observedDrift,
  adj,            \* what adjFreq has last set
  measured,       \* what was last measured, before it is filtered
  truth,          \* history: its true length, in nanoseconds
  negative,       \* history: a negative delay has entered the filter
  steady          \* history: from now on the same is measured again and again

config == <<kind, servo>>
vars == <<config, filt, observedDrift, adj, measured, truth, negative, steady>>

Word == -(Power[Bits - 1])..(Power[Bits - 1] - 1)
\* Overflow, which only a negative delay can cause, wraps around here.
Wrapped(n) == ((n + Power[Bits - 1]) % Power[Bits]) - Power[Bits - 1]

Nanoseconds == (1 - Second)..(Second - 1)

Greater(a, b) == IF a > b THEN a ELSE b
Smaller(a, b) == IF a > b THEN b ELSE a
order(n) == IF n = 0 THEN 0 ELSE floorLog2(IF n < 0 THEN -n ELSE n)

(***************************************************************************)
(* The filter.                                                             *)
(***************************************************************************)

\* A filter that was initialised; initClock leaves the rest of it as it is.
EmptyFilter == [n |-> 0, s_prev |-> 0, y_prev |-> 0, y_sum |-> 0]

\* The first sample starts the filter.
Started(f, x) ==
  IF f.n = 0 THEN [n |-> 1, s_prev |-> 0, y_prev |-> x, y_sum |-> x]
             ELSE [f EXCEPT !.n = @ + 1]

\* A mistake: the order is lowered for a filter that has few samples only.
OrderForAnySample(f, x) == IF Power[Order[kind]] > f.n THEN order(f.n) ELSE Order[kind]

\* The order is lowered while there are few samples, and for large ones.
OrderFor(f, x) ==
  Smaller(IF Power[Order[kind]] > f.n THEN order(f.n) ELSE Order[kind],
          Bits - 2 - order(Greater(f.y_prev, x)))

\* A mistake: a lower order leaves the sum of a higher one.
RescaledUp(f, s) == IF f.s_prev > s THEN f.y_sum ELSE f.y_sum * Power[s - f.s_prev]

\* The sum for another order.
Rescaled(f, s) == IF f.s_prev > s THEN f.y_sum \div Power[f.s_prev - s]
                                  ELSE f.y_sum * Power[s - f.s_prev]

\* A mistake: the sum is made of the output, without the fraction it has cut off.
SumWithoutFraction(f, s, x) == f.y_prev * Power[s] + (x - f.y_prev)

\* The sum before it is cut to a word.
Sum(f, s, x) == Rescaled(f, s) + (x - f.y_prev)

filter(before, x) ==
  LET f == Started(before, x)
      s == OrderFor(f, x)
      y_sum == Wrapped(Sum(f, s, x))
  IN  [n |-> Smaller(f.n, Power[Order[kind]]), s_prev |-> s,
       y_prev |-> y_sum \div Power[s], y_sum |-> y_sum]

(***************************************************************************)
(* The clock.                                                              *)
(***************************************************************************)

\* A mistake: clamped on one side only.
ClampedAbove(n) == IF n > MaxAdjust THEN MaxAdjust ELSE n

Clamped(n) == IF n > MaxAdjust THEN MaxAdjust
              ELSE IF n < -MaxAdjust THEN -MaxAdjust ELSE n

adjFreq(n) == adj' = IF servo.noAdjust THEN adj ELSE Clamped(n)

initClock ==
  /\ filt' = [filt EXCEPT !.n = 0]
  /\ observedDrift' = 0
  /\ adjFreq(0)
  /\ negative' = FALSE

\* The PI controller, for a sync interval of one second.
Regulate(offset) ==
  /\ observedDrift' = Clamped(observedDrift + Quotient(offset, ai))
  /\ adjFreq(-(Quotient(offset, ap) + observedDrift'))

\* updateClock for an offset of seconds: the clock is set, or adjusted as fast
\* as possible.
StepClock ==
  IF servo.noAdjust THEN UNCHANGED <<filt, observedDrift, adj, negative>>
  ELSE IF servo.noResetClock
    THEN /\ adjFreq(IF measured'.nanoseconds > 0 THEN -MaxAdjust ELSE MaxAdjust)
         /\ UNCHANGED <<filt, observedDrift, negative>>
    ELSE initClock

(***************************************************************************)
(* The servo.                                                              *)
(***************************************************************************)

\* Where one of the options has no effect, it is not set.
Init ==
  /\ kind \in {"offset", "delay"}
  /\ servo \in [noAdjust : BOOLEAN, noResetClock : BOOLEAN]
  /\ kind = "delay" => ~servo.noAdjust
  /\ servo.noResetClock => kind = "offset" /\ ~servo.noAdjust
  /\ filt = EmptyFilter
  /\ observedDrift = 0 /\ adj = 0
  /\ measured = ZeroTime /\ truth = 0
  /\ negative = FALSE /\ steady = FALSE

\* updateOffset and updateClock, with the offset in measured'.
UseOffset ==
  IF measured'.seconds # 0 THEN StepClock
  ELSE /\ filt' = filter(filt, measured'.nanoseconds)
       /\ Regulate(filt'.y_prev)
       /\ UNCHANGED negative

\* What updateDelay and updatePeerDelay do with the delay in measured'.
UseDelay ==
  /\ IF measured'.seconds # 0 THEN UNCHANGED <<filt, negative>>
     ELSE /\ filt' = filter(filt, measured'.nanoseconds)
          /\ negative' = (negative \/ measured'.nanoseconds < 0)
  /\ UNCHANGED <<observedDrift, adj>>

\* A Sync that was sent at `origin' by the master's clock and received at
\* `ingress' by this one's; `delay' is the mean path delay.
Offset(ingress, origin, correction, delay) ==
  LET Tms == subTime(subTime(ingress, origin),
                     scaledNanosecondsToInternalTime(correction))
  IN  [time |-> subTime(Tms, delay),
       truth |-> Value(ingress) - Value(origin) - Quotient(correction, 65536)
                   - Value(delay)]

Offsets == {Offset(a, b, c, d) : a, b, d \in Instants, c \in Corrections}

MeasureOffset(offset) ==
  /\ kind = "offset" /\ ~steady
  /\ measured' = offset.time
  /\ truth' = offset.truth
  /\ UseOffset
  /\ UNCHANGED <<config, steady>>

\* A message in each direction: what updateDelay makes of Tms and Tsm, and
\* updatePeerDelay of Tab and Tba.
Delay(sent, received, answered, heard) ==
  [time |-> div2Time(addTime(subTime(received, sent), subTime(heard, answered))),
   truth |-> Quotient(Value(received) - Value(sent)
                        + Value(heard) - Value(answered), 2)]

Delays == {Delay(a, b, c, d) : a, b, c, d \in Instants}

MeasureDelay(delay) ==
  /\ kind = "delay" /\ ~steady
  /\ measured' = delay.time
  /\ truth' = delay.truth
  /\ UseDelay
  /\ UNCHANGED <<config, steady>>

\* The same is measured again.
MeasureAgain ==
  /\ steady
  /\ UNCHANGED <<measured, truth>>
  /\ IF kind = "offset" THEN UseOffset ELSE UseDelay
  /\ UNCHANGED <<config, steady>>

Restart ==
  /\ ~steady
  /\ initClock
  /\ UNCHANGED <<config, measured, truth, steady>>

\* From now on the clocks and the path do not change.
BecomeSteady ==
  /\ ~steady /\ ~negative
  /\ measured.seconds = 0
  /\ kind = "delay" => measured.nanoseconds >= 0
  /\ steady' = TRUE
  /\ UNCHANGED <<config, filt, observedDrift, adj, measured, truth, negative>>

Next ==
  \/ \E offset \in Offsets : MeasureOffset(offset)
  \/ \E delay \in Delays : MeasureDelay(delay)
  \/ MeasureAgain
  \/ Restart
  \/ BecomeSteady

\* A Sync, or an answer to a request, comes again and again.
Spec == Init /\ [][Next]_vars /\ WF_vars(MeasureAgain)

(***************************************************************************)
(* Properties.                                                             *)
(***************************************************************************)

\* The values the variables take; the filter counts to its order at most.
TypeOK ==
  /\ kind \in {"offset", "delay"}
  /\ servo \in [noAdjust : BOOLEAN, noResetClock : BOOLEAN]
  /\ filt \in [n : 0..Power[Order[kind]], s_prev : 0..Order[kind],
               y_prev : Word, y_sum : Word]
  /\ observedDrift \in -MaxAdjust..MaxAdjust
  /\ adj \in -MaxAdjust..MaxAdjust
  /\ measured \in Time /\ truth \in Int
  /\ negative \in BOOLEAN /\ steady \in BOOLEAN

\* "Avoid overflowing of filter": whatever is measured next, the sum of the
\* filter, rescaled and with the sample added, fits a word.  Unless a delay was
\* negative: the order is chosen for the greater value, not for the longer one.
FilterFits ==
  ~negative =>
    \A x \in (IF kind = "offset" THEN Nanoseconds ELSE 0..(Second - 1)) :
      LET f == Started(filt, x)
          s == OrderFor(f, x)
      IN  Rescaled(f, s) \in Word /\ Sum(f, s, x) \in Word

\* The filter averages: whatever the orders, and the rescaling between them, its
\* output moves towards the sample, and not past it.
FilterAverages ==
  [][filt.n > 0 /\ filt'.n > 0 /\ filt' # filt /\ ~negative' =>
       LET y == filt.y_prev
           x == measured'.nanoseconds
       IN  filt'.y_prev \in Smaller(x, y)..Greater(x, y)]_vars

\* What is measured has the length it has by the timestamps, and is in normal
\* form: that it has no seconds means that it is shorter than a second.
TimesExact == IsNormal(measured) /\ Value(measured) = truth

\* A steady offset or delay is reported exactly in the end: the truncation of
\* the filter leaves no error.
Converges == steady ~> filt.y_prev = measured.nanoseconds
=============================================================================
