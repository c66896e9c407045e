---------------------------- MODULE SetInduction ----------------------------
(***************************************************************************)
(* Induction and iteration over the natural numbers, stated with sets and  *)
(* functions in place of predicates, so that the provers can use them.     *)
(***************************************************************************)
EXTENDS Integers, WellFoundedInduction, TLAPS

\* A set that holds 0, and with each number the next, holds them all.
LEMMA Induction ==
  ASSUME NEW S, 0 \in S, \A n \in Nat : n \in S => n + 1 \in S
  PROVE  Nat \subseteq S
<1> DEFINE T == Nat \ S
           R == OpToRel(<, Nat)
<1>1. SUFFICES ASSUME T # {} PROVE FALSE
  OBVIOUS
<1>2. IsWellFoundedOn(R, Nat)
  BY NatLessThanWellFounded
<1>3. \A x, y \in Nat : x < y => <<x, y>> \in R
  BY DEF OpToRel
<1>4. T \subseteq Nat
  OBVIOUS
<1>5. \E x \in T : \A y \in T : ~ (<<y, x>> \in R)
  <2> HIDE DEF T, R
  <2> QED  BY <1>1, <1>2, <1>4, WFMin
<1>6. PICK x \in T : \A y \in T : ~ (<<y, x>> \in R)
  BY <1>5
<1> HIDE DEF R
<1>7. x # 0 /\ x \in Nat
  OBVIOUS
<1>8. x - 1 \in Nat /\ x - 1 < x
  BY <1>7
<1>9. x - 1 \in S
  BY <1>3, <1>6, <1>7, <1>8
<1>10. x - 1 + 1 \in S
  BY <1>8, <1>9
<1>11. x - 1 + 1 = x
  BY <1>7
<1> QED  BY <1>10, <1>11

\* The first n + 1 members of the sequence a, step[a], step[step[a]], ...
Iterates(V, a, step, n) ==
  {f \in [0..n -> V] : /\ f[0] = a
                       /\ \A k \in 0..(n - 1) : f[k + 1] = step[f[k]]}

\* Iterations of any length exist.
LEMMA IteratesExist ==
  ASSUME NEW V, NEW a \in V, NEW step \in [V -> V]
  PROVE  \A n \in Nat : \E f : f \in Iterates(V, a, step, n)
<1> DEFINE S == {n \in Nat : \E f : f \in Iterates(V, a, step, n)}
<1>1. 0 \in S
  <2>1. [k \in 0..0 |-> a] \in Iterates(V, a, step, 0)
    BY DEF Iterates
  <2> QED  BY <2>1
<1>2. ASSUME NEW n \in Nat, n \in S PROVE n + 1 \in S
  <2>1. PICK f : f \in Iterates(V, a, step, n)
    BY <1>2
  <2> DEFINE g == [k \in 0..(n + 1) |-> IF k <= n THEN f[k] ELSE step[f[n]]]
  <2>2. f \in [0..n -> V] /\ f[0] = a
        /\ \A k \in 0..(n - 1) : f[k + 1] = step[f[k]]
    BY <2>1 DEF Iterates
  <2>3. f[n] \in V /\ step[f[n]] \in V
    BY <2>2
  <2>4. g \in [0..(n + 1) -> V] /\ g[0] = a
    BY <2>2, <2>3
  <2>5. ASSUME NEW k \in 0..((n + 1) - 1) PROVE g[k + 1] = step[g[k]]
    <3>1. CASE k < n
      BY <2>2, <3>1
    <3>2. CASE k = n
      BY <2>2, <3>2
    <3> QED  BY <3>1, <3>2
  <2>6. g \in Iterates(V, a, step, n + 1)
    <3> HIDE DEF g
    <3> QED  BY <2>4, <2>5 DEF Iterates
  <2> QED  BY <2>6
<1> HIDE DEF S
<1>3. Nat \subseteq S
  BY <1>1, <1>2, Induction
<1> QED  BY <1>3 DEF S

\* Two iterations agree where both are defined.
LEMMA IteratesAgree ==
  ASSUME NEW V, NEW a \in V, NEW step \in [V -> V]
  PROVE  \A n \in Nat : \A m, p \in Nat :
           m >= n /\ p >= n =>
             \A f \in Iterates(V, a, step, m), g \in Iterates(V, a, step, p) :
               f[n] = g[n]
<1> DEFINE S == {n \in Nat : \A m, p \in Nat :
             m >= n /\ p >= n =>
               \A f \in Iterates(V, a, step, m), g \in Iterates(V, a, step, p) :
                 f[n] = g[n]}
<1>1. 0 \in S
  BY DEF Iterates
<1>2. ASSUME NEW n \in Nat, n \in S PROVE n + 1 \in S
  <2> SUFFICES ASSUME NEW m \in Nat, NEW p \in Nat, m >= n + 1, p >= n + 1,
                      NEW f \in Iterates(V, a, step, m),
                      NEW g \in Iterates(V, a, step, p)
               PROVE  f[n + 1] = g[n + 1]
    OBVIOUS
  <2>1. f[n] = g[n]
    BY <1>2
  <2>2. n \in 0..(m - 1) /\ n \in 0..(p - 1)
    OBVIOUS
  <2> QED  BY <2>1, <2>2 DEF Iterates
<1> HIDE DEF S
<1>3. Nat \subseteq S
  BY <1>1, <1>2, Induction
<1> QED  BY <1>3 DEF S

\* The operations on a set.
Steps(V) == [V -> V]

\* f starts with a and goes on with step.
Iterated(V, a, step, f) ==
  f \in [Nat -> V] /\ f[0] = a /\ \A n \in Nat : f[n + 1] = step[f[n]]

\* What repeats a step for ever exists.
LEMMA Iteration ==
  \A V : \A a \in V, step \in Steps(V) : \E f : Iterated(V, a, step, f)
<1> SUFFICES ASSUME NEW V, NEW a \in V, NEW step \in [V -> V]
             PROVE  \E f : Iterated(V, a, step, f)
  BY DEF Steps
<1> DEFINE Part(n) == CHOOSE f : f \in Iterates(V, a, step, n)
           g == [n \in Nat |-> Part(n)[n]]
<1>1. \A n \in Nat : Part(n) \in Iterates(V, a, step, n)
  BY IteratesExist
<1> HIDE DEF Part
<1>2. g \in [Nat -> V] /\ g[0] = a
  BY <1>1 DEF Iterates
<1>3. ASSUME NEW n \in Nat PROVE g[n + 1] = step[g[n]]
  <2>1. Part(n + 1) \in Iterates(V, a, step, n + 1) /\ n \in 0..((n + 1) - 1)
    BY <1>1
  <2>2. Part(n + 1)[n + 1] = step[Part(n + 1)[n]]
    BY <2>1 DEF Iterates
  <2>3. Part(n + 1)[n] = Part(n)[n]
    BY <1>1, <2>1, IteratesAgree
  <2> QED  BY <2>2, <2>3
<1>4. Iterated(V, a, step, g)
  <2> HIDE DEF g
  <2> QED  BY <1>2, <1>3 DEF Iterated
<1> QED  BY <1>4
=============================================================================
