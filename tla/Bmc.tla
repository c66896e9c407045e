-------------------------------- MODULE Bmc --------------------------------
(***************************************************************************)
(* The best master clock algorithm of src/src/bmc.c: the data set          *)
(* comparison, the table of foreign masters and the state decision.  The   *)
(* module has no variables: it is the vocabulary of PtpClock.              *)
(*                                                                         *)
(* A clock identity is a natural number, ordered as memcmp orders the      *)
(* identities, and a port identity is a pair <<clock identity, port>>.  A  *)
(* data set is what an Announce message carries and what a foreign record  *)
(* or parentDS keeps of it; its quality lists, in the order in which they  *)
(* are compared, priority1, clockClass, clockAccuracy, offsetScaled-       *)
(* LogVariance and priority2.  The time properties are not modelled.       *)
(***************************************************************************)
EXTENDS Integers

CONSTANTS
  Self,         \* clockIdentity of this clock (defaultDS, portDS)
  OwnQuality,   \* the quality of this clock (defaultDS)
  Capacity      \* foreignMasterDS.capacity

Attribute == 1..5
ClockClass == 2

PortIdentity == Nat \X Nat
DataSet == [source : PortIdentity, gm : Nat,
            quality : [Attribute -> Nat], steps : Int]

ASSUME SelfAssumption == Self \in Nat
ASSUME QualityAssumption == OwnQuality \in [Attribute -> Nat]
ASSUME CapacityAssumption == Capacity \in Nat \ {0}

OwnPort == <<Self, 1>>
Slots == 0..(Capacity - 1)

(***************************************************************************)
(* Data set comparison.                                                    *)
(***************************************************************************)

\* The first attribute in which the qualities differ is smaller in p.
Precedes(p, q) ==
  \E k \in Attribute : /\ p[k] < q[k]
                       /\ \A j \in 1..(k - 1) : p[j] = q[j]

\* Figure 27: the two data sets describe different grandmasters.
BetterGrandmaster(a, b) ==
  \/ Precedes(a.quality, b.quality)
  \/ a.quality = b.quality /\ a.gm < b.gm

\* Figure 28: two paths to one grandmaster.  A path that is longer by one
\* loses too, unless its sender is this very clock (ERROR_1).
BetterPath(a, b) ==
  \/ b.steps > a.steps + 1
  \/ b.steps = a.steps + 1 /\ b.source[1] # Self
  \/ b.steps = a.steps /\ a.source[1] < b.source[1]

BetterThan(a, b) ==
  IF a.gm # b.gm THEN BetterGrandmaster(a, b) ELSE BetterPath(a, b)

\* A_better_then_B is 1, B_better_then_A is -1, ERROR_1 and ERROR_2 are 0.
bmcDataSetComparison(a, b) ==
  IF BetterThan(a, b) THEN 1 ELSE IF BetterThan(b, a) THEN -1 ELSE 0

(***************************************************************************)
(* The table of foreign masters: `count' records are in use, `i' is where  *)
(* the next one goes, `best' is the choice of the last bmc.                *)
(***************************************************************************)

\* A record no Announce message has been written to: zeroed memory.
BlankRecord == [source |-> <<0, 0>>, gm |-> 0,
                quality |-> [k \in Attribute |-> 0], steps |-> 0]

EmptyTable ==
  [records |-> [k \in Slots |-> BlankRecord], count |-> 0, i |-> 0, best |-> 0]

\* The loop of addForeign starts at `best' and wraps around modulo `count'.
Probe(table, n) == IF n = 0 THEN table.best ELSE (table.best + n) % table.count

\* The slots the loop updates: the first one it meets that is of this sender.
KnownAt(table, source) ==
  LET Hit(n) == table.records[Probe(table, n)].source = source
  IN  {Probe(table, n) : n \in
        {m \in 0..(table.count - 1) : Hit(m) /\ \A k \in 0..(m - 1) : ~Hit(k)}}

\* A mistake: the index of the next record does not wrap around.
addForeignWithoutWrap(table, announce) ==
  [table EXCEPT !.records[table.i] = announce,
                !.count = IF @ < Capacity THEN @ + 1 ELSE @,
                !.i = @ + 1]

\* `found' stays false when the sender is known, so the data set is also
\* entered as a new record.
addForeign(table, announce) ==
  [records |-> [k \in Slots |->
                 IF k = table.i \/ k \in KnownAt(table, announce.source)
                   THEN announce ELSE table.records[k]],
   count   |-> IF table.count < Capacity THEN table.count + 1 ELSE table.count,
   i       |-> (table.i + 1) % Capacity,
   best    |-> table.best]

\* A mistake: the index of the next record is not reset with the count.
ForgetCount(table) == [table EXCEPT !.count = 0]

\* Forgets the records: ANNOUNCE_RECEIPT_TIMEOUT_EXPIRES leaves `best' alone.
ForgetForeign(table) == [table EXCEPT !.count = 0, !.i = 0]

(***************************************************************************)
(* The choice of a record.  scan[k] is the value of `best' after the       *)
(* comparison of record k, one of 0..k; the loop ends after count - 1.       *)
(***************************************************************************)

\* How the loop compares two records.
Replaces(new, best) == bmcDataSetComparison(new, best) < 0

Scans(table) ==
  {scan \in [Slots -> Slots] :
     /\ \A k \in Slots : scan[k] <= k
     /\ \A k \in Slots \ {0} :
          scan[k] = IF Replaces(table.records[k], table.records[scan[k - 1]])
                      THEN k ELSE scan[k - 1]}

BestSlots(table) ==
  {IF table.count = 0 THEN 0 ELSE scan[table.count - 1] : scan \in Scans(table)}

\* A mistake: the records are used up by the decision.
ChosenOnce(table, slot) == [table EXCEPT !.best = slot, !.count = 0]

\* bmc remembers its choice.
Chosen(table, slot) == [table EXCEPT !.best = slot]

(***************************************************************************)
(* The state decision and the updates of parentDS.                         *)
(***************************************************************************)

\* copyD0: the data set of this clock.
D0 == [source |-> OwnPort, gm |-> Self, quality |-> OwnQuality, steps |-> 0]

\* m1 and m2: this clock is its own parent and grandmaster.
m1 == [source |-> <<Self, 0>>, gm |-> Self, quality |-> OwnQuality, steps |-> 0]

\* s1: the master becomes the parent, one step further away.
s1(announce) == [announce EXCEPT !.steps = announce.steps + 1]

OwnClass == OwnQuality[ClockClass]

\* bmcStateDecision for the chosen record.
bmcStateDecision(portState, count, record) ==
  IF count = 0 /\ portState = "LISTENING" THEN "LISTENING"
  ELSE IF bmcDataSetComparison(D0, record) = 1 THEN "MASTER"
  ELSE IF OwnClass < 128 THEN "PASSIVE"
  ELSE "SLAVE"
=============================================================================
