--------------------------- MODULE PtpClockProofs ---------------------------
(***************************************************************************)
(* The best master clock algorithm of Bmc, and the safety of PtpClock, for *)
(* every network, quality, capacity and mechanism.                         *)
(***************************************************************************)
EXTENDS PtpClock, SetInduction, TLAPS

USE SelfAssumption, QualityAssumption, CapacityAssumption,
    SlaveOnlyAssumption, MechanismAssumption, MessageAssumption

(***************************************************************************)
(* The comparison of data sets.                                            *)
(***************************************************************************)

\* The first difference decides for one side only.
LEMMA PrecedesAsymmetric ==
  ASSUME NEW p \in [Attribute -> Nat], NEW q \in [Attribute -> Nat],
         Precedes(p, q)
  PROVE  ~Precedes(q, p) /\ p # q
<1>1. PICK k \in Attribute : p[k] < q[k] /\ \A j \in 1..(k - 1) : p[j] = q[j]
  BY DEF Precedes
<1>2. ASSUME NEW l \in Attribute, q[l] < p[l], \A j \in 1..(l - 1) : q[j] = p[j]
      PROVE  FALSE
  <2>1. CASE k < l
    <3>1. k \in 1..(l - 1) /\ p[k] \in Nat
      BY <2>1 DEF Attribute
    <3> QED  BY <1>1, <1>2, <3>1
  <2>2. CASE l < k
    <3>1. l \in 1..(k - 1) /\ p[l] \in Nat
      BY <2>2 DEF Attribute
    <3> QED  BY <1>1, <1>2, <3>1
  <2>3. CASE l = k
    <3>1. p[k] \in Nat /\ q[k] \in Nat
      OBVIOUS
    <3> QED  BY <1>1, <1>2, <2>3, <3>1
  <2> QED  BY <2>1, <2>2, <2>3 DEF Attribute
<1>3. p[k] \in Nat
  OBVIOUS
<1> QED  BY <1>1, <1>2, <1>3 DEF Precedes

\* Qualities are compared lexicographically.
LEMMA PrecedesTransitive ==
  ASSUME NEW p \in [Attribute -> Nat], NEW q \in [Attribute -> Nat],
         NEW r \in [Attribute -> Nat], Precedes(p, q), Precedes(q, r)
  PROVE  Precedes(p, r)
<1>1. PICK k \in Attribute : p[k] < q[k] /\ \A j \in 1..(k - 1) : p[j] = q[j]
  BY DEF Precedes
<1>2. PICK l \in Attribute : q[l] < r[l] /\ \A j \in 1..(l - 1) : q[j] = r[j]
  BY DEF Precedes
<1>3. /\ p[k] \in Nat /\ q[k] \in Nat /\ r[k] \in Nat
      /\ p[l] \in Nat /\ q[l] \in Nat /\ r[l] \in Nat
  OBVIOUS
<1>4. CASE k <= l
  <2>1. \A j \in 1..(k - 1) : j \in 1..(l - 1)
    BY <1>4 DEF Attribute
  <2>2. \A j \in 1..(k - 1) : p[j] = r[j]
    BY <1>1, <1>2, <2>1
  <2>3. k < l => q[k] = r[k]
    BY <1>2 DEF Attribute
  <2>4. p[k] < r[k]
    <3>1. CASE k < l
      BY <1>1, <1>3, <2>3, <3>1
    <3>2. CASE k = l
      BY <1>1, <1>2, <1>3, <3>2
    <3> QED  BY <1>4, <3>1, <3>2 DEF Attribute
  <2> QED  BY <2>2, <2>4 DEF Precedes
<1>5. CASE l < k
  <2>1. l \in 1..(k - 1) /\ \A j \in 1..(l - 1) : j \in 1..(k - 1)
    BY <1>5 DEF Attribute
  <2>2. \A j \in 1..(l - 1) : p[j] = r[j]
    BY <1>1, <1>2, <2>1
  <2>3. p[l] < r[l]
    BY <1>1, <1>2, <1>3, <2>1
  <2> QED  BY <2>2, <2>3 DEF Precedes
<1> QED  BY <1>4, <1>5 DEF Attribute

\* Two qualities differ in a first attribute.
LEMMA PrecedesTotal ==
  ASSUME NEW p \in [Attribute -> Nat], NEW q \in [Attribute -> Nat], p # q
  PROVE  Precedes(p, q) \/ Precedes(q, p)
<1>1. \E k \in Attribute : p[k] # q[k]
  OBVIOUS
<1>2. \E k \in Attribute : p[k] # q[k] /\ \A j \in 1..(k - 1) : p[j] = q[j]
  <2>1. Attribute = {1, 2, 3, 4, 5}
    BY DEF Attribute
  <2>2. CASE p[1] # q[1]
    BY <2>1, <2>2
  <2>3. CASE p[1] = q[1] /\ p[2] # q[2]
    BY <2>1, <2>3
  <2>4. CASE p[1] = q[1] /\ p[2] = q[2] /\ p[3] # q[3]
    BY <2>1, <2>4
  <2>5. CASE p[1] = q[1] /\ p[2] = q[2] /\ p[3] = q[3] /\ p[4] # q[4]
    <3>1. \A j \in 1..(4 - 1) : p[j] = q[j]
      BY <2>5
    <3> QED  BY <2>1, <2>5, <3>1
  <2>6. CASE p[1] = q[1] /\ p[2] = q[2] /\ p[3] = q[3] /\ p[4] = q[4]
    <3>1. \A j \in 1..(5 - 1) : p[j] = q[j]
      BY <2>6
    <3>2. p[5] # q[5]
      BY <1>1, <2>1, <2>6
    <3> QED  BY <2>1, <3>1, <3>2
  <2> QED  BY <2>2, <2>3, <2>4, <2>5, <2>6
<1>3. PICK k \in Attribute : p[k] # q[k] /\ \A j \in 1..(k - 1) : p[j] = q[j]
  BY <1>2
<1>4. p[k] \in Nat /\ q[k] \in Nat
  OBVIOUS
<1>5. p[k] < q[k] \/ q[k] < p[k]
  BY <1>3, <1>4
<1> QED  BY <1>3, <1>5 DEF Precedes

\* No data set is better and worse than another.
LEMMA BetterAsymmetric ==
  ASSUME NEW a \in DataSet, NEW b \in DataSet
  PROVE  ~(BetterThan(a, b) /\ BetterThan(b, a))
<1>1. /\ a.quality \in [Attribute -> Nat] /\ b.quality \in [Attribute -> Nat]
      /\ a.gm \in Nat /\ b.gm \in Nat /\ a.steps \in Int /\ b.steps \in Int
      /\ a.source[1] \in Nat /\ b.source[1] \in Nat
  BY DEF DataSet, PortIdentity
<1>2. CASE a.gm # b.gm
  <2>1. ~(BetterGrandmaster(a, b) /\ BetterGrandmaster(b, a))
    BY <1>1, PrecedesAsymmetric DEF BetterGrandmaster
  <2> QED  BY <1>2, <2>1 DEF BetterThan
<1>3. CASE a.gm = b.gm
  <2>1. ~(BetterPath(a, b) /\ BetterPath(b, a))
    BY <1>1 DEF BetterPath
  <2> QED  BY <1>3, <2>1 DEF BetterThan
<1> QED  BY <1>2, <1>3

\* The comparison of two data sets does not depend on which is given first.
THEOREM ComparisonAntisymmetric ==
  ASSUME NEW a \in DataSet, NEW b \in DataSet
  PROVE  bmcDataSetComparison(a, b) = -bmcDataSetComparison(b, a)
BY BetterAsymmetric DEF bmcDataSetComparison

\* Of two grandmasters one is better, and the better of the better is better.
LEMMA GrandmastersOrdered ==
  ASSUME NEW a \in DataSet, NEW b \in DataSet, a.gm # b.gm
  PROVE  /\ BetterThan(a, b) \/ BetterThan(b, a)
         /\ \A c \in DataSet :
              a.gm # c.gm /\ b.gm # c.gm /\ BetterThan(a, b) /\ BetterThan(b, c)
                => BetterThan(a, c)
<1>1. /\ a.quality \in [Attribute -> Nat] /\ b.quality \in [Attribute -> Nat]
      /\ a.gm \in Nat /\ b.gm \in Nat
  BY DEF DataSet
<1>2. BetterThan(a, b) \/ BetterThan(b, a)
  <2>1. a.gm < b.gm \/ b.gm < a.gm
    BY <1>1
  <2> QED  BY <1>1, <2>1, PrecedesTotal DEF BetterThan, BetterGrandmaster
<1>3. ASSUME NEW c \in DataSet, a.gm # c.gm, b.gm # c.gm,
             BetterThan(a, b), BetterThan(b, c)
      PROVE  BetterThan(a, c)
  <2>1. c.quality \in [Attribute -> Nat] /\ c.gm \in Nat
    BY DEF DataSet
  <2>2. BetterGrandmaster(a, b) /\ BetterGrandmaster(b, c)
    BY <1>3 DEF BetterThan
  <2>3. a.gm < b.gm /\ b.gm < c.gm => a.gm < c.gm
    BY <1>1, <2>1
  <2>4. BetterGrandmaster(a, c)
    BY <1>1, <2>1, <2>2, <2>3, PrecedesTransitive DEF BetterGrandmaster
  <2> QED  BY <1>3, <2>4 DEF BetterThan
<1> QED  BY <1>2, <1>3

(***************************************************************************)
(* The choice of a record.                                                 *)
(***************************************************************************)

\* The loop over the records of any table has one course.
LEMMA OneScan == \A table : \E scan : Scans(table) = {scan}
<1> SUFFICES ASSUME NEW table PROVE \E scan : Scans(table) = {scan}
  OBVIOUS
<1> DEFINE After(k, best) ==
             IF Replaces(table.records[k], table.records[best]) THEN k ELSE best
           V == Nat \X Nat
           step == [v \in V |-> <<v[1] + 1, After(v[1] + 1, v[2])>>]
<1>1. PICK f : Iterated(V, <<0, 0>>, step, f)
  <2>1. \A v \in V : step[v] \in V
    <3> SUFFICES ASSUME NEW v \in V PROVE step[v] \in V
      OBVIOUS
    <3>1. v[1] \in Nat /\ v[2] \in Nat /\ After(v[1] + 1, v[2]) \in Nat
      OBVIOUS
    <3> HIDE DEF After
    <3> QED  BY <3>1
  <2>2. step \in Steps(V) /\ <<0, 0>> \in V
    <3>1. step = [v \in V |-> step[v]]
      OBVIOUS
    <3>2. <<0, 0>> \in V
      OBVIOUS
    <3> HIDE DEF step, V
    <3> QED  BY <2>1, <3>1, <3>2 DEF Steps
  <2> HIDE DEF V, step
  <2> QED  BY <2>2, Iteration
<1>2. f \in [Nat -> V] /\ f[0] = <<0, 0>>
      /\ \A n \in Nat : f[n + 1] = <<f[n][1] + 1, After(f[n][1] + 1, f[n][2])>>
  <2>1. f \in [Nat -> V] /\ f[0] = <<0, 0>> /\ \A n \in Nat : f[n + 1] = step[f[n]]
    BY <1>1 DEF Iterated
  <2>2. \A n \in Nat : f[n] \in V
    BY <2>1
  <2>3. \A v \in V : step[v] = <<v[1] + 1, After(v[1] + 1, v[2])>>
    OBVIOUS
  <2> HIDE DEF V, step, After
  <2> QED  BY <2>1, <2>2, <2>3
<1> HIDE DEF step
<1> DEFINE S == {n \in Nat : f[n][1] = n /\ f[n][2] <= n}
<1>3. Nat \subseteq S
  <2>1. 0 \in S
    BY <1>2
  <2>2. ASSUME NEW n \in Nat, n \in S PROVE n + 1 \in S
    <3>1. f[n][1] = n /\ f[n][2] <= n /\ f[n][2] \in Nat
      BY <1>2, <2>2
    <3>2. f[n + 1] = <<n + 1, After(n + 1, f[n][2])>>
      <4> HIDE DEF After, V
      <4> QED  BY <1>2, <3>1
    <3>3. f[n + 1][1] = n + 1 /\ f[n + 1][2] = After(n + 1, f[n][2])
      <4> HIDE DEF After
      <4> QED  BY <3>2
    <3>4. f[n + 1][2] <= n + 1
      BY <3>1, <3>3
    <3> QED  BY <3>3, <3>4
  <2> HIDE DEF S
  <2> QED  BY <2>1, <2>2, Induction
<1>4. \A n \in Nat : /\ f[n][1] = n /\ f[n][2] \in Nat /\ f[n][2] <= n
                     /\ f[n + 1][2] = After(n + 1, f[n][2])
  <2>1. ASSUME NEW n \in Nat
        PROVE  /\ f[n][1] = n /\ f[n][2] \in Nat /\ f[n][2] <= n
               /\ f[n + 1][2] = After(n + 1, f[n][2])
    <3>1. f[n][1] = n /\ f[n][2] <= n /\ f[n][2] \in Nat
      BY <1>2, <1>3
    <3>2. f[n + 1] = <<n + 1, After(n + 1, f[n][2])>>
      BY <1>2, <3>1
    <3> QED  BY <3>1, <3>2
  <2> QED  BY <2>1
<1> HIDE DEF S, V
<1> DEFINE scan == [k \in Slots |-> f[k][2]]
<1>5. scan \in Scans(table)
  <2>1. \A k \in Slots : k \in Nat /\ k <= Capacity - 1
    BY CapacityAssumption DEF Slots
  <2>2. \A k \in Slots : scan[k] <= k /\ scan[k] \in Nat
    BY <1>4, <2>1
  <2>3. scan \in [Slots -> Slots]
    <3>1. \A k \in Slots : f[k][2] \in Slots
      BY <1>4, <2>1, CapacityAssumption DEF Slots
    <3> QED  BY <3>1
  <2>4. ASSUME NEW k \in Slots \ {0} PROVE scan[k] = After(k, scan[k - 1])
    <3>1. k - 1 \in Nat /\ k - 1 \in Slots /\ (k - 1) + 1 = k
      BY CapacityAssumption DEF Slots
    <3>2. f[(k - 1) + 1][2] = After((k - 1) + 1, f[k - 1][2])
      BY <1>4, <3>1
    <3> QED  BY <3>1, <3>2
  <2> HIDE DEF scan
  <2> QED  BY <2>2, <2>3, <2>4 DEF Scans
<1> HIDE DEF scan
<1>6. ASSUME NEW other \in Scans(table) PROVE other = scan
  <2> DEFINE Same == {k \in Nat : k \in Slots => other[k] = scan[k]}
  <2>1. /\ other \in [Slots -> Slots] /\ scan \in [Slots -> Slots]
        /\ \A k \in Slots : other[k] <= k /\ scan[k] <= k
        /\ \A k \in Slots \ {0} : /\ other[k] = After(k, other[k - 1])
                                  /\ scan[k] = After(k, scan[k - 1])
    BY <1>5 DEF Scans
  <2> HIDE DEF After
  <2>2. 0 \in Same
    BY <2>1 DEF Slots
  <2>3. ASSUME NEW k \in Nat, k \in Same PROVE k + 1 \in Same
    <3>1. k + 1 \in Slots => /\ k \in Slots /\ k + 1 \in Slots \ {0}
                             /\ (k + 1) - 1 = k
      BY CapacityAssumption DEF Slots
    <3>2. k + 1 \in Slots => other[k] = scan[k]
      BY <2>3, <3>1
    <3>3. k + 1 \in Slots => /\ other[k + 1] = After(k + 1, other[k])
                             /\ scan[k + 1] = After(k + 1, scan[k])
      BY <2>1, <3>1
    <3> QED  BY <3>2, <3>3
  <2> HIDE DEF Same
  <2>4. Nat \subseteq Same
    BY <2>2, <2>3, Induction
  <2>5. \A k \in Slots : other[k] = scan[k]
    BY <2>4, CapacityAssumption DEF Same, Slots
  <2> QED  BY <2>1, <2>5
<1> QED  BY <1>5, <1>6

\* bmc chooses one record, whatever the table holds.
THEOREM OneChoice == \A table : \E best : BestSlots(table) = {best}
<1> SUFFICES ASSUME NEW table PROVE \E best : BestSlots(table) = {best}
  OBVIOUS
<1>1. PICK scan : Scans(table) = {scan}
  BY OneScan
<1>2. BestSlots(table) = {IF table.count = 0 THEN 0 ELSE scan[table.count - 1]}
  BY <1>1 DEF BestSlots
<1> QED  BY <1>2

\* Of records of different grandmasters bmc chooses the worst: the loop takes the
\* negative result, which says that the record compared with is better.
THEOREM WorstIsChosen ==
  ASSUME NEW table, table.records \in [Slots -> DataSet],
         table.count \in 1..Capacity,
         \A j, k \in 0..(table.count - 1) :
           j # k => table.records[j].gm # table.records[k].gm,
         NEW best \in BestSlots(table), NEW slot \in 0..(table.count - 1),
         slot # best
  PROVE  BetterThan(table.records[slot], table.records[best])
<1> DEFINE records == table.records
           Used == 0..(table.count - 1)
<1>1. PICK scan \in Scans(table) : best = scan[table.count - 1]
  BY DEF BestSlots
<1>2. /\ Used \subseteq Slots /\ Used \subseteq Nat /\ table.count - 1 \in Used
      /\ records \in [Slots -> DataSet]
      /\ scan \in [Slots -> Slots] /\ \A k \in Slots : scan[k] <= k
      /\ \A k \in Slots \ {0} :
           scan[k] = IF Replaces(records[k], records[scan[k - 1]])
                       THEN k ELSE scan[k - 1]
  <2>1. Used \subseteq Slots /\ Used \subseteq Nat /\ table.count - 1 \in Used
    BY CapacityAssumption DEF Slots
  <2>2. scan \in [Slots -> Slots] /\ \A k \in Slots : scan[k] <= k
    BY <1>1 DEF Scans
  <2>3. \A k \in Slots \ {0} :
          scan[k] = IF Replaces(records[k], records[scan[k - 1]])
                      THEN k ELSE scan[k - 1]
    BY <1>1 DEF Scans
  <2> QED  BY <2>1, <2>2, <2>3
<1> DEFINE Loses(k) == \A j \in 0..k :
                         j = scan[k] \/ BetterThan(records[j], records[scan[k]])
           S == {k \in Nat : k \in Used => Loses(k)}
<1>3. 0 \in S
  <2>1. 0 \in Slots /\ scan[0] \in Nat /\ scan[0] <= 0
    BY <1>2, CapacityAssumption DEF Slots
  <2> QED  BY <2>1
<1>4. ASSUME NEW k \in Nat, k \in S, k + 1 \in Used PROVE Loses(k + 1)
  <2> DEFINE new == records[k + 1]
             old == records[scan[k]]
  <2>1. k \in Used /\ k \in Slots /\ k + 1 \in Slots \ {0} /\ (k + 1) - 1 = k
    BY <1>2, <1>4
  <2>2. Loses(k)
    BY <1>4, <2>1
  <2>3. scan[k] \in 0..k /\ scan[k] \in Used
    BY <1>2, <2>1 DEF Slots
  <2>4. scan[k + 1] = IF Replaces(new, old) THEN k + 1 ELSE scan[k]
    BY <1>2, <2>1
  <2>5. /\ \A j \in 0..(k + 1) : j \in Used /\ records[j] \in DataSet
        /\ new \in DataSet /\ old \in DataSet /\ new.gm # old.gm
    BY <1>2, <1>4, <2>1, <2>3
  <2>6. Replaces(new, old) <=> ~BetterThan(new, old) /\ BetterThan(old, new)
    BY DEF Replaces, bmcDataSetComparison
  <2>7. BetterThan(new, old) \/ BetterThan(old, new)
    BY <2>5, GrandmastersOrdered
  <2>8. CASE Replaces(new, old)
    <3>1. scan[k + 1] = k + 1 /\ BetterThan(old, new)
      BY <2>4, <2>6, <2>8
    <3>2. ASSUME NEW j \in 0..(k + 1), j # k + 1 PROVE BetterThan(records[j], new)
      <4>1. j \in 0..k /\ j \in Used /\ records[j] \in DataSet
        BY <2>5, <3>2
      <4>2. CASE j = scan[k]
        BY <3>1, <4>2
      <4>3. CASE j # scan[k]
        <5>1. BetterThan(records[j], old)
          BY <2>2, <4>1, <4>3
        <5>2. records[j].gm # old.gm /\ records[j].gm # new.gm
          BY <1>4, <2>3, <3>2, <4>1, <4>3
        <5> QED  BY <2>5, <3>1, <4>1, <5>1, <5>2, GrandmastersOrdered
      <4> QED  BY <4>2, <4>3
    <3> QED  BY <3>1, <3>2
  <2>9. CASE ~Replaces(new, old)
    <3>1. scan[k + 1] = scan[k] /\ BetterThan(new, old)
      BY <2>4, <2>6, <2>7, <2>9
    <3>2. \A j \in 0..(k + 1) : j \in 0..k \/ j = k + 1
      OBVIOUS
    <3> QED  BY <2>2, <3>1, <3>2
  <2> QED  BY <2>8, <2>9
<1>5. \A k \in Nat : k \in S => k + 1 \in S
  BY <1>4
<1>6. Nat \subseteq S
  <2> HIDE DEF S
  <2> QED  BY <1>3, <1>5, Induction
<1>7. Loses(table.count - 1)
  BY <1>2, <1>6
<1> QED  BY <1>1, <1>7

(***************************************************************************)
(* Types.                                                                  *)
(***************************************************************************)

\* bmc's choice and the table it leaves are well typed, whatever it compares.
LEMMA ChoiceType ==
  ASSUME NEW table, table.count \in 0..Capacity, NEW best \in BestSlots(table)
  PROVE  /\ best \in Slots
         /\ table.count > 0 => best < table.count
PROOF
  <1>1. CASE table.count = 0
    BY <1>1 DEF BestSlots, Slots
  <1>2. CASE table.count # 0
    <2>1. PICK scan \in Scans(table) : best = scan[table.count - 1]
      BY <1>2 DEF BestSlots
    <2>2. scan \in [Slots -> Slots] /\ \A k \in Slots : scan[k] <= k
      BY <2>1 DEF Scans
    <2>3. table.count - 1 \in Slots
      BY <1>2 DEF Slots
    <2>4. QED
      BY <2>1, <2>2, <2>3 DEF Slots
  <1>3. QED
    BY <1>1, <1>2

Table == [records : [Slots -> DataSet], count : 0..Capacity,
          i : Slots, best : Slots]

\* addForeign keeps the indices inside the table.
LEMMA AddForeignType ==
  ASSUME NEW table \in Table, NEW announce \in DataSet
  PROVE  addForeign(table, announce) \in Table
PROOF
  <1> DEFINE new == addForeign(table, announce)
  <1>1. new.records \in [Slots -> DataSet]
    BY DEF addForeign, Table
  <1>2. new.count \in 0..Capacity
    BY DEF addForeign, Table
  <1>3. new.i \in Slots
    BY DEF addForeign, Table, Slots
  <1>4. new.best \in Slots
    BY DEF addForeign, Table
  <1>5. new = [records |-> new.records, count |-> new.count,
               i |-> new.i, best |-> new.best]
    BY DEF addForeign
  <1>6. QED
    BY <1>1, <1>2, <1>3, <1>4, <1>5 DEF Table

LEMMA DataSets ==
  /\ m1 \in DataSet
  /\ BlankRecord \in DataSet
  /\ \A announce \in DataSet : s1(announce) \in DataSet
PROOF
  BY DEF m1, D0, OwnPort, BlankRecord, s1, DataSet, PortIdentity, Attribute
PortTypeOK == /\ portState \in PortState
              /\ recommendedState \in PortState
              /\ timers \in [Timer -> {"stopped", "running", "expired"}]
              /\ waitingForFollowUp \in BOOLEAN

LEMMA ToStateType ==
  ASSUME PortTypeOK, NEW new \in PortState, NEW recommended \in PortState,
         NEW waiting \in BOOLEAN, toState(new, recommended, waiting)
  PROVE  PortTypeOK'
PROOF
  <1>1. portState' \in PortState /\ recommendedState' \in PortState
    BY DEF toState, RecommendedOnEntry
  <1>2. timers' \in [Timer -> {"stopped", "running", "expired"}]
    BY DEF toState, PortTypeOK
  <1>3. waitingForFollowUp' \in BOOLEAN
    BY DEF toState
  <1>4. QED
    BY <1>1, <1>2, <1>3 DEF PortTypeOK

LEMMA FaultType ==
  ASSUME PortTypeOK, NEW waiting \in BOOLEAN, Fault(waiting)
  PROVE  PortTypeOK'
PROOF
  <1>1. recommendedState \in PortState /\ "FAULTY" \in PortState
    BY DEF PortTypeOK, PortState
  <1>2. QED
    BY <1>1, ToStateType DEF Fault

LEMMA RestartedType ==
  ASSUME PortTypeOK, NEW ts
  PROVE  Restarted(ts) \in [Timer -> {"stopped", "running", "expired"}]
PROOF
  BY DEF Restarted, PortTypeOK

LEMMA DelayRequestType ==
  ASSUME PortTypeOK, NEW waiting \in BOOLEAN, issueDelayReqTimerExpired(waiting)
  PROVE  PortTypeOK'
PROOF
  <1>1. CASE Fault(waiting)
    BY <1>1, FaultType
  <1>2. CASE ~Fault(waiting)
    <2>1. /\ timers' \in {timers, Restarted({DelayTimer})}
          /\ waitingForFollowUp' = waiting
          /\ UNCHANGED <<portState, recommendedState>>
      BY <1>2 DEF issueDelayReqTimerExpired
    <2>2. QED
      BY <2>1, RestartedType DEF PortTypeOK
  <1>3. QED
    BY <1>1, <1>2

\* The rest of TypeOK.
DataTypeOK == /\ pc \in Phase
              /\ events \subseteq Event
              /\ foreignMasterDS \in Table
              /\ parentDS \in DataSet
              /\ recvSyncSequenceId \in Nat
              /\ timestamp_syncRecieve \in PortIdentity
              /\ offsetFromMaster \in Offset

LEMMA TypeParts == TypeOK <=> PortTypeOK /\ DataTypeOK
PROOF
  BY DEF TypeOK, PortTypeOK, DataTypeOK, Table

LEMMA Zeroes == /\ ZeroOffset \in Offset
                /\ EmptyTable \in Table
                /\ \A table \in Table : /\ ForgetForeign(table) \in Table
                                        /\ [table EXCEPT !.count = 0] \in Table
                /\ \A table \in Table, slot \in Slots : Chosen(table, slot) \in Table
PROOF
  <1>1. 0 \in Slots /\ 0 \in 0..Capacity
    BY DEF Slots
  <1>2. ZeroOffset \in Offset
    BY DEF ZeroOffset, Offset, PortIdentity, OffsetClass
  <1>3. EmptyTable \in Table
    BY <1>1, DataSets DEF EmptyTable, Table
  <1>4. QED
    BY <1>1, <1>2, <1>3 DEF ForgetForeign, Chosen, Table

\* The variables have their types in every reachable state.
THEOREM TypeCorrect == Spec => []TypeOK
PROOF
  <1>1. Init => TypeOK
    <2>1. Init => PortTypeOK
      BY DEF Init, PortTypeOK, PortState
    <2>2. Init => DataTypeOK
      BY DataSets, Zeroes DEF Init, DataTypeOK, Phase, PortIdentity
    <2>3. QED
      BY <2>1, <2>2, TypeParts
  <1>2. TypeOK /\ [Next]_vars => TypeOK'
    <2> SUFFICES ASSUME PortTypeOK, DataTypeOK, [Next]_vars
                 PROVE  PortTypeOK' /\ DataTypeOK'
      BY DEF TypeOK, PortTypeOK, DataTypeOK, Table
    <2> USE DEF DataTypeOK
    <2>1. CASE WakeUp
      BY <2>1 DEF WakeUp, PortTypeOK, portVars, masterVars, syncVars, Phase
    <2>2. ASSUME NEW t \in Timer, TimerExpires(t)
          PROVE  PortTypeOK' /\ DataTypeOK'
      BY <2>2 DEF TimerExpires, PortTypeOK, masterVars, syncVars
    <2>3. CASE StateDecision
      <3>1. PICK best \in BestSlots(foreignMasterDS) :
              LET record == foreignMasterDS.records[best]
                  decision == bmcStateDecision(portState, foreignMasterDS.count,
                                               record)
              IN  /\ foreignMasterDS' = Chosen(foreignMasterDS, best)
                  /\ CASE decision = "MASTER" ->
                            /\ NewParent(m1, decision, {})
                            /\ offsetFromMaster' = ZeroOffset
                       [] decision = "SLAVE" ->
                            /\ NewParent(s1(record), decision,
                                 IF record.source = parentDS.source
                                   THEN {} ELSE {"MASTER_CLOCK_CHANGED"})
                            /\ UNCHANGED offsetFromMaster
                       [] OTHER ->
                            /\ NewParent(parentDS, decision, {})
                            /\ UNCHANGED offsetFromMaster
        BY <2>3 DEF StateDecision
      <3>2. best \in Slots /\ foreignMasterDS.records[best] \in DataSet
        BY ChoiceType DEF Table
      <3>3. foreignMasterDS' \in Table
        BY <3>1, <3>2, Zeroes
      <3>4. bmcStateDecision(portState, foreignMasterDS.count,
                             foreignMasterDS.records[best])
              \in {"LISTENING", "MASTER", "PASSIVE", "SLAVE"}
        BY DEF bmcStateDecision
      <3>5. parentDS' \in DataSet /\ recommendedState' \in PortState
        BY <3>1, <3>2, <3>4, DataSets DEF NewParent, Permitted, PortState
      <3>6. events' \subseteq Event
        BY <3>1, <3>4 DEF NewParent, Event
      <3>7. offsetFromMaster' \in Offset
        BY <3>1, <3>4, Zeroes
      <3>8. QED
        BY <2>3, <3>3, <3>5, <3>6, <3>7
        DEF StateDecision, PortTypeOK, syncVars, Phase
    <2>4. CASE NoStateDecision
      BY <2>4 DEF NoStateDecision, PortTypeOK, portVars, masterVars, syncVars, Phase
    <2>5. CASE FollowRecommendation
      <3>1. Target \in PortState
        BY DEF Target, PortTypeOK, PortState
      <3>2. PortTypeOK'
        <4>1. CASE Target = portState
          BY <2>5, <4>1 DEF FollowRecommendation, PortTypeOK, portVars
        <4>2. CASE Target # portState
          BY <2>5, <3>1, <4>2, ToStateType DEF FollowRecommendation, PortTypeOK
        <4>3. QED
          BY <4>1, <4>2
      <3>3. DataTypeOK'
        BY <2>5 DEF FollowRecommendation, masterVars, syncVars, Phase
      <3>4. QED
        BY <3>2, <3>3
    <2>6. CASE Initialize
      <3>1. PortTypeOK'
        <4>1. /\ {"INITIALIZING", "LISTENING"} \subseteq PortState
              /\ recommendedState \in PortState
              /\ waitingForFollowUp \in BOOLEAN
              /\ FALSE \in BOOLEAN
          BY DEF PortTypeOK, PortState
        <4>2. QED
          BY <2>6, <4>1, ToStateType DEF Initialize
      <3>2. DataTypeOK'
        BY <2>6, DataSets, Zeroes DEF Initialize, doInit, masterVars, syncVars, Phase
      <3>3. QED
        BY <3>1, <3>2
    <2>7. CASE AnnounceReceiptTimeout
      <3>1. PortTypeOK'
        <4>1. /\ {"MASTER", "LISTENING"} \subseteq PortState
              /\ recommendedState \in PortState
              /\ waitingForFollowUp \in BOOLEAN
          BY DEF PortTypeOK, PortState
        <4>2. CASE TakesOver
          BY <4>1, <4>2, ToStateType DEF TakesOver
        <4>3. CASE ListensAgain
          <5>1. CASE portState # "LISTENING"
            BY <4>1, <4>3, <5>1, ToStateType DEF ListensAgain
          <5>2. CASE portState = "LISTENING"
            BY <4>3, <5>2, RestartedType DEF ListensAgain, PortTypeOK
          <5>3. QED
            BY <5>1, <5>2
        <4>4. QED
          BY <2>7, <4>2, <4>3 DEF AnnounceReceiptTimeout
      <3>2. DataTypeOK'
        BY <2>7, DataSets, Zeroes
        DEF AnnounceReceiptTimeout, TakesOver, ListensAgain, syncVars, Phase
      <3>3. QED
        BY <3>1, <3>2
    <2>8. CASE Listen
      BY <2>8 DEF Listen, PortTypeOK, portVars, masterVars, syncVars, Phase
    <2>9. CASE MasterSends
      <3>1. PICK due : \/ /\ timers' = Restarted(due)
                          /\ UNCHANGED <<portState, recommendedState,
                                         waitingForFollowUp>>
                       \/ Fault(waitingForFollowUp)
        BY <2>9 DEF MasterSends, issue
      <3>2. PortTypeOK'
        BY <3>1, FaultType, RestartedType DEF PortTypeOK
      <3>3. DataTypeOK'
        BY <2>9 DEF MasterSends, issue, masterVars, syncVars, Phase
      <3>4. QED
        BY <3>2, <3>3
    <2>10. CASE RequestDelay
      BY <2>10, DelayRequestType
      DEF RequestDelay, PortTypeOK, masterVars, syncVars, Phase
    <2>11. CASE Disregard
      BY <2>11 DEF Disregard, Handled, PortTypeOK, portVars, masterVars, syncVars, Phase
    <2>12. CASE HandleShortMessage
      BY <2>12, FaultType
      DEF HandleShortMessage, Handled, PortTypeOK, masterVars, syncVars, Phase
    <2>13. ASSUME NEW announce \in Announces, HandleAnnounce(announce)
           PROVE  PortTypeOK' /\ DataTypeOK'
      <3>1. announce \in DataSet
        OBVIOUS
      <3>2. /\ s1(announce) \in DataSet
            /\ addForeign(foreignMasterDS, announce) \in Table
        BY <3>1, DataSets, AddForeignType
      <3>3. DataTypeOK'
        BY <2>13, <3>2 DEF HandleAnnounce, Handled, syncVars, Phase, Event
      <3>4. PortTypeOK'
        BY <2>13, RestartedType DEF HandleAnnounce, PortTypeOK
      <3>5. QED
        BY <3>3, <3>4
    <2>14. ASSUME NEW sync \in Syncs, HandleTwoStepSync(sync)
           PROVE  PortTypeOK' /\ DataTypeOK'
      BY <2>14 DEF HandleTwoStepSync, Handled, PortTypeOK, masterVars, Phase
    <2>15. ASSUME NEW sync \in Syncs, HandleOneStepSync(sync)
           PROVE  PortTypeOK' /\ DataTypeOK'
      <3>1. PICK class \in OffsetClass :
              updateOffset(sync.source, sync.source, class)
        BY <2>15 DEF HandleOneStepSync
      <3>2. sync.source \in PortIdentity
        OBVIOUS
      <3>3. offsetFromMaster' \in Offset /\ events' \subseteq Event
        BY <3>1, <3>2 DEF updateOffset, Offset, Event
      <3>4. PortTypeOK'
        BY <2>15, DelayRequestType DEF HandleOneStepSync
      <3>5. QED
        BY <2>15, <3>2, <3>3, <3>4
        DEF HandleOneStepSync, Handled, masterVars, Phase
    <2>16. ASSUME NEW followUp \in FollowUps, HandleFollowUp(followUp)
           PROVE  PortTypeOK' /\ DataTypeOK'
      <3>1. PICK class \in OffsetClass :
              updateOffset(timestamp_syncRecieve, followUp.source, class)
        BY <2>16 DEF HandleFollowUp
      <3>2. followUp.source \in PortIdentity
        OBVIOUS
      <3>3. offsetFromMaster' \in Offset /\ events' \subseteq Event
        BY <3>1, <3>2 DEF updateOffset, Offset, Event
      <3>4. PortTypeOK'
        BY <2>16, DelayRequestType DEF HandleFollowUp
      <3>5. QED
        BY <2>16, <3>3, <3>4
        DEF HandleFollowUp, Handled, masterVars, syncVars, Phase
    <2>17. CASE HandlePassiveSync
      BY <2>17, DelayRequestType
      DEF HandlePassiveSync, Handled, PortTypeOK, masterVars, syncVars, Phase
    <2>18. CASE HandleDelayReq \/ HandlePDelayReq
      BY <2>18, FaultType
      DEF AnswerFails, HandleDelayReq, HandlePDelayReq, Handled, PortTypeOK,
          masterVars, syncVars, Phase
    <2>19. CASE UNCHANGED vars
      BY <2>19 DEF vars, PortTypeOK, portVars, masterVars, syncVars
    <2>20. QED
      BY <2>1, <2>2, <2>3, <2>4, <2>5, <2>6, <2>7, <2>8, <2>9, <2>10, <2>11,
         <2>12, <2>13, <2>14, <2>15, <2>16, <2>17, <2>18, <2>19
      DEF Next, Thread
  <1>3. QED
    BY <1>1, <1>2, PTL DEF Spec
(***************************************************************************)
(* Timers.                                                                 *)
(***************************************************************************)

\* toState stops what the old state was driven by and starts what drives the
\* new one.  SLAVE starts nothing: it is only entered from UNCALIBRATED.
LEMMA ToStateTimers ==
  ASSUME PortTypeOK, TimersMatchState, NEW new \in PortState, NEW recommended,
         NEW waiting, toState(new, recommended, waiting),
         new = "SLAVE" => portState \in SlaveState
  PROVE  TimersMatchState'
PROOF
  <1> DEFINE Kept == DrivenBy(portState) \ StoppedOnExit(portState, new)
  <1>1. portState' = new
    BY DEF toState
  <1>2. {t \in Timer : timers'[t] # "stopped"} = Kept \union StartedOnEntry(new)
    <2>1. \A t \in Timer : timers'[t] =
            IF t \in StartedOnEntry(new) THEN "running"
            ELSE IF t \in StoppedOnExit(portState, new) THEN "stopped"
            ELSE timers[t]
      BY DEF toState
    <2>2. StartedOnEntry(new) \subseteq Timer
      BY MechanismAssumption DEF StartedOnEntry, Timer, PeerTimer, DelayTimer
    <2>3. {t \in Timer : timers[t] # "stopped"} = DrivenBy(portState)
      BY DEF TimersMatchState
    <2>4. QED
      BY <2>1, <2>2, <2>3
  <1>3. Kept \union StartedOnEntry(new) = DrivenBy(new)
    <2>1. PICK old \in PortState : old = portState
      BY DEF PortTypeOK
    <2> HIDE DEF Kept
    <2>2. Kept = DrivenBy(old) \ StoppedOnExit(old, new)
      BY <2>1 DEF Kept
    <2>3. DelayMechanism = "E2E" \/ DelayMechanism = "P2P"
      BY MechanismAssumption
    <2>4. QED
      BY <2>1, <2>2, <2>3
      DEF PortState, SlaveState, DrivenBy, StoppedOnExit, StartedOnEntry,
          DelayTimer, PeerTimer
  <1>4. QED
    BY <1>1, <1>2, <1>3 DEF TimersMatchState

\* Restarting timers that are active changes nothing.
LEMMA RestartTimers ==
  ASSUME PortTypeOK, TimersMatchState,
         NEW ts, \A t \in Timer : t \in ts => timers[t] # "stopped",
         timers' = Restarted(ts), portState' = portState
  PROVE  TimersMatchState'
PROOF
  <1>1. \A t \in Timer : timers'[t] # "stopped" <=> timers[t] # "stopped"
    BY DEF Restarted
  <1>2. QED
    BY <1>1 DEF TimersMatchState

LEMMA SameTimers ==
  ASSUME TimersMatchState, UNCHANGED <<timers, portState>>
  PROVE  TimersMatchState'
PROOF
  BY DEF TimersMatchState

LEMMA FaultTimers ==
  ASSUME PortTypeOK, TimersMatchState, NEW waiting, Fault(waiting)
  PROVE  TimersMatchState'
PROOF
  <1>1. "FAULTY" \in PortState
    BY DEF PortState
  <1>2. QED
    BY <1>1, ToStateTimers DEF Fault

LEMMA DelayRequestTimers ==
  ASSUME PortTypeOK, TimersMatchState, NEW waiting,
         issueDelayReqTimerExpired(waiting)
  PROVE  TimersMatchState'
PROOF
  <1>1. CASE Fault(waiting)
    BY <1>1, FaultTimers
  <1>2. CASE ~Fault(waiting)
    <2>1. /\ portState' = portState
          /\ \/ timers' = timers
             \/ /\ timers[DelayTimer] = "expired"
                /\ timers' = Restarted({DelayTimer})
      BY <1>2 DEF issueDelayReqTimerExpired
    <2>2. CASE timers' = timers
      BY <2>1, <2>2, SameTimers
    <2>3. CASE timers' # timers
      BY <2>1, <2>3, RestartTimers
    <2>4. QED
      BY <2>2, <2>3
  <1>3. QED
    BY <1>1, <1>2

\* In every reachable state the active timers are those that drive the state.
THEOREM TimersCorrect == Spec => []TimersMatchState
PROOF
  <1>1. Init => TimersMatchState
    <2>1. DrivenBy("INITIALIZING") = {}
      BY DEF DrivenBy, SlaveState
    <2>2. ASSUME Init PROVE \A t \in Timer : timers[t] = "stopped"
      BY <2>2 DEF Init
    <2>3. ASSUME Init PROVE portState = "INITIALIZING"
      BY <2>3 DEF Init
    <2>4. QED
      BY <2>1, <2>2, <2>3 DEF TimersMatchState
  <1>2. TypeOK /\ TimersMatchState /\ [Next]_vars => TimersMatchState'
    <2> SUFFICES ASSUME PortTypeOK, TimersMatchState, [Next]_vars
                 PROVE  TimersMatchState'
      BY TypeParts
    <2>1. CASE WakeUp \/ NoStateDecision \/ Listen \/ Disregard \/ UNCHANGED vars
      BY <2>1, SameTimers DEF WakeUp, NoStateDecision, Listen, Disregard, vars, portVars
    <2>2. ASSUME NEW t \in Timer, TimerExpires(t)
          PROVE  TimersMatchState'
      <3>1. timers[t] = "running" /\ timers' = [timers EXCEPT ![t] = "expired"]
            /\ portState' = portState
        BY <2>2 DEF TimerExpires
      <3>2. \A u \in Timer : timers'[u] # "stopped" <=> timers[u] # "stopped"
        BY <3>1 DEF PortTypeOK
      <3>3. QED
        BY <3>1, <3>2 DEF TimersMatchState
    <2>3. CASE StateDecision
      BY <2>3, SameTimers DEF StateDecision
    <2>4. CASE FollowRecommendation
      <3>1. CASE Target = portState
        BY <2>4, <3>1, SameTimers DEF FollowRecommendation, portVars
      <3>2. CASE Target # portState
        <4>1. Target \in PortState
          BY DEF Target, PortTypeOK, PortState
        <4>2. recommendedState # "SLAVE" => Target # "SLAVE" \/ Target = portState
          BY DEF Target
        <4>3. Target = "SLAVE" => portState \in SlaveState
          BY <3>2, <4>2 DEF Target, SlaveState
        <4>4. toState(Target, recommendedState, waitingForFollowUp)
          BY <2>4, <3>2 DEF FollowRecommendation
        <4>5. QED
          BY <4>1, <4>3, <4>4, ToStateTimers
      <3>3. QED
        BY <3>1, <3>2
    <2>5. CASE Initialize
      <3>1. {"INITIALIZING", "LISTENING"} \subseteq PortState
        BY DEF PortState
      <3>2. QED
        BY <2>5, <3>1, ToStateTimers DEF Initialize
    <2>6. CASE AnnounceReceiptTimeout
      <3>1. {"MASTER", "LISTENING"} \subseteq PortState
        BY DEF PortState
      <3>2. CASE TakesOver
        BY <3>1, <3>2, ToStateTimers DEF TakesOver
      <3>3. CASE ListensAgain
        <4>1. CASE portState # "LISTENING"
          BY <3>1, <3>3, <4>1, ToStateTimers DEF ListensAgain
        <4>2. CASE portState = "LISTENING"
          BY <2>6, <3>3, <4>2, RestartTimers DEF ListensAgain, AnnounceReceiptTimeout
        <4>3. QED
          BY <4>1, <4>2
      <3>4. QED
        BY <2>6, <3>2, <3>3 DEF AnnounceReceiptTimeout
    <2>7. CASE MasterSends
      <3>1. CASE Fault(waitingForFollowUp)
        BY <3>1, FaultTimers
      <3>2. CASE ~Fault(waitingForFollowUp)
        <4> DEFINE due == {t \in {"SYNC_INTERVAL", "ANNOUNCE_INTERVAL"} :
                             timers[t] = "expired"}
        <4>1. timers' = Restarted(due) /\ portState' = portState
          BY <2>7, <3>2 DEF MasterSends, issue
        <4>2. \A t \in Timer : t \in due => timers[t] # "stopped"
          OBVIOUS
        <4> HIDE DEF due
        <4>3. QED
          BY <4>1, <4>2, RestartTimers
      <3>3. QED
        BY <3>1, <3>2
    <2>8. CASE RequestDelay \/ HandlePassiveSync
      BY <2>8, DelayRequestTimers DEF RequestDelay, HandlePassiveSync
    <2>9. CASE HandleShortMessage \/ HandleDelayReq \/ HandlePDelayReq
      BY <2>9, FaultTimers DEF HandleShortMessage, AnswerFails,
          HandleDelayReq, HandlePDelayReq
    <2>10. ASSUME NEW announce \in Announces, HandleAnnounce(announce)
           PROVE  TimersMatchState'
      <3>1. CASE ~KeepsWaiting(announce.source)
        BY <2>10, <3>1, SameTimers DEF HandleAnnounce
      <3>2. CASE KeepsWaiting(announce.source)
        <4>1. portState \in SlaveState \union {"PASSIVE"}
          BY <3>2 DEF KeepsWaiting, IsFromCurrentParent
        <4>2. "ANNOUNCE_RECEIPT" \in DrivenBy(portState)
          BY <4>1 DEF DrivenBy, SlaveState
        <4>3. timers["ANNOUNCE_RECEIPT"] # "stopped"
          BY <4>2 DEF TimersMatchState
        <4>4. /\ timers' = Restarted({"ANNOUNCE_RECEIPT"})
              /\ portState' = portState
          BY <2>10, <3>2 DEF HandleAnnounce
        <4>5. QED
          BY <4>3, <4>4, RestartTimers
      <3>3. QED
        BY <3>1, <3>2
    <2>11. ASSUME NEW sync \in Syncs,
                  HandleTwoStepSync(sync) \/ HandleOneStepSync(sync)
           PROVE  TimersMatchState'
      BY <2>11, SameTimers, DelayRequestTimers
      DEF HandleTwoStepSync, HandleOneStepSync
    <2>12. ASSUME NEW followUp \in FollowUps, HandleFollowUp(followUp)
           PROVE  TimersMatchState'
      BY <2>12, DelayRequestTimers DEF HandleFollowUp
    <2>13. QED
      BY <2>1, <2>2, <2>3, <2>4, <2>5, <2>6, <2>7, <2>8, <2>9, <2>10, <2>11, <2>12
      DEF Next, Thread
  <1>3. QED
    BY <1>1, <1>2, TypeCorrect, PTL DEF Spec
(***************************************************************************)
(* Roles.                                                                  *)
(***************************************************************************)

\* A slave-only clock is never master or passive.
THEOREM SlaveOnlyCorrect == Spec => []SlaveOnlyNeverMaster
PROOF
  <1>1. Init => SlaveOnlyNeverMaster
    BY DEF Init, SlaveOnlyNeverMaster
  <1>2. SlaveOnlyNeverMaster /\ [Next]_vars => SlaveOnlyNeverMaster'
    <2> SUFFICES ASSUME SlaveOnlyNeverMaster, [Next]_vars, SlaveOnlyClock
                 PROVE  /\ portState' \notin {"MASTER", "PASSIVE"}
                        /\ recommendedState' \notin {"MASTER", "PASSIVE"}
      BY DEF SlaveOnlyNeverMaster, SlaveOnlyClock
    <2>1. /\ portState \notin {"MASTER", "PASSIVE"}
          /\ recommendedState \notin {"MASTER", "PASSIVE"}
      BY DEF SlaveOnlyNeverMaster
    <2>2. ASSUME NEW new, new \notin {"MASTER", "PASSIVE"}, NEW waiting,
                 toState(new, recommendedState, waiting)
          PROVE  /\ portState' \notin {"MASTER", "PASSIVE"}
                 /\ recommendedState' \notin {"MASTER", "PASSIVE"}
      BY <2>1, <2>2 DEF toState, RecommendedOnEntry
    <2>3. ASSUME NEW waiting,
                 Fault(waiting) \/ issueDelayReqTimerExpired(waiting)
          PROVE  /\ portState' \notin {"MASTER", "PASSIVE"}
                 /\ recommendedState' \notin {"MASTER", "PASSIVE"}
      BY <2>1, <2>2, <2>3 DEF Fault, issueDelayReqTimerExpired
    <2>4. CASE StateDecision
      <3>1. \A decision : Permitted(decision) \notin {"MASTER", "PASSIVE"}
        BY DEF Permitted
      <3>2. portState' = portState
        BY <2>4 DEF StateDecision
      <3>3. \E decision : recommendedState' = Permitted(decision)
        BY <2>4 DEF StateDecision, NewParent
      <3>4. QED
        BY <2>1, <3>1, <3>2, <3>3
    <2>5. CASE FollowRecommendation
      <3>1. Target \notin {"MASTER", "PASSIVE"}
        BY <2>1 DEF Target
      <3>2. QED
        BY <2>1, <2>2, <2>5, <3>1 DEF FollowRecommendation, portVars
    <2>6. CASE Initialize
      BY <2>1, <2>2, <2>6 DEF Initialize, toState, RecommendedOnEntry
    <2>7. CASE AnnounceReceiptTimeout
      <3>1. ListensAgain
        BY <2>7 DEF AnnounceReceiptTimeout
      <3>2. QED
        BY <2>1, <2>2, <3>1 DEF ListensAgain
    <2>8. CASE MasterSends
      BY <2>1, <2>8 DEF MasterSends, issue
    <2>9. CASE \/ RequestDelay \/ HandlePassiveSync
               \/ HandleShortMessage \/ HandleDelayReq \/ HandlePDelayReq
      BY <2>3, <2>9
      DEF RequestDelay, HandlePassiveSync, HandleShortMessage, AnswerFails,
          HandleDelayReq, HandlePDelayReq
    <2>10. CASE \/ WakeUp \/ NoStateDecision \/ Listen \/ Disregard
                \/ UNCHANGED vars
                \/ \E t \in Timer : TimerExpires(t)
                \/ \E announce \in Announces : HandleAnnounce(announce)
                \/ \E sync \in Syncs : HandleTwoStepSync(sync)
      BY <2>1, <2>10
      DEF WakeUp, NoStateDecision, Listen, Disregard, vars, portVars,
          TimerExpires, HandleAnnounce, HandleTwoStepSync
    <2>11. ASSUME NEW sync \in Syncs, HandleOneStepSync(sync)
           PROVE  /\ portState' \notin {"MASTER", "PASSIVE"}
                  /\ recommendedState' \notin {"MASTER", "PASSIVE"}
      BY <2>3, <2>11 DEF HandleOneStepSync
    <2>12. ASSUME NEW followUp \in FollowUps, HandleFollowUp(followUp)
           PROVE  /\ portState' \notin {"MASTER", "PASSIVE"}
                  /\ recommendedState' \notin {"MASTER", "PASSIVE"}
      BY <2>3, <2>12 DEF HandleFollowUp
    <2>13. QED
      BY <2>4, <2>5, <2>6, <2>7, <2>8, <2>9, <2>10, <2>11, <2>12 DEF Next, Thread
  <1>3. QED
    BY <1>1, <1>2, PTL DEF Spec
(***************************************************************************)
(* The decision, the recommendation and the table of foreign masters.      *)
(*                                                                         *)
(* RecommendationAgrees, RecordsReceived, DecisionHasARecord and           *)
(* DataSetMatchesRole are not inductive: a fault keeps the recommendation, *)
(* the events and the table, and the port returns to its role by them.     *)
(* Control adds what survives it.                                          *)
(***************************************************************************)

\* Between calls of doState the port is in the state recommended, is on its
\* way to it as UNCALIBRATED, or is FAULTY; the call repairs the latter.
Agreement ==
  /\ recommendedState \in {"INITIALIZING", "LISTENING", "MASTER", "PASSIVE",
                           "SLAVE"}
  /\ recommendedState = "INITIALIZING" => portState = "INITIALIZING"
  /\ pc # "follow" => \/ portState = recommendedState
                      \/ portState = "UNCALIBRATED" /\ recommendedState = "SLAVE"
                      \/ portState = "FAULTY"
  /\ pc = "act" => portState # "FAULTY"
  /\ pc = "handle" => portState \in ListenerState \union {"MASTER", "FAULTY"}
  /\ pc = "request" => portState \in {"MASTER", "FAULTY"}
  /\ pc \in {"handle", "request"} /\ portState = "FAULTY" =>
       recommendedState = "MASTER"

\* An undecided Announce has a record to decide on.  Only the MASTER case of
\* doState goes on sending after handle: only its flag can outlive a fault.
Undecided ==
  "STATE_DECISION_EVENT" \in events =>
    /\ foreignMasterDS.count > 0
    /\ portState # "INITIALIZING"
    /\ portState = "FAULTY" => recommendedState = "MASTER"
    /\ pc = "follow" => portState = "FAULTY"
    /\ pc \in {"act", "handle"} => portState \in {"MASTER", "FAULTY"}

Received == {announce \in Announces : announce.source # OwnPort}

\* The records in use come from other ports.
Recorded ==
  /\ \A k \in Slots : k < foreignMasterDS.count =>
       foreignMasterDS.records[k] \in Received
  /\ foreignMasterDS.count < Capacity => foreignMasterDS.i = foreignMasterDS.count
  /\ portState = "INITIALIZING" => foreignMasterDS.i = 0

\* parentDS describes the recommended role, not only the one that is reached.
Described ==
  /\ recommendedState \in {"MASTER", "PASSIVE"} => parentDS = m1
  /\ OwnClass < 128 /\ recommendedState # "INITIALIZING" => parentDS = m1
  /\ OwnClass < 128 => recommendedState # "SLAVE"
  /\ recommendedState = "SLAVE" =>
       /\ foreignMasterDS.count > 0
       /\ \E announce \in Received : parentDS = s1(announce)

Control == Agreement /\ Undecided /\ Recorded /\ Described
\* A fault keeps the recommendation; it may hit a port that has just sent as
\* master, or one that has no undecided Announce.
LEMMA FaultControl ==
  ASSUME PortTypeOK, DataTypeOK, Control, NEW waiting, Fault(waiting),
         \/ pc = "act" /\ portState = "MASTER" /\ pc' = "handle"
         \/ Handled
         \/ pc = "request" /\ pc' = "wait",
         events' \ {"MASTER_CLOCK_SELECTED", "SYNCHRONIZATION_FAULT"} \subseteq events,
         UNCHANGED masterVars
  PROVE  Control'
PROOF
  <1>1. portState' = "FAULTY" /\ recommendedState' = recommendedState
    BY DEF Fault, toState, RecommendedOnEntry
  <1>2. UNCHANGED <<foreignMasterDS, parentDS>>
    BY DEF masterVars
  <1>3. pc \in {"act", "handle", "request"} /\ pc' \in {"handle", "wait", "request"}
    BY DEF Handled
  <1>4. pc' # "wait" => recommendedState = "MASTER"
    BY DEF Handled, Control, Agreement, ListenerState, SlaveState
  <1>5. recommendedState # "INITIALIZING"
    BY DEF Handled, Control, Agreement, ListenerState, SlaveState
  <1>6. Agreement'
    BY <1>1, <1>3, <1>4, <1>5 DEF Control, Agreement
  <1>7. Undecided'
    <2>1. "STATE_DECISION_EVENT" \in events' => "STATE_DECISION_EVENT" \in events
      OBVIOUS
    <2>2. "STATE_DECISION_EVENT" \in events => recommendedState = "MASTER"
      BY <1>3 DEF Control, Agreement, Undecided
    <2>3. QED
      BY <1>1, <1>2, <1>3, <2>1, <2>2 DEF Control, Undecided
  <1>8. Recorded' /\ Described'
    BY <1>1, <1>2 DEF Control, Recorded, Described
  <1>9. QED
    BY <1>6, <1>7, <1>8 DEF Control

\* A step of handle or of the delay request that keeps the port's state.
LEMMA KeepControl ==
  ASSUME Control, UNCHANGED <<portState, recommendedState, masterVars>>,
         \/ Handled
         \/ pc = "request" /\ pc' = "wait",
         events' \ {"MASTER_CLOCK_SELECTED", "SYNCHRONIZATION_FAULT"} \subseteq events
  PROVE  Control'
PROOF
  <1>1. UNCHANGED <<foreignMasterDS, parentDS>>
    BY DEF masterVars
  <1>2. pc \in {"handle", "request"} /\ pc' \in {"wait", "request"}
    BY DEF Handled
  <1>3. pc' = "request" => portState \in {"MASTER", "FAULTY"}
    BY DEF Handled, Control, Agreement
  <1>4. Agreement'
    BY <1>2, <1>3 DEF Control, Agreement
  <1>5. Undecided'
    <2>1. "STATE_DECISION_EVENT" \in events' => "STATE_DECISION_EVENT" \in events
      OBVIOUS
    <2>2. QED
      BY <1>1, <1>2, <2>1 DEF Control, Undecided
  <1>6. Recorded' /\ Described'
    BY <1>1 DEF Control, Recorded, Described
  <1>7. QED
    BY <1>4, <1>5, <1>6 DEF Control

LEMMA DelayRequestControl ==
  ASSUME PortTypeOK, DataTypeOK, Control, NEW waiting,
         issueDelayReqTimerExpired(waiting),
         \/ Handled
         \/ pc = "request" /\ pc' = "wait",
         events' \ {"MASTER_CLOCK_SELECTED", "SYNCHRONIZATION_FAULT"} \subseteq events,
         UNCHANGED masterVars
  PROVE  Control'
PROOF
  <1>1. CASE Fault(waiting)
    BY <1>1, FaultControl
  <1>2. CASE ~Fault(waiting)
    <2>1. UNCHANGED <<portState, recommendedState>>
      BY <1>2 DEF issueDelayReqTimerExpired
    <2>2. QED
      BY <2>1, KeepControl
  <1>3. QED
    BY <1>1, <1>2

\* An Announce raises the decision event in a state that has a record for it,
\* or enters one.
LEMMA AnnounceControl ==
  ASSUME PortTypeOK, DataTypeOK, Control, NEW announce \in Announces,
         HandleAnnounce(announce)
  PROVE  Control'
PROOF
  <1>1. /\ UNCHANGED <<portState, recommendedState>>
        /\ events' = events \union {"STATE_DECISION_EVENT"}
        /\ pc = "handle" /\ pc' \in {"wait", "request"}
        /\ pc' = "request" => portState \notin ListenerState
        /\ portState # "FAULTY"
    BY DEF HandleAnnounce, Handled
  <1>2. portState \in ListenerState \union {"MASTER"}
    BY <1>1 DEF Control, Agreement
  <1>3. announce \in Received
    BY DEF HandleAnnounce, IsFromSelf, Received
  <1>4. Agreement'
    BY <1>1, <1>2 DEF Control, Agreement, ListenerState, SlaveState
  <1>5. portState # "INITIALIZING"
    BY <1>2 DEF ListenerState, SlaveState
  <1>6. CASE IsFromCurrentParent(announce.source)
    <2>1. parentDS' = s1(announce) /\ UNCHANGED foreignMasterDS
      BY <1>6 DEF HandleAnnounce
    <2>2. recommendedState = "SLAVE"
      BY <1>1, <1>6 DEF IsFromCurrentParent, Control, Agreement, SlaveState
    <2>3. foreignMasterDS.count > 0
      BY <2>2 DEF Control, Described
    <2>4. Undecided'
      BY <1>1, <1>5, <2>1, <2>3 DEF Undecided
    <2>5. Recorded'
      BY <1>1, <2>1 DEF Control, Recorded
    <2>6. Described'
      BY <1>1, <1>3, <2>1, <2>2, <2>3 DEF Control, Described
    <2>7. QED
      BY <1>4, <2>4, <2>5, <2>6 DEF Control
  <1>7. CASE ~IsFromCurrentParent(announce.source)
    <2> DEFINE table == foreignMasterDS
    <2>1. UNCHANGED parentDS /\ table' = addForeign(table, announce)
      BY <1>7 DEF HandleAnnounce
    <2>2. /\ table.count \in 0..Capacity /\ table.i \in 0..(Capacity - 1)
          /\ table'.count = IF table.count < Capacity THEN table.count + 1
                                                      ELSE table.count
          /\ table'.i = (table.i + 1) % Capacity
      BY <2>1 DEF addForeign, DataTypeOK, Table, Slots
    <2>3. table'.count > 0
      BY <2>2
    <2>4. table'.count < Capacity => table'.i = table'.count
      <3>1. CASE table'.count < Capacity
        <4>1. table.i = table.count /\ table.i + 1 < Capacity
          BY <2>2, <3>1 DEF Control, Recorded
        <4>2. (table.i + 1) % Capacity = table.i + 1
          BY <2>2, <4>1
        <4>3. QED
          BY <2>2, <4>1, <4>2
      <3>2. QED
        BY <3>1
    <2>5. ASSUME NEW k \in Slots, k < table'.count
          PROVE  table'.records[k] \in Received
      <3>1. table'.records[k] = announce \/ table'.records[k] = table.records[k]
        BY <2>1 DEF addForeign
      <3>2. k = table.i => table'.records[k] = announce
        BY <2>1 DEF addForeign
      <3>3. k # table.i => k < table.count
        BY <2>2, <2>5 DEF Control, Recorded, Slots
      <3>4. QED
        BY <1>3, <3>1, <3>2, <3>3 DEF Control, Recorded
    <2>6. Recorded'
      BY <1>1, <1>5, <2>4, <2>5 DEF Recorded
    <2>7. Undecided'
      BY <1>1, <1>5, <2>3 DEF Undecided
    <2>8. Described'
      BY <1>1, <2>1, <2>3 DEF Control, Described
    <2>9. QED
      BY <1>4, <2>6, <2>7, <2>8 DEF Control
  <1>8. QED
    BY <1>6, <1>7
\* bmc runs with a record to read and describes the state it recommends.
LEMMA DecisionControl ==
  ASSUME PortTypeOK, DataTypeOK, Control, StateDecision
  PROVE  Control'
PROOF
  <1> DEFINE table == foreignMasterDS
             record(best) == table.records[best]
             decision(best) == bmcStateDecision(portState, table.count, record(best))
  <1>1. PICK best \in BestSlots(table) :
          /\ table' = Chosen(table, best)
          /\ CASE decision(best) = "MASTER" ->
                    /\ NewParent(m1, decision(best), {})
                    /\ offsetFromMaster' = ZeroOffset
               [] decision(best) = "SLAVE" ->
                    /\ NewParent(s1(record(best)), decision(best),
                         IF record(best).source = parentDS.source
                           THEN {} ELSE {"MASTER_CLOCK_CHANGED"})
                    /\ UNCHANGED offsetFromMaster
               [] OTHER ->
                    /\ NewParent(parentDS, decision(best), {})
                    /\ UNCHANGED offsetFromMaster
    BY DEF StateDecision
  <1>2. pc' = "follow" /\ portState' = portState
        /\ portState \notin {"INITIALIZING", "FAULTY"}
        /\ pc = "decide" /\ "STATE_DECISION_EVENT" \in events
    BY DEF StateDecision, Decides
  <1>3. table.count > 0
    BY <1>2 DEF Control, Undecided
  <1>4. decision(best) = IF bmcDataSetComparison(D0, record(best)) = 1 THEN "MASTER"
                         ELSE IF OwnClass < 128 THEN "PASSIVE" ELSE "SLAVE"
    BY <1>3 DEF bmcStateDecision
  <1>5. table.count \in 0..Capacity
    BY DEF DataTypeOK, Table
  <1>6. best \in Slots /\ best < table.count
    BY <1>3, <1>5, ChoiceType
  <1>7. record(best) \in Received
    BY <1>6 DEF Control, Recorded
  <1>8. /\ table'.records = table.records /\ table'.count = table.count
        /\ table'.i = table.i
    BY <1>1 DEF Chosen, DataTypeOK, Table
  <1>9. /\ recommendedState' = Permitted(decision(best))
        /\ "STATE_DECISION_EVENT" \notin events'
    BY <1>1, <1>4 DEF NewParent
  <1>10. recommendedState' \in {"LISTENING", "MASTER", "PASSIVE", "SLAVE"}
    BY <1>4, <1>9 DEF Permitted
  <1>11. Agreement'
    BY <1>2, <1>10 DEF Agreement
  <1>12. Undecided'
    BY <1>9 DEF Undecided
  <1>13. Recorded'
    BY <1>2, <1>8 DEF Control, Recorded
  <1>14. recommendedState # "INITIALIZING"
    BY <1>2 DEF Control, Agreement
  <1>15. CASE decision(best) = "MASTER"
    <2>1. parentDS' = m1 /\ recommendedState' \in {"MASTER", "LISTENING"}
      BY <1>1, <1>9, <1>15 DEF NewParent, Permitted
    <2>2. QED
      BY <1>11, <1>12, <1>13, <2>1 DEF Control, Described
  <1>16. CASE decision(best) = "SLAVE"
    <2>1. parentDS' = s1(record(best)) /\ recommendedState' = "SLAVE"
      BY <1>1, <1>9, <1>16 DEF NewParent, Permitted
    <2>2. ~(OwnClass < 128)
      BY <1>4, <1>16
    <2>3. QED
      BY <1>3, <1>7, <1>8, <1>11, <1>12, <1>13, <2>1, <2>2 DEF Control, Described
  <1>17. CASE decision(best) = "PASSIVE"
    <2>1. parentDS' = parentDS /\ recommendedState' \in {"PASSIVE", "LISTENING"}
      BY <1>1, <1>9, <1>17 DEF NewParent, Permitted
    <2>2. OwnClass < 128
      BY <1>4, <1>17
    <2>3. parentDS = m1
      BY <1>14, <2>2 DEF Control, Described
    <2>4. QED
      BY <1>11, <1>12, <1>13, <2>1, <2>2, <2>3 DEF Control, Described
  <1>18. QED
    BY <1>4, <1>15, <1>16, <1>17

THEOREM ControlCorrect == Spec => []Control
PROOF
  <1>1. Init => Control
    <2> SUFFICES ASSUME Init PROVE Control
      OBVIOUS
    <2>1. Agreement /\ Undecided /\ Described
      BY DEF Init, Agreement, Undecided, Described
    <2>2. Recorded
      <3>1. foreignMasterDS.count = 0 /\ foreignMasterDS.i = 0
        BY DEF Init, EmptyTable
      <3>2. QED
        BY <3>1 DEF Recorded, Slots
    <2>3. QED
      BY <2>1, <2>2 DEF Control
  <1>2. TypeOK /\ Control /\ [Next]_vars => Control'
    <2> SUFFICES ASSUME PortTypeOK, DataTypeOK, Control, [Next]_vars
                 PROVE  Control'
      BY TypeParts
    <2>1. CASE WakeUp \/ NoStateDecision \/ Listen
      <3>1. UNCHANGED <<portState, recommendedState, events, foreignMasterDS, parentDS>>
        BY <2>1 DEF WakeUp, NoStateDecision, Listen, portVars, masterVars
      <3>2. Recorded' /\ Described'
        BY <3>1 DEF Control, Recorded, Described
      <3>3. CASE WakeUp
        BY <3>1, <3>2, <3>3 DEF WakeUp, Control, Agreement, Undecided
      <3>4. CASE NoStateDecision
        BY <3>1, <3>2, <3>4 DEF NoStateDecision, Decides, Control, Agreement, Undecided
      <3>5. CASE Listen
        BY <3>1, <3>2, <3>5
        DEF Listen, Control, Agreement, Undecided, ListenerState, SlaveState
      <3>6. QED
        BY <2>1, <3>3, <3>4, <3>5
    <2>2. CASE UNCHANGED vars \/ \E t \in Timer : TimerExpires(t)
      <3>1. UNCHANGED <<pc, portState, recommendedState, events, foreignMasterDS,
                        parentDS>>
        BY <2>2 DEF vars, TimerExpires, portVars, masterVars
      <3>2. QED
        BY <3>1 DEF Control, Agreement, Undecided, Recorded, Described
    <2>3. CASE StateDecision
      BY <2>3, DecisionControl
    <2>4. CASE FollowRecommendation
      <3>1. /\ pc = "follow" /\ pc' = "act"
            /\ events' \subseteq events
            /\ UNCHANGED <<foreignMasterDS, parentDS>>
        BY <2>4 DEF FollowRecommendation, masterVars
      <3>2. portState' = Target /\ recommendedState' = recommendedState
        BY <2>4
        DEF FollowRecommendation, portVars, toState, RecommendedOnEntry, Target
      <3>3. /\ recommendedState = "INITIALIZING" => Target = "INITIALIZING"
            /\ recommendedState = "SLAVE" => Target \in SlaveState
            /\ recommendedState \in {"LISTENING", "MASTER", "PASSIVE"} =>
                 Target = recommendedState
        BY DEF Target, SlaveState, Control, Agreement
      <3>4. Agreement'
        BY <3>1, <3>2, <3>3 DEF Control, Agreement, SlaveState
      <3>5. Undecided'
        BY <3>1, <3>2, <3>3 DEF Control, Undecided
      <3>6. portState' = "INITIALIZING" => portState = "INITIALIZING"
        BY <3>2, <3>3 DEF Control, Agreement, SlaveState
      <3>7. Recorded' /\ Described'
        BY <3>1, <3>2, <3>6 DEF Control, Recorded, Described
      <3>8. QED
        BY <3>4, <3>5, <3>7 DEF Control
    <2>5. CASE Initialize
      <3>1. /\ portState = "INITIALIZING" /\ pc = "act" /\ pc' = "wait"
            /\ events' = events
        BY <2>5 DEF Initialize, Control, Agreement
      <3>2. /\ foreignMasterDS' = [foreignMasterDS EXCEPT !.count = 0]
            /\ parentDS' = m1
            /\ portState' = "LISTENING" /\ recommendedState' = "LISTENING"
        BY <2>5, <3>1 DEF Initialize, doInit, toState, RecommendedOnEntry
      <3>3. foreignMasterDS'.count = 0 /\ foreignMasterDS'.i = 0
        BY <3>1, <3>2 DEF Control, Recorded, DataTypeOK, Table
      <3>4. "STATE_DECISION_EVENT" \notin events
        BY <3>1 DEF Control, Undecided
      <3>5. QED
        BY <3>1, <3>2, <3>3, <3>4
        DEF Control, Agreement, Undecided, Recorded, Described, Slots
    <2>6. CASE AnnounceReceiptTimeout
      <3>1. /\ portState \in ListenerState /\ pc = "act" /\ pc' = "wait"
            /\ foreignMasterDS' = ForgetForeign(foreignMasterDS)
            /\ events' = events
        BY <2>6 DEF AnnounceReceiptTimeout
      <3>2. "STATE_DECISION_EVENT" \notin events
        BY <3>1 DEF Control, Undecided, ListenerState, SlaveState
      <3>3. foreignMasterDS'.count = 0 /\ foreignMasterDS'.i = 0
        BY <3>1 DEF ForgetForeign, DataTypeOK, Table
      <3>4. \/ /\ portState' = "MASTER" /\ recommendedState' = "MASTER"
               /\ parentDS' = m1
            \/ /\ portState' = "LISTENING" /\ recommendedState' = "LISTENING"
               /\ parentDS' = parentDS
        <4>1. CASE TakesOver
          BY <4>1 DEF TakesOver, toState, RecommendedOnEntry
        <4>2. CASE ListensAgain /\ portState # "LISTENING"
          BY <4>2 DEF ListensAgain, toState, RecommendedOnEntry
        <4>3. CASE ListensAgain /\ portState = "LISTENING"
          BY <3>1, <4>3 DEF ListensAgain, Control, Agreement
        <4>4. QED
          BY <2>6, <4>1, <4>2, <4>3 DEF AnnounceReceiptTimeout
      <3>5. recommendedState # "INITIALIZING"
        BY <3>1 DEF Control, Agreement, ListenerState, SlaveState
      <3>6. Agreement' /\ Undecided' /\ Recorded'
        BY <3>1, <3>2, <3>3, <3>4 DEF Agreement, Undecided, Recorded, Slots
      <3>7. Described'
        BY <3>4, <3>5 DEF Control, Described
      <3>8. QED
        BY <3>6, <3>7 DEF Control
    <2>7. CASE MasterSends
      <3>1. /\ pc = "act" /\ portState = "MASTER" /\ pc' = "handle"
            /\ UNCHANGED <<events, masterVars, foreignMasterDS, parentDS>>
        BY <2>7 DEF MasterSends, issue, masterVars
      <3>2. CASE Fault(waitingForFollowUp)
        BY <3>1, <3>2, FaultControl
      <3>3. CASE ~Fault(waitingForFollowUp)
        <4>1. UNCHANGED <<portState, recommendedState>>
          BY <2>7, <3>3 DEF MasterSends, issue
        <4>2. QED
          BY <3>1, <4>1
          DEF Control, Agreement, Undecided, Recorded, Described, ListenerState
      <3>4. QED
        BY <3>2, <3>3
    <2>8. CASE RequestDelay \/ HandlePassiveSync
      BY <2>8, DelayRequestControl DEF RequestDelay, HandlePassiveSync
    <2>9. CASE HandleShortMessage \/ HandleDelayReq \/ HandlePDelayReq
      BY <2>9, FaultControl DEF HandleShortMessage, AnswerFails,
          HandleDelayReq, HandlePDelayReq
    <2>10. CASE Disregard
      BY <2>10, KeepControl DEF Disregard, portVars
    <2>11. ASSUME NEW announce \in Announces, HandleAnnounce(announce)
           PROVE  Control'
      BY <2>11, AnnounceControl
    <2>12. ASSUME NEW sync \in Syncs, HandleTwoStepSync(sync)
           PROVE  Control'
      BY <2>12, KeepControl DEF HandleTwoStepSync
    <2>13. ASSUME NEW sync \in Syncs, HandleOneStepSync(sync)
           PROVE  Control'
      <3>1. events' \ {"MASTER_CLOCK_SELECTED", "SYNCHRONIZATION_FAULT"} \subseteq events
        BY <2>13 DEF HandleOneStepSync, updateOffset
      <3>2. QED
        BY <2>13, <3>1, DelayRequestControl DEF HandleOneStepSync
    <2>14. ASSUME NEW followUp \in FollowUps, HandleFollowUp(followUp)
           PROVE  Control'
      <3>1. events' \ {"MASTER_CLOCK_SELECTED", "SYNCHRONIZATION_FAULT"} \subseteq events
        BY <2>14 DEF HandleFollowUp, updateOffset
      <3>2. QED
        BY <2>14, <3>1, DelayRequestControl DEF HandleFollowUp
    <2>15. QED
      BY <2>1, <2>2, <2>3, <2>4, <2>5, <2>6, <2>7, <2>8, <2>9, <2>10, <2>11,
         <2>12, <2>13, <2>14
      DEF Next, Thread
  <1>3. QED
    BY <1>1, <1>2, TypeCorrect, PTL DEF Spec

\* The third switch runs in the recommended state.
THEOREM RecommendationCorrect == Spec => []RecommendationAgrees
PROOF
  <1>1. Control => RecommendationAgrees
    BY DEF Control, Agreement, RecommendationAgrees
  <1>2. QED
    BY <1>1, ControlCorrect, PTL

\* The records in use have been received.
THEOREM RecordsCorrect == Spec => []RecordsReceived
PROOF
  <1>1. Control => RecordsReceived
    BY DEF Control, Recorded, Received, RecordsReceived
  <1>2. QED
    BY <1>1, ControlCorrect, PTL

\* bmc never runs on an empty table.
THEOREM DecisionCorrect == Spec => []DecisionHasARecord
PROOF
  <1>1. Control => DecisionHasARecord
    BY DEF Control, Undecided, DecisionHasARecord, Decides
  <1>2. QED
    BY <1>1, ControlCorrect, PTL

\* parentDS describes the role the port plays.
THEOREM DataSetCorrect == Spec => []DataSetMatchesRole
PROOF
  <1>1. Control => DataSetMatchesRole
    BY DEF Control, Agreement, Described, Received, DataSetMatchesRole, SlaveState
  <1>2. QED
    BY <1>1, ControlCorrect, PTL
=============================================================================
