------------------------ MODULE ForeignMastersProofs ------------------------
(***************************************************************************)
(* Proofs about the foreign master table: the comparison of data sets, the *)
(* range of the loop of bmc, and that only filled records are used.        *)
(***************************************************************************)
EXTENDS ForeignMasters, WellFoundedInduction, TLAPS

\* bmcDataSetComparison(A, B) and (B, A) never contradict each other: which of
\* two records is first in the table does not decide between them.
THEOREM CompareAntisymmetric ==
    ASSUME NEW a \in DataSets, NEW b \in DataSets
    PROVE  Compare(a, b) \in {-1, 0, 1} /\ Compare(b, a) = -Compare(a, b)
<1>1. /\ a.gm \in Nat /\ a.rank \in Nat /\ a.steps \in Nat /\ a.src \in Nat
      /\ b.gm \in Nat /\ b.rank \in Nat /\ b.steps \in Nat /\ b.src \in Nat
  BY DEF DataSets
<1>2. CASE a.gm # b.gm
  <2>1. BetterGrandmaster(a, b) <=> ~ BetterGrandmaster(b, a)
    BY <1>1, <1>2 DEF BetterGrandmaster
  <2> QED
    BY <1>2, <2>1 DEF Compare
<1>3. CASE a.gm = b.gm
  <2>1. ~ (BetterTopology(a, b) /\ BetterTopology(b, a))
    BY <1>1 DEF BetterTopology
  <2> QED
    BY <1>3, <2>1 DEF Compare
<1> QED
  BY <1>2, <1>3

-----------------------------------------------------------------------------
(* The loop of bmc *)

\* Every non-empty set of numbers has a least one.
LEMMA LeastNumber ==
    ASSUME NEW T \in SUBSET Nat, T # {}
    PROVE  \E n \in T : \A k \in T : n <= k
<1>1. PICK n \in T : \A k \in T : ~ (<<k, n>> \in OpToRel(<, Nat))
  BY NatLessThanWellFounded, WFMin, Zenon
<1>2. \A k \in T : ~ (k < n)
  BY <1>1 DEF OpToRel
<1> QED
  BY <1>2

\* One turn of the loop, after the earlier turns were g.
Turn(g, k) ==
    IF k <= 1 THEN 0
    ELSE IF Compare(records[k - 1], records[g[k - 1]]) < 0 THEN k - 1
    ELSE g[k - 1]

\* The turns of the loop up to n are g.
Run(g, n) == g = [k \in 0 .. n |-> Turn(g, k)]

\* A run can be continued by one turn.
LEMMA RunStep ==
    ASSUME NEW n \in Nat, NEW g, Run(g, n)
    PROVE  \E h : Run(h, n + 1)
<1> DEFINE h == [k \in 0 .. n + 1 |-> IF k <= n THEN g[k] ELSE Turn(g, k)]
<1>1. ASSUME NEW k \in 0 .. n + 1 PROVE h[k] = Turn(h, k)
  <2>1. k > 1 => h[k - 1] = g[k - 1]
    OBVIOUS
  <2>2. Turn(h, k) = Turn(g, k)
    <3>1. CASE k <= 1
      BY <3>1 DEF Turn
    <3>2. CASE ~ (k <= 1)
      BY <2>1, <3>2 DEF Turn
    <3> QED
      BY <3>1, <3>2
  <2>3. k <= n => g[k] = Turn(g, k)
    BY DEF Run
  <2> QED
    BY <2>2, <2>3
<1>2. h = [k \in 0 .. n + 1 |-> Turn(h, k)]
  <2> HIDE DEF h
  <2>1. DOMAIN h = 0 .. n + 1 /\ h = [k \in DOMAIN h |-> h[k]]
    BY DEF h
  <2> QED
    BY <1>1, <2>1
<1> HIDE DEF h
<1> QED
  BY <1>2 DEF Run

\* The loop has a run of every length.
LEMMA RunExists ==
    ASSUME NEW n \in Nat
    PROVE  \E g : Run(g, n)
<1> DEFINE T == {k \in Nat : ~ \E g : Run(g, k)}
<1>1. SUFFICES ASSUME T # {} PROVE FALSE
  OBVIOUS
<1>2. PICK k \in T : \A l \in T : k <= l
  BY <1>1, LeastNumber
<1>3. CASE k = 0
  <2> DEFINE g == [l \in 0 .. 0 |-> 0]
  <2>1. g = [l \in 0 .. 0 |-> Turn(g, l)]
    BY DEF Turn
  <2> QED
    BY <1>2, <1>3, <2>1 DEF Run
<1>4. CASE k # 0
  <2>1. k - 1 \in Nat /\ k - 1 \notin T
    BY <1>2, <1>4
  <2>2. PICK g : Run(g, k - 1)
    BY <2>1
  <2>3. \E h : Run(h, k - 1 + 1)
    BY <2>1, <2>2, RunStep
  <2> QED
    BY <1>2, <2>3
<1> QED
  BY <1>3, <1>4

\* Best is a run of the loop.
LEMMA BestIsRun ==
    \A k \in 0 .. Capacity : Best[k] = Turn(Best, k)
<1> DEFINE P(g) == g = [k \in 0 .. Capacity |->
                          IF k <= 1 THEN 0
                          ELSE IF Compare(records[k - 1], records[g[k - 1]]) < 0
                          THEN k - 1 ELSE g[k - 1]]
<1>1. \E g : P(g)
  BY RunExists, ForeignMastersAssumption DEF Run, Turn
<1>2. Best = CHOOSE g : P(g)
  BY DEF Best
<1>3. P(Best)
  BY <1>1, <1>2, Zenon
<1> QED
  BY <1>3 DEF Turn

\* The record elected from count ones is one of them, or record 0 of none.
LEMMA ElectedInRange ==
    ASSUME count \in 0 .. Capacity
    PROVE  Elected \in Slots /\ (Elected = 0 \/ Elected < count)
<1> USE ForeignMastersAssumption
<1> DEFINE T == {k \in 0 .. Capacity : ~ (Best[k] = 0 \/ Best[k] \in 1 .. k - 1)}
<1>1. ASSUME T # {} PROVE FALSE
  <2>0. T \in SUBSET Nat
    OBVIOUS
  <2>1. PICK k \in T : \A l \in T : k <= l
    <3> HIDE DEF T
    <3> QED
      BY <1>1, <2>0, LeastNumber
  <2>2. Best[k] = Turn(Best, k)
    BY BestIsRun
  <2>3. CASE k <= 1
    BY <2>1, <2>2, <2>3 DEF Turn
  <2>4. CASE ~ (k <= 1)
    <3>1. k - 1 \in 0 .. Capacity /\ k - 1 \notin T
      BY <2>1, <2>4
    <3>2. Best[k - 1] = 0 \/ Best[k - 1] \in 1 .. k - 2
      BY <3>1
    <3>3. Best[k] = k - 1 \/ Best[k] = Best[k - 1]
      BY <2>2, <2>4 DEF Turn
    <3> QED
      BY <2>1, <2>4, <3>2, <3>3
  <2> QED
    BY <2>3, <2>4
<1>2. Best[count] = 0 \/ Best[count] \in 1 .. count - 1
  BY <1>1
<1> QED
  BY <1>2 DEF Elected, Slots
-----------------------------------------------------------------------------
(* The table *)

\* Why filled records are all that is used: the records below the write index
\* are filled and the count does not pass it, until the index has wrapped and
\* all records are filled; a follower or a pending decision needs record 0.
Filled ==
    \/ \A k \in Slots : records[k] # Zero
    \/ count <= i /\ \A k \in Slots : k < i => records[k] # Zero

TableInv ==
    /\ TypeOK
    /\ Filled
    /\ pending \/ role = "FOLLOWING" => records[0] # Zero
    /\ parentDS # Zero

LEMMA ConstantFacts ==
    /\ Zero \notin Announces /\ Own # Zero
    /\ Capacity \in Nat \ {0} /\ 0 \in Slots
BY ForeignMastersAssumption DEF Zero, Slots

LEMMA FilledCounted ==
    ASSUME TableInv
    PROVE  \A k \in Slots : k < count => records[k] # Zero
BY DEF TableInv, TypeOK, Filled, Slots

\* addForeign: what it leaves in the table.
LEMMA AddForeignType ==
    ASSUME TypeOK, NEW d \in Announces, addForeign(d)
    PROVE  /\ records' \in [Slots -> Announces \cup {Zero}]
           /\ count' \in 0 .. Capacity /\ i' \in Slots /\ best' = best
           /\ \A k \in Slots : records'[k] \in {records[k], d}
<1> USE ForeignMastersAssumption DEF TypeOK, Slots
<1>1. CASE KnownAt(d.src) # {}
  BY <1>1 DEF addForeign
<1>2. CASE KnownAt(d.src) = {}
  BY <1>2 DEF addForeign, AddNew
<1> QED
  BY <1>1, <1>2

LEMMA AddForeignFilled ==
    ASSUME TableInv, NEW d \in Announces, addForeign(d)
    PROVE  Filled' /\ records'[0] # Zero
<1> USE ConstantFacts
<1>0. TypeOK
  BY DEF TableInv
<1>1. \A k \in Slots : records[k] # Zero => records'[k] # Zero
  BY <1>0, AddForeignType
<1>2. CASE KnownAt(d.src) # {}
  <2>1. count > 0
    BY <1>0, <1>2 DEF KnownAt, TypeOK
  <2>2. count' = count /\ i' = i
    BY <1>2 DEF addForeign
  <2>3. records[0] # Zero
    BY <2>1, FilledCounted
  <2> QED
    BY <1>1, <2>2, <2>3 DEF Filled, TableInv
<1>3. CASE KnownAt(d.src) = {}
  <2>1. /\ records' = [records EXCEPT ![i] = d] /\ i' = (i + 1) % Capacity
        /\ count' = IF count < Capacity THEN count + 1 ELSE count
    BY <1>3 DEF addForeign, AddNew
  <2>2. records'[i] # Zero
    BY <1>0, <2>1 DEF TypeOK
  <2>3. CASE \A k \in Slots : records[k] # Zero
    BY <1>1, <2>3 DEF Filled
  <2>4. CASE count <= i /\ \A k \in Slots : k < i => records[k] # Zero
    <3>1. \A k \in Slots : k <= i => records'[k] # Zero
      BY <1>0, <1>1, <2>2, <2>4 DEF TypeOK, Slots
    <3>2. CASE i = Capacity - 1
      BY <3>1, <3>2 DEF Filled, Slots
    <3>3. CASE i < Capacity - 1
      <4>1. i' = i + 1 /\ count' <= i'
        BY <1>0, <2>1, <2>4, <3>3 DEF TypeOK, Slots
      <4> QED
        BY <1>0, <3>1, <4>1 DEF Filled, TypeOK, Slots
    <3>4. records'[0] # Zero
      BY <1>0, <3>1 DEF TypeOK, Slots
    <3> QED
      BY <1>0, <3>2, <3>3, <3>4 DEF TypeOK, Slots
  <2> QED
    BY <1>1, <2>3, <2>4 DEF Filled, TableInv
<1> QED
  BY <1>2, <1>3

LEMMA TableInit == Init => TableInv
<1> SUFFICES ASSUME Init PROVE TableInv
  OBVIOUS
<1>1. TypeOK
  <2>1. records \in [Slots -> Announces \cup {Zero}]
    BY DEF Init
  <2>2. count \in 0 .. Capacity /\ i \in Slots /\ best \in Slots
    BY ConstantFacts DEF Init
  <2>3. role \in Roles /\ parentDS \in Announces \cup {Own, Zero}
    BY DEF Init, Roles
  <2>4. pending \in BOOLEAN /\ class \in Classes /\ disturbed \in BOOLEAN
    BY Zenon DEF Init
  <2> QED
    BY <2>1, <2>2, <2>3, <2>4 DEF TypeOK
<1>2. Filled
  BY DEF Init, Filled, Slots
<1> QED
  BY <1>1, <1>2, ConstantFacts DEF Init, TableInv

LEMMA TableStep == TableInv /\ [Next]_vars => TableInv'
<1> SUFFICES ASSUME TableInv, [Next]_vars PROVE TableInv'
  OBVIOUS
<1> USE ConstantFacts
<1>0. TypeOK /\ count \in 0 .. Capacity
  BY DEF TableInv, TypeOK
<1>1. ASSUME NEW d \in Announces, Announce(d) PROVE TableInv'
  <2>1. CASE FromParent(d)
    BY <1>0, <1>1, <2>1
       DEF Announce, table, FromParent, TableInv, TypeOK, Filled
  <2>2. CASE ~ FromParent(d)
    <3>1. /\ addForeign(d) /\ parentDS' = parentDS
          /\ pending' = TRUE /\ role' = role /\ class' = class
          /\ disturbed' = (disturbed \/ pending)
      BY <1>1, <2>2 DEF Announce
    <3>2. TypeOK'
      BY <1>0, <3>1, AddForeignType DEF TypeOK
    <3> QED
      BY <3>1, <3>2, AddForeignFilled DEF TableInv
  <2> QED
    BY <2>1, <2>2
<1>2. CASE Decide
  <2>1. Elected \in Slots /\ (Elected = 0 \/ Elected < count)
    BY <1>0, ElectedInRange
  <2>2. records[Elected] # Zero /\ records[0] # Zero
    BY <1>2, <2>1, FilledCounted DEF Decide, TableInv
  <2>3. records[Elected] \in Announces
    BY <1>0, <2>1, <2>2 DEF TypeOK
  <2>4. /\ parentDS' \in {parentDS, Own, records[Elected]}
        /\ role' \in Roles
    BY <1>0, <1>2 DEF Decide, StateDecision, Roles, TypeOK
  <2>5. /\ records' = records /\ count' = count /\ i' = i
        /\ class' = class /\ disturbed' = disturbed
        /\ best' = Elected /\ pending' = FALSE
    BY <1>2 DEF Decide
  <2>6. TypeOK'
    BY <1>0, <2>1, <2>3, <2>4, <2>5 DEF TypeOK
  <2> QED
    BY <2>2, <2>4, <2>5, <2>6 DEF TableInv, Filled
<1>3. CASE ReceiptTimeout
  <2>1. /\ records' = records /\ count' = 0 /\ i' = 0 /\ best' = best
        /\ pending' = pending /\ class' = class /\ disturbed' = FALSE
    BY <1>3 DEF ReceiptTimeout
  <2>2. \/ role' = "LISTENING" /\ parentDS' = parentDS
        \/ role' = "SERVING" /\ parentDS' = Own
    BY <1>3 DEF ReceiptTimeout
  <2>3. TypeOK'
    <3>1. role' \in Roles /\ parentDS' \in Announces \cup {Own, Zero}
      BY <1>0, <2>2 DEF TypeOK, Roles
    <3>2. count' \in 0 .. Capacity /\ i' \in Slots
      BY <2>1
    <3>3. pending' \in BOOLEAN /\ class' \in Classes /\ disturbed' \in BOOLEAN
      BY <1>0, <2>1, Zenon DEF TypeOK
    <3> QED
      BY <1>0, <2>1, <3>1, <3>2, <3>3 DEF TypeOK
  <2>4. Filled'
    BY <2>1 DEF Filled, Slots
  <2> QED
    BY <2>1, <2>2, <2>3, <2>4 DEF TableInv
<1>4. CASE Reinit
  BY <1>0, <1>4 DEF Reinit, TableInv, TypeOK, Filled, Roles, Slots
<1>5. CASE UNCHANGED vars
  BY <1>5 DEF vars, table, TableInv, TypeOK, Filled
<1> QED
  BY <1>1, <1>2, <1>3, <1>4, <1>5 DEF Next

LEMMA TableCorrect == Spec => []TableInv
BY TableInit, TableStep, PTL DEF Spec

\* The counters and indices of the table stay in their array.
THEOREM TableTypeCorrect == Spec => []TypeOK
<1>1. TableInv => TypeOK
  BY DEF TableInv
<1> QED
  BY <1>1, TableCorrect, PTL

\* Whatever restarts, timeouts and double messages happen, no election and no
\* parent data set uses a record that was never filled.
THEOREM NoEmptyRecordUsedCorrect == Spec => []NoEmptyRecordUsed
<1>1. TableInv => NoEmptyRecordUsed
  BY FilledCounted DEF TableInv, NoEmptyRecordUsed
<1> QED
  BY <1>1, TableCorrect, PTL
-----------------------------------------------------------------------------
(* One record for each master *)

\* Why a master is found whenever it is known: undisturbed, the write index is
\* the count until the table is full, and "best" is one of the records in use
\* unless a decision is still to choose it.
SearchInv ==
    ~disturbed => /\ DistinctSenders
                  /\ count < Capacity => i = count
                  /\ ~pending /\ count > 0 => best < count

\* Wrap-around in a table of c records.
LEMMA WrapCount ==
    ASSUME NEW c \in Nat, NEW a \in Nat, a < c, NEW b \in Nat, b < c
    PROVE  (a + b) % c = IF a + b < c THEN a + b ELSE a + b - c
<1>1. CASE a + b < c
  BY <1>1
<1>2. CASE ~ (a + b < c)
  <2> DEFINE r == a + b - c
  <2>1. r \in Nat /\ r < c /\ a + b = r + c
    BY <1>2
  <2>2. (r + c) % c = r
    BY <2>1
  <2> QED
    BY <1>2, <2>1, <2>2
<1> QED
  BY <1>1, <1>2

\* Undisturbed, the search visits the records in use and no others.
LEMMA SearchComplete ==
    ASSUME TypeOK, SearchInv, ~disturbed, ~pending, NEW m
    PROVE  KnownAt(m) = {k \in Slots : k < count /\ records[k].src = m}
<1>1. count \in Nat /\ best \in Nat /\ count <= Capacity
  BY ForeignMastersAssumption DEF TypeOK, Slots
<1>2. ASSUME NEW k \in Slots, NEW n \in 0 .. count - 1, k = Scanned(n)
      PROVE  k < count
  <2>1. best < count /\ n \in Nat /\ n < count
    BY <1>1, <1>2 DEF SearchInv
  <2>2. (best + n) % count = IF best + n < count THEN best + n ELSE best + n - count
    BY <1>1, <2>1, WrapCount
  <2> QED
    BY <1>1, <1>2, <2>1, <2>2 DEF Scanned
<1>3. ASSUME NEW k \in Slots, k < count
      PROVE  \E n \in 0 .. count - 1 : k = Scanned(n)
  <2> DEFINE n == IF k < best THEN k + count - best ELSE k - best
  <2>1. k \in Nat /\ best < count
    BY <1>1, <1>3, ForeignMastersAssumption DEF SearchInv, Slots
  <2>2. n \in 0 .. count - 1
    BY <1>1, <1>3, <2>1
  <2>3. (best + n) % count = IF best + n < count THEN best + n ELSE best + n - count
    <3> HIDE DEF n
    <3> QED
      BY <1>1, <2>1, <2>2, WrapCount
  <2>4. k = Scanned(n)
    BY <1>1, <1>3, <2>1, <2>3 DEF Scanned
  <2> QED
    BY <2>2, <2>4
<1> QED
  BY <1>2, <1>3 DEF KnownAt

\* What the search returns is a place where it found the master.
LEMMA FoundKnown ==
    ASSUME NEW m, KnownAt(m) # {}
    PROVE  Found(m) \in KnownAt(m)
<1> DEFINE turn(k) == CHOOSE n \in 0 .. count - 1 : Scanned(n) = k
           T == {n \in Nat : \E k \in KnownAt(m) : n = turn(k)}
<1>1. ASSUME NEW k \in KnownAt(m) PROVE turn(k) \in Nat
  <2>1. \E n \in 0 .. count - 1 : Scanned(n) = k
    BY DEF KnownAt
  <2>2. turn(k) \in 0 .. count - 1
    BY <2>1, Zenon
  <2> QED
    BY <2>2
<1> HIDE DEF turn
<1>2. T \in SUBSET Nat /\ T # {}
  BY <1>1
<1>3. PICK n \in T : \A l \in T : n <= l
  <2> HIDE DEF T
  <2> QED
    BY <1>2, LeastNumber
<1>4. \E k \in KnownAt(m) : \A l \in KnownAt(m) : turn(k) <= turn(l)
  BY <1>1, <1>3
<1>5. Found(m) = CHOOSE k \in KnownAt(m) : \A l \in KnownAt(m) : turn(k) <= turn(l)
  BY Zenon DEF Found, turn
<1> QED
  BY <1>4, <1>5, Zenon

\* What a handled announce of another clock than the parent does to the table.
LEMMA AnnounceStored ==
    ASSUME TypeOK, SearchInv, ~disturbed, ~pending, NEW d \in Announces, addForeign(d)
    PROVE  /\ \E k \in Slots : k < count' /\ records'[k] = d
           /\ \A k, l \in Slots :
                  (k < l /\ l < count') => records'[k].src # records'[l].src
           /\ count' < Capacity => i' = count'
<1> USE ConstantFacts
<1>1. /\ records \in [Slots -> Announces \cup {Zero}]
      /\ count \in 0 .. Capacity /\ i \in Slots
  BY DEF TypeOK
<1>2. KnownAt(d.src) = {k \in Slots : k < count /\ records[k].src = d.src}
  BY SearchComplete
<1>3. \A k, l \in Slots : (k < l /\ l < count) => records[k].src # records[l].src
  BY DEF SearchInv, DistinctSenders
<1>4. CASE KnownAt(d.src) # {}
  <2> DEFINE f == Found(d.src)
  <2>1. f \in Slots /\ f < count /\ records[f].src = d.src
    BY <1>2, <1>4, FoundKnown
  <2>2. records' = [records EXCEPT ![f] = d] /\ count' = count /\ i' = i
    BY <1>4 DEF addForeign
  <2> HIDE DEF f
  <2>3. \A k \in Slots : records'[k].src = records[k].src
    BY <1>1, <2>1, <2>2
  <2>4. records'[f] = d
    BY <1>1, <2>1, <2>2
  <2> QED
    BY <1>3, <2>1, <2>2, <2>3, <2>4 DEF SearchInv
<1>5. CASE KnownAt(d.src) = {}
  <2>1. /\ records' = [records EXCEPT ![i] = d] /\ i' = (i + 1) % Capacity
        /\ count' = IF count < Capacity THEN count + 1 ELSE count
    BY <1>5 DEF addForeign, AddNew
  <2>2. \A k \in Slots : k < count => records[k].src # d.src
    BY <1>2, <1>5
  <2>3. records'[i] = d /\ \A k \in Slots : k # i => records'[k] = records[k]
    BY <1>1, <2>1
  <2>4. count < Capacity => i = count
    BY DEF SearchInv
  <2>5. i < count' /\ \A k \in Slots : k < count' /\ k # i => k < count
    BY <1>1, <2>1, <2>4 DEF Slots
  <2>6. ASSUME NEW k \in Slots, NEW l \in Slots, k < l, l < count'
        PROVE  records'[k].src # records'[l].src
    <3>1. k < count' /\ k # l
      BY <1>1, <2>1, <2>6 DEF Slots
    <3>2. CASE k = i
      BY <2>2, <2>3, <2>5, <2>6, <3>1, <3>2
    <3>3. CASE l = i
      BY <2>2, <2>3, <2>5, <2>6, <3>1, <3>3
    <3>4. CASE k # i /\ l # i
      BY <1>3, <2>3, <2>5, <2>6, <3>1, <3>4
    <3> QED
      BY <3>2, <3>3, <3>4
  <2>7. count' < Capacity => i' = count'
    <3>1. CASE count + 1 < Capacity
      BY <1>1, <2>1, <2>4, <3>1
    <3>2. CASE ~ (count + 1 < Capacity)
      BY <1>1, <2>1, <3>2
    <3> QED
      BY <3>1, <3>2
  <2> QED
    BY <1>1, <2>3, <2>5, <2>6, <2>7
<1> QED
  BY <1>4, <1>5

LEMMA SearchStep == TypeOK /\ SearchInv /\ [Next]_vars => SearchInv'
<1> SUFFICES ASSUME TypeOK, SearchInv, [Next]_vars, ~disturbed' PROVE SearchInv'
  BY DEF SearchInv
<1> USE DEF SearchInv, DistinctSenders
<1>1. ASSUME NEW d \in Announces, Announce(d) PROVE SearchInv'
  <2>1. ~disturbed /\ ~pending /\ pending'
    BY <1>1 DEF Announce
  <2>2. CASE FromParent(d)
    BY <1>1, <2>1, <2>2 DEF Announce, table
  <2>3. CASE ~ FromParent(d)
    <3>1. addForeign(d)
      BY <1>1, <2>3 DEF Announce
    <3> QED
      BY <2>1, <3>1, AnnounceStored
  <2> QED
    BY <2>2, <2>3
<1>2. CASE Decide
  <2>1. Elected = 0 \/ Elected < count
    BY ElectedInRange DEF TypeOK
  <2>2. /\ records' = records /\ count' = count /\ i' = i /\ best' = Elected
        /\ disturbed' = disturbed
    BY <1>2 DEF Decide
  <2> QED
    BY <2>1, <2>2
<1>3. CASE ReceiptTimeout
  <2>1. count' = 0 /\ i' = 0
    BY <1>3 DEF ReceiptTimeout
  <2>2. \A l \in Slots : ~ (l < count')
    BY <2>1 DEF Slots
  <2> QED
    BY <2>1, <2>2
<1>4. CASE Reinit
  BY <1>4 DEF Reinit
<1>5. CASE UNCHANGED vars
  BY <1>5 DEF vars, table
<1> QED
  BY <1>1, <1>2, <1>3, <1>4, <1>5 DEF Next

LEMMA SearchCorrect == Spec => []SearchInv
<1>1. Init => SearchInv
  BY DEF Init, SearchInv, DistinctSenders, Slots
<1> QED
  BY <1>1, SearchStep, TableTypeCorrect, PTL DEF Spec

\* Between disturbances no master has two records in the election, for any
\* capacity and any announces.
THEOREM DistinctSendersCorrect == Spec => []DistinctSenders
<1>1. SearchInv => DistinctSenders
  BY DEF SearchInv, DistinctSenders
<1> QED
  BY <1>1, SearchCorrect, PTL

\* Between disturbances every master whose announce was handled takes part in
\* the next election with what it announced.
THEOREM AnnouncedTakesPartCorrect == Spec => AnnouncedTakesPart
<1> DEFINE A == \A d \in Announces : (Announce(d) /\ ~FromParent(d) /\ ~disturbed') =>
                    \E k \in Slots : k < count' /\ records'[k] = d
<1>1. TypeOK /\ SearchInv /\ [Next]_vars => [A]_vars
  <2> SUFFICES ASSUME TypeOK, SearchInv, NEW d \in Announces, Announce(d),
                      ~FromParent(d), ~disturbed'
               PROVE  \E k \in Slots : k < count' /\ records'[k] = d
    OBVIOUS
  <2>1. ~disturbed /\ ~pending /\ addForeign(d)
    BY DEF Announce
  <2> QED
    BY <2>1, AnnounceStored
<1> QED
  BY <1>1, SearchCorrect, TableTypeCorrect, PTL DEF Spec, AnnouncedTakesPart
-----------------------------------------------------------------------------
(* The table implements MasterChoice *)

\* addForeign keeps the announce and at most drops others, with a restarted or
\* a stale index as well.
LEMMA AddForeignRecorded ==
    ASSUME TypeOK, NEW d \in Announces, addForeign(d)
    PROVE  /\ count' > 0
           /\ d.src \in Recorded' /\ Recorded' \subseteq Recorded \cup {d.src}
<1>1. /\ records \in [Slots -> Announces \cup {Zero}] /\ i \in Slots
      /\ count \in Nat /\ Capacity \in Nat \ {0}
  BY ForeignMastersAssumption DEF TypeOK
<1>2. d.src # Zero.src
  BY ForeignMastersAssumption DEF Zero
<1>3. (\E k \in Slots : records'[k] = d) /\ count' > 0
  <2>1. CASE KnownAt(d.src) # {}
    <3>1. Found(d.src) \in Slots
      BY <2>1, FoundKnown DEF KnownAt
    <3>2. count > 0
      BY <1>1, <2>1 DEF KnownAt
    <3> QED
      BY <1>1, <2>1, <3>1, <3>2 DEF addForeign
  <2>2. CASE KnownAt(d.src) = {}
    BY <1>1, <2>2 DEF addForeign, AddNew
  <2> QED
    BY <2>1, <2>2
<1>4. \A k \in Slots : records'[k] \in {records[k], d}
  BY AddForeignType
<1>5. d.src \in Recorded'
  BY <1>2, <1>3 DEF Recorded
<1>6. Recorded' \subseteq Recorded \cup {d.src}
  BY <1>4 DEF Recorded
<1> QED
  BY <1>3, <1>5, <1>6

\* What is not touched by a step is not touched for MasterChoice either.
LEMMA SameRecorded == records' = records => Recorded' = Recorded
BY DEF Recorded

LEMMA AnnounceChooses ==
    ASSUME TypeOK, NEW d \in Announces, Announce(d)
    PROVE  Choice!Hear(d.src)
<1>1. /\ pending' = TRUE /\ role' = role /\ class' = class
      /\ role # "STOPPED"
  BY DEF Announce, TypeOK, Roles
<1>2. CASE FromParent(d)
  <2>1. /\ role = "FOLLOWING" /\ d.src = parentDS.src
        /\ parentDS' = d /\ records' = records /\ count' = count
    BY <1>2 DEF Announce, FromParent, table
  <2>2. Recorded' = Recorded
    BY <2>1, SameRecorded
  <2> QED
    BY <1>1, <2>1, <2>2 DEF Choice!Hear
<1>3. CASE ~ FromParent(d)
  <2>1. addForeign(d) /\ parentDS' = parentDS
    BY <1>3 DEF Announce
  <2>2. /\ count' > 0 /\ d.src \in Recorded'
        /\ Recorded' \subseteq Recorded \cup {d.src}
    BY <2>1, AddForeignRecorded
  <2>3. ~ (role = "FOLLOWING" /\ d.src = parentDS.src)
    BY <1>3 DEF FromParent
  <2> QED
    BY <1>1, <2>1, <2>2, <2>3 DEF Choice!Hear
<1> QED
  BY <1>2, <1>3

\* The record bmc() finds best was heard, even that of an emptied table, which
\* the loop does not look at.
LEMMA DecideChooses ==
    ASSUME TableInv, Decide
    PROVE  Choice!Choose
<1>0. TypeOK /\ Zero \notin Announces
  BY ConstantFacts DEF TableInv
<1>1. Elected \in Slots /\ (Elected = 0 \/ Elected < count)
  BY <1>0, ElectedInRange DEF TypeOK
<1>2. records[Elected] # Zero
  BY <1>1, FilledCounted DEF Decide, TableInv
<1>3. records[Elected] \in Announces
  BY <1>0, <1>1, <1>2 DEF TypeOK
<1>4. records[Elected].src \in Recorded
  <2>1. records[Elected].src # Zero.src
    BY <1>3, ForeignMastersAssumption DEF Zero
  <2> QED
    BY <1>1, <2>1 DEF Recorded
<1>5. /\ pending /\ pending' = FALSE /\ records' = records /\ count' = count
      /\ class' = class /\ count \in Nat /\ role # "STOPPED"
      /\ StateDecision(records[Elected])
  BY <1>0 DEF Decide, TypeOK, Roles
<1>6. Recorded' = Recorded
  BY <1>5, SameRecorded
<1>7. /\ count = 0 <=> ~ (count > 0)
      /\ count' = count => (count' > 0) = (count > 0)
  BY <1>5
<1>8. IF ~ (count > 0) /\ role = "LISTENING"
      THEN role' = role /\ parentDS'.src = parentDS.src
      ELSE Choice!Serve \/ Choice!BePassive \/ Choice!Follow
  <2>1. CASE count = 0 /\ role = "LISTENING"
    BY <1>5, <1>7, <2>1 DEF StateDecision
  <2>2. CASE ~ (count = 0 /\ role = "LISTENING") /\ Compare(Own, records[Elected]) = 1
    BY <1>5, <1>7, <2>2 DEF StateDecision, Choice!Serve
  <2>3. CASE /\ ~ (count = 0 /\ role = "LISTENING")
             /\ Compare(Own, records[Elected]) # 1 /\ class = "low"
    BY <1>5, <1>7, <2>3 DEF StateDecision, Choice!BePassive
  <2>4. CASE /\ ~ (count = 0 /\ role = "LISTENING")
             /\ Compare(Own, records[Elected]) # 1 /\ class # "low"
    BY <1>4, <1>5, <1>7, <2>4 DEF StateDecision, Choice!Follow
  <2> QED
    BY <2>1, <2>2, <2>3, <2>4
<1> QED
  BY <1>5, <1>6, <1>7, <1>8 DEF Choice!Choose

LEMMA TableChooses == TableInv /\ [Next]_vars => [Choice!Next]_(Choice!vars)
<1> SUFFICES ASSUME TableInv, [Next]_vars PROVE [Choice!Next]_(Choice!vars)
  OBVIOUS
<1>0. TypeOK
  BY DEF TableInv
<1>1. ASSUME NEW d \in Announces, Announce(d) PROVE Choice!Next
  <2>1. Choice!Hear(d.src) /\ d.src \in {e.src : e \in Announces}
    BY <1>0, <1>1, AnnounceChooses
  <2> QED
    BY <2>1 DEF Choice!Next
<1>2. CASE Decide
  BY <1>2, DecideChooses DEF Choice!Next
<1>3. CASE ReceiptTimeout
  <2>1. /\ role # "SERVING" /\ count' = 0 /\ records' = records
        /\ class' = class /\ pending' = pending
    BY <1>3 DEF ReceiptTimeout
  <2>2. IF class = "slaveOnly"
        THEN role' = "LISTENING" /\ parentDS' = parentDS
        ELSE role' = "SERVING" /\ parentDS' = Own
    BY <1>3 DEF ReceiptTimeout
  <2>3. (count' > 0) = FALSE /\ Recorded' = Recorded
    BY <2>1, SameRecorded
  <2>4. Choice!Abandon
    BY <2>1, <2>2, <2>3 DEF Choice!Abandon, Choice!Serve
  <2> QED
    BY <2>4 DEF Choice!Next
<1>4. CASE Reinit
  <2>1. /\ count' = 0 /\ role' = "LISTENING" /\ parentDS' = Own /\ class' \in Classes
        /\ records' = records /\ pending' = pending
    BY <1>4 DEF Reinit
  <2>2. (count' > 0) = FALSE /\ Recorded' = Recorded /\ class' \in Choice!AnyClass
    BY <2>1, SameRecorded, ForeignMastersAssumption DEF Choice!AnyClass
  <2>3. Choice!Reinit
    BY <2>1, <2>2 DEF Choice!Reinit
  <2> QED
    BY <2>3 DEF Choice!Next
<1>5. CASE UNCHANGED vars
  BY <1>5, SameRecorded DEF vars, table, Choice!vars
<1> QED
  BY <1>1, <1>2, <1>3, <1>4, <1>5 DEF Next

\* The foreign master table and bmc() implement the choice of a master, for any
\* capacity, announces and clock classes: every election is of a clock heard and
\* still recorded, however count, index and best were reset.
THEOREM TableChoosesCorrect == Spec => ChoosesAsPromised
<1>1. Init => Choice!Init
  <2> SUFFICES ASSUME Init PROVE Choice!Init
    OBVIOUS
  <2>1. Recorded = {}
    BY DEF Init, Recorded
  <2>2. class \in Choice!AnyClass
    BY ForeignMastersAssumption DEF Init, Choice!AnyClass
  <2>3. (count > 0) = FALSE
    BY DEF Init
  <2> QED
    BY <2>1, <2>2, <2>3 DEF Init, Choice!Init
<1> QED
  BY <1>1, TableCorrect, TableChooses, PTL DEF Spec, ChoosesAsPromised, Choice!Spec

\* A port that serves is its own parent and not slave-only: this holds of
\* MasterChoice, so of the table, whatever it went through.
ServesAsSelf == role = "SERVING" => parentDS.src = Own.src /\ class # "slaveOnly"

LEMMA ChoiceServesAsSelf == Choice!Spec => []ServesAsSelf
<1>1. Choice!Init => ServesAsSelf
  BY DEF Choice!Init, ServesAsSelf
<1>2. ServesAsSelf /\ [Choice!Next]_(Choice!vars) => ServesAsSelf'
  <2> SUFFICES ASSUME ServesAsSelf, [Choice!Next]_(Choice!vars) PROVE ServesAsSelf'
    OBVIOUS
  <2> USE DEF ServesAsSelf
  <2>1. CASE \E m \in {d.src : d \in Announces} : Choice!Hear(m)
    BY <2>1 DEF Choice!Hear
  <2>2. CASE Choice!Choose
    BY <2>2 DEF Choice!Choose, Choice!Serve, Choice!BePassive, Choice!Follow
  <2>3. CASE Choice!Abandon
    BY <2>3 DEF Choice!Abandon, Choice!Serve
  <2>4. CASE Choice!Stop \/ Choice!Reinit
    BY <2>4 DEF Choice!Stop, Choice!Reinit
  <2>5. CASE Choice!Resume
    BY <2>5 DEF Choice!Resume
  <2>6. CASE UNCHANGED Choice!vars
    BY <2>6 DEF Choice!vars
  <2> QED
    BY <2>1, <2>2, <2>3, <2>4, <2>5, <2>6 DEF Choice!Next
<1> QED
  BY <1>1, <1>2, PTL DEF Choice!Spec

\* No timeout, restart or election, over whatever records, makes a port serve with
\* the parent data set of another clock, or a slave-only clock serve at all.
THEOREM TableServesCorrect == Spec => []ServesAsSelf
<1> QED
  BY TableChoosesCorrect, ChoiceServesAsSelf, PTL DEF ChoosesAsPromised
-----------------------------------------------------------------------------
(* What bmc() elects *)

\* No two records of the election name the same grandmaster.
DistinctGrandmasters ==
    \A k, l \in Slots : (k < l /\ l < count) => records[k].gm # records[l].gm

\* bmc() takes the sign of the comparison the wrong way round: among different
\* grandmasters the elected record is one that no other is worse than.
ElectsWorst ==
    [][(Decide /\ count > 0 /\ DistinctGrandmasters) =>
          \A k \in Slots : k < count => Compare(records[k], records[best']) >= 0]_vars

LEMMA CompareSame == ASSUME NEW a \in DataSets PROVE Compare(a, a) = 0
<1>1. a.steps \in Nat /\ a.src \in Nat
  BY DEF DataSets
<1> QED
  BY <1>1 DEF Compare, BetterTopology

\* Among different grandmasters the comparison is an order.
LEMMA CompareTransitive ==
    ASSUME NEW a \in DataSets, NEW b \in DataSets, NEW c \in DataSets,
           a.gm # b.gm, b.gm # c.gm, a.gm # c.gm,
           Compare(a, b) >= 0, Compare(c, b) < 0
    PROVE  Compare(a, c) >= 0
<1>1. /\ a.gm \in Nat /\ b.gm \in Nat /\ c.gm \in Nat
      /\ a.rank \in Nat /\ b.rank \in Nat /\ c.rank \in Nat
  BY DEF DataSets
<1>2. BetterGrandmaster(a, b) /\ ~ BetterGrandmaster(c, b)
  BY DEF Compare
<1>3. BetterGrandmaster(a, c)
  BY <1>1, <1>2 DEF BetterGrandmaster
<1> QED
  BY <1>3 DEF Compare

LEMMA ElectedIsWorst ==
    ASSUME TypeOK, count > 0, DistinctGrandmasters
    PROVE  \A k \in Slots : k < count => Compare(records[k], records[Elected]) >= 0
<1>1. /\ count \in 1 .. Capacity /\ Capacity \in Nat \ {0}
      /\ \A k \in Slots : records[k] \in DataSets
  BY ForeignMastersAssumption DEF TypeOK, Zero, DataSets
<1>2. \A k, l \in 0 .. count - 1 : k # l => records[k].gm # records[l].gm
  BY <1>1 DEF DistinctGrandmasters, Slots
<1> DEFINE Worst(n) == /\ Best[n] \in 0 .. n - 1
                       /\ \A k \in 0 .. n - 1 : Compare(records[k], records[Best[n]]) >= 0
           T == {n \in 1 .. count : ~ Worst(n)}
<1>3. ASSUME T # {} PROVE FALSE
  <2>1. T \in SUBSET Nat
    BY <1>1
  <2>2. PICK n \in T : \A m \in T : n <= m
    <3> HIDE DEF T
    <3> QED
      BY <1>3, <2>1, LeastNumber
  <2>3. n \in 1 .. count /\ n \in 0 .. Capacity /\ ~ Worst(n)
    BY <1>1, <2>2
  <2>4. Best[n] = Turn(Best, n)
    BY <2>3, BestIsRun
  <2>5. CASE n = 1
    <3>1. Best[1] = 0
      BY <2>4, <2>5 DEF Turn
    <3>2. Compare(records[0], records[0]) = 0
      BY <1>1, CompareSame DEF Slots
    <3>3. Worst(1)
      BY <3>1, <3>2
    <3> QED
      BY <2>3, <2>5, <3>3
  <2>6. CASE n # 1
    <3> DEFINE b == Best[n - 1]
    <3>1. n - 1 \in 1 .. count /\ n - 1 \notin T
      BY <1>1, <2>2, <2>3, <2>6
    <3>2. Worst(n - 1)
      BY <3>1
    <3>3. /\ b \in 0 .. n - 2
          /\ \A k \in 0 .. n - 2 : Compare(records[k], records[b]) >= 0
      BY <2>3, <3>2
    <3>4. Best[n] = IF Compare(records[n - 1], records[b]) < 0 THEN n - 1 ELSE b
      BY <2>3, <2>4, <2>6 DEF Turn
    <3>5. /\ n - 1 \in Slots /\ b \in Slots /\ n - 1 \in 0 .. count - 1
          /\ \A k \in 0 .. n - 2 : k \in Slots /\ k \in 0 .. count - 1 /\ k # n - 1
      BY <1>1, <2>3, <2>6, <3>3 DEF Slots
    <3> HIDE DEF b
    <3>6. ASSUME NEW k \in 0 .. n - 1
          PROVE  Compare(records[k], records[Best[n]]) >= 0
      <4>1. CASE Compare(records[n - 1], records[b]) < 0 /\ k = n - 1
        BY <1>1, <3>4, <3>5, <4>1, CompareSame
      <4>2. CASE Compare(records[n - 1], records[b]) < 0 /\ k = b
        BY <1>1, <3>4, <3>5, <4>2, CompareAntisymmetric
      <4>3. CASE Compare(records[n - 1], records[b]) < 0 /\ k # n - 1 /\ k # b
        <5>1. k \in 0 .. n - 2
          BY <2>3, <4>3
        <5>2. /\ records[k].gm # records[b].gm /\ records[b].gm # records[n - 1].gm
              /\ records[k].gm # records[n - 1].gm
          BY <1>2, <3>3, <3>5, <4>3, <5>1
        <5>3. Compare(records[k], records[n - 1]) >= 0
          BY <1>1, <3>3, <3>5, <4>3, <5>1, <5>2, CompareTransitive
        <5> QED
          BY <3>4, <4>3, <5>3
      <4>4. CASE ~ (Compare(records[n - 1], records[b]) < 0)
        <5>1. Compare(records[n - 1], records[b]) \in {-1, 0, 1}
          BY <1>1, <3>5, CompareAntisymmetric
        <5>2. CASE k = n - 1
          BY <3>4, <4>4, <5>1, <5>2
        <5>3. CASE k # n - 1
          <6>1. k \in 0 .. n - 2
            BY <2>3, <5>3
          <6> QED
            BY <3>3, <3>4, <4>4, <6>1
        <5> QED
          BY <5>2, <5>3
      <4> QED
        BY <4>1, <4>2, <4>3, <4>4
    <3>7. Best[n] \in 0 .. n - 1
      BY <2>3, <2>6, <3>3, <3>4
    <3> QED
      BY <2>3, <3>6, <3>7
  <2> QED
    BY <2>5, <2>6
<1>4. Worst(count)
  BY <1>1, <1>3
<1> QED
  BY <1>1, <1>4 DEF Elected, Slots

\* For any capacity and any announces: unless two records name one grandmaster,
\* every decision of the port is about the worst of the clocks it knows.
THEOREM ElectsWorstCorrect == Spec => ElectsWorst
<1>1. TypeOK /\ [Next]_vars =>
         [(Decide /\ count > 0 /\ DistinctGrandmasters) =>
             \A k \in Slots : k < count => Compare(records[k], records[best']) >= 0]_vars
  BY ElectedIsWorst DEF Decide
<1>2. TableInv => TypeOK
  BY DEF TableInv
<1> QED
  BY <1>1, <1>2, TableCorrect, PTL DEF Spec, ElectsWorst
=============================================================================
