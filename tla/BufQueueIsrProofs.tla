-------------------------- MODULE BufQueueIsrProofs --------------------------
(***************************************************************************)
(* Proofs about BufQueueIsr: what the packet queue keeps under every       *)
(* interleaving of the main loop and the two interrupts, for any size of   *)
(* the ring and any pbufs.                                                 *)
(***************************************************************************)
EXTENDS BufQueueIsr, Sequences, FiniteSetTheorems, SequenceTheorems, TLAPS

\* Where netQGet has advanced get and not yet count.
Reading == main \in {"load", "store"}

\* Where netQGet has found the queue not empty and not yet counted it off.
Getting == main \in {"advance", "load", "store"}

\* The calls of netQGet whose decrement of count is still to come.
ToCome == IF main = "use" THEN todo - 1 ELSE todo

\* The count when the netQPut under way has returned.
Pending == IF eth = Idle THEN count ELSE count + 1

\* The packets in front of get that are not got: one less than counted while
\* netQGet is between its two assignments.
Ahead == IF Reading THEN Pending - 1 ELSE Pending

\* The cells of n packets from an index on.
Window(from, n) == {slots[(from + i) % Size] : i \in 0 .. n - 1}

-----------------------------------------------------------------------------
(* The inductive invariant *)

\* What count and its two registers can be.  Every decrement still to come keeps
\* the count in its type; without a torn call it stays at 0 or above, and what
\* a register holds is at most the count.
Registers ==
    /\ main = "idle" \/ Initialising <=> todo = 0
    /\ Initialising => eth = Idle
    /\ main = "initCount" => put = 0
    /\ count >= Floor + ToCome
    /\ main = "store" => reg >= Floor + ToCome
    /\ eth # Idle => eth \in Floor + ToCome .. Size - 1
    /\ ~torn => /\ count >= 0
                /\ eth # Idle => eth = count
                /\ Getting => count > 0
                /\ main = "store" => reg \in 1 .. count

\* The packet the main loop is about to free is not, or no longer, one it alone
\* holds: freeing it may take away a packet of the queue.
Doubtful == main = "use" /\ ptr \notin live \ inside

\* The count is covered by allocated packets that are in the queue, with one to
\* spare for the packet about to be freed when that is a doubtful one.
Covered ==
    ~torn => /\ IsFiniteSet(inside)
             /\ Pending + (IF Doubtful THEN 1 ELSE 0) <= Cardinality(inside \cap live)

\* As long as no window was hit, and outside netQInit, put is where get and the
\* count say, and the packets in the queue are found between get and put, or are
\* the one being taken.
Ring ==
    ~lost /\ ~torn /\ ~Initialising =>
        /\ put = (get + Ahead) % Size
        /\ inside \subseteq Window(get, Ahead) \cup (IF Reading THEN {ptr} ELSE {})
        /\ main = "advance" => ptr = slots[get]

IInv == TypeOK /\ Registers /\ Covered /\ Ring

-----------------------------------------------------------------------------
(* Indices and windows *)

\* The remainder of the sums the code computes.
LEMMA Wrap ==
    ASSUME NEW a \in Slots, NEW k \in 0 .. Size
    PROVE  /\ (a + k) % Size = IF a + k < Size THEN a + k ELSE a + k - Size
           /\ (a + k) % Size \in Slots
<1>1. CASE a + k < Size
  BY <1>1, BufQueueIsrAssumption DEF Slots
<1>2. CASE a + k >= Size
  BY <1>2, BufQueueIsrAssumption DEF Slots
<1> QED
  BY <1>1, <1>2, BufQueueIsrAssumption DEF Slots

LEMMA WrapZero == \A a \in Slots : (a + 0) % Size = a
<1> SUFFICES ASSUME NEW a \in Slots PROVE (a + 0) % Size = a
  OBVIOUS
<1> QED
  BY ONLY a \in Slots, BufQueueIsrAssumption DEF Slots

\* A window holds no more packets than cells.
LEMMA WindowSize ==
    ASSUME NEW g \in Slots, NEW n \in 0 .. Size
    PROVE  IsFiniteSet(Window(g, n)) /\ Cardinality(Window(g, n)) <= n
<1> DEFINE f == [i \in 0 .. n - 1 |-> slots[(g + i) % Size]]
<1>1. f \in Surjection(0 .. n - 1, Window(g, n))
  BY DEF Surjection, Window
<1>2. IsFiniteSet(0 .. n - 1) /\ Cardinality(0 .. n - 1) = n
  BY FS_Interval, BufQueueIsrAssumption
<1> QED
  BY <1>1, <1>2, FS_Surjection

\* netQGet takes the first cell of a window.
LEMMA WindowFirst ==
    ASSUME NEW g \in Slots, NEW n \in 1 .. Size
    PROVE  /\ Window(g, n) = {slots[g]} \cup Window((g + 1) % Size, n - 1)
           /\ (g + n) % Size = (((g + 1) % Size) + (n - 1)) % Size
<1> USE BufQueueIsrAssumption
<1> DEFINE h == (g + 1) % Size
<1>1. h \in Slots /\ h = IF g + 1 < Size THEN g + 1 ELSE g + 1 - Size
  BY Wrap
<1>2. ASSUME NEW i \in 0 .. Size - 1 PROVE (g + (i + 1)) % Size = (h + i) % Size
  <2>1. (g + (i + 1)) % Size = IF g + (i + 1) < Size THEN g + (i + 1)
                               ELSE g + (i + 1) - Size
    BY Wrap
  <2>2. (h + i) % Size = IF h + i < Size THEN h + i ELSE h + i - Size
    BY <1>1, Wrap
  <2> QED
    BY <1>1, <2>1, <2>2 DEF Slots
<1>3. slots[(g + 0) % Size] = slots[g]
  BY WrapZero
<1> HIDE DEF h
<1>4. Window(g, n) \subseteq {slots[g]} \cup Window(h, n - 1)
  <2>1. ASSUME NEW i \in 0 .. n - 1, i # 0
        PROVE  slots[(g + i) % Size] \in Window(h, n - 1)
    <3>1. i - 1 \in 0 .. (n - 1) - 1 /\ i - 1 \in 0 .. Size - 1 /\ (i - 1) + 1 = i
      BY <2>1
    <3>2. (g + i) % Size = (h + (i - 1)) % Size
      BY <1>2, <3>1
    <3> QED
      BY <3>1, <3>2 DEF Window
  <2> QED
    BY <1>3, <2>1 DEF Window
<1>5. Window(h, n - 1) \subseteq Window(g, n)
  <2>1. ASSUME NEW i \in 0 .. (n - 1) - 1
        PROVE  slots[(h + i) % Size] \in Window(g, n)
    <3>1. i + 1 \in 0 .. n - 1 /\ i \in 0 .. Size - 1
      BY <2>1
    <3> QED
      BY <1>2, <3>1 DEF Window
  <2> QED
    BY <2>1 DEF Window
<1>6. slots[g] \in Window(g, n)
  BY <1>3 DEF Window
<1>7. (g + n) % Size = (h + (n - 1)) % Size
  <2>1. n - 1 \in 0 .. Size - 1 /\ (n - 1) + 1 = n
    OBVIOUS
  <2> QED
    BY <1>2, <2>1
<1> QED
  BY <1>4, <1>5, <1>6, <1>7 DEF h

\* netQPut fills the cell behind a window that is not the whole ring.
LEMMA WindowLast ==
    ASSUME NEW g \in Slots, NEW n \in 0 .. Size - 1, NEW p,
           slots \in [Slots -> Packets \cup {Null}],
           slots' = [slots EXCEPT ![(g + n) % Size] = p]
    PROVE  /\ Window(g, n) \cup {p} \subseteq {slots'[(g + i) % Size] : i \in 0 .. n}
           /\ (g + (n + 1)) % Size = (((g + n) % Size) + 1) % Size
           /\ n > 0 => slots'[g] = slots[g]
<1> USE BufQueueIsrAssumption
<1> DEFINE q == (g + n) % Size
<1>1. q \in Slots /\ q = IF g + n < Size THEN g + n ELSE g + n - Size
  BY Wrap
<1>2. ASSUME NEW i \in 0 .. n - 1
      PROVE  (g + i) % Size \in Slots /\ (g + i) % Size # q
  <2>1. (g + i) % Size \in Slots
        /\ (g + i) % Size = IF g + i < Size THEN g + i ELSE g + i - Size
    BY Wrap
  <2> QED
    BY <1>1, <2>1 DEF Slots
<1>3. (q + 1) % Size = IF q + 1 < Size THEN q + 1 ELSE q + 1 - Size
  BY <1>1, Wrap
<1>4. (g + (n + 1)) % Size = IF g + (n + 1) < Size THEN g + (n + 1)
                             ELSE g + (n + 1) - Size
  BY Wrap
<1>5. (g + (n + 1)) % Size = (q + 1) % Size
  BY <1>1, <1>3, <1>4 DEF Slots
<1>6. slots'[q] = p
  BY <1>1
<1>7. \A i \in 0 .. n - 1 : slots'[(g + i) % Size] = slots[(g + i) % Size]
  BY <1>2
<1>8. n > 0 => slots'[g] = slots[g]
  BY <1>7, WrapZero
<1>9. Window(g, n) \cup {p} \subseteq {slots'[(g + i) % Size] : i \in 0 .. n}
  BY <1>6, <1>7 DEF Window
<1> QED
  BY <1>5, <1>8, <1>9

-----------------------------------------------------------------------------
(* Types and registers *)

\* Ranges of the constants, for the arithmetic below.
LEMMA Bounds == Size \in Nat /\ Size > 0 /\ Floor = -Size /\ Idle = -Size - 1
                /\ 0 \in Slots /\ 1 \in 0 .. Size
  BY BufQueueIsrAssumption DEF Floor, Idle, Slots

LEMMA RegistersInit == Init => TypeOK /\ Registers
<1> SUFFICES ASSUME Init PROVE TypeOK /\ Registers
  OBVIOUS
<1>1. TypeOK
  <2>1. slots \in [Slots -> Packets \cup {Null}]
    BY DEF Init
  <2>2. {get, put} \subseteq Slots /\ {count, reg} \subseteq Floor .. Size
        /\ eth \in Idle .. Size /\ todo \in 0 .. Size /\ count >= 0
    BY Bounds DEF Init
  <2> QED
    BY <2>1, <2>2 DEF Init, TypeOK
<1>2. Registers
  BY Bounds DEF Init, Registers, ToCome, Getting, Initialising
<1> QED
  BY <1>1, <1>2

\* The main loop's steps, with no netQPut under way.
LEMMA RegistersMain ==
    ASSUME TypeOK, Registers, MainLoop
    PROVE  TypeOK' /\ Registers'
<1> USE Bounds DEF queue, Running
<1>1. CASE Call
  <2>1. /\ eth = Idle /\ todo' \in 1 .. Size /\ main' = "check"
        /\ count >= Floor + todo'
        /\ UNCHANGED <<queue, ptr, reg, eth, live, inside, lost, torn>>
    BY <1>1 DEF Call, TypeOK
  <2>2. TypeOK'
    BY <2>1 DEF TypeOK
  <2>3. ~Getting' /\ ToCome' = todo' /\ main' # "idle" /\ main' # "store" /\ ~Initialising'
        /\ main' # "initCount"
    BY <2>1 DEF Getting, ToCome, Initialising
  <2>4. count' = count /\ count \in Int /\ eth' = Idle /\ (torn' <=> torn)
    BY <2>1 DEF TypeOK
  <2>5. (~torn => count >= 0) /\ count >= Floor + todo' /\ todo' # 0
    BY <2>1 DEF Registers
  <2>6. Registers'
    BY <2>1, <2>3, <2>4, <2>5 DEF Registers
  <2> QED
    BY <2>2, <2>6
<1>2. CASE Check
  <2>1. /\ eth = Idle /\ main = "check" /\ todo \in 1 .. Size
        /\ UNCHANGED <<queue, reg, eth, live, inside, lost, torn>>
    BY <1>2 DEF Check, Registers, TypeOK, Initialising
  <2>2. CASE count = 0
    <3>1. /\ todo' = todo - 1 /\ main' = IF todo' = 0 THEN "idle" ELSE "check"
          /\ ptr' = ptr
      BY <1>2, <2>2 DEF Check
    <3>2. TypeOK'
      BY <2>1, <3>1 DEF TypeOK
    <3>3. Registers'
      BY <2>1, <2>2, <3>1 DEF Registers, TypeOK, ToCome, Getting, Initialising
    <3> QED
      BY <3>2, <3>3
  <2>3. CASE count # 0
    <3>1. ptr' = slots[get] /\ main' = "advance" /\ todo' = todo
      BY <1>2, <2>3 DEF Check
    <3>2. TypeOK'
      BY <2>1, <3>1 DEF TypeOK
    <3>3. Registers'
      BY <2>1, <2>3, <3>1 DEF Registers, TypeOK, ToCome, Getting, Initialising
    <3> QED
      BY <3>2, <3>3
  <2> QED
    BY <2>2, <2>3
<1>3. CASE Advance
  <2>1. get' \in Slots
    BY <1>3, Wrap DEF Advance, TypeOK
  <2>2. TypeOK'
    BY <1>3, <2>1 DEF Advance, TypeOK
  <2>3. Registers'
    BY <1>3 DEF Advance, Registers, ToCome, Getting, Initialising
  <2> QED
    BY <2>2, <2>3
<1>4. CASE Load
  <2>1. TypeOK'
    BY <1>4 DEF Load, TypeOK
  <2>2. Registers'
    BY <1>4 DEF Load, Registers, ToCome, Getting, TypeOK, Initialising
  <2> QED
    BY <2>1, <2>2
<1>5. CASE Store
  <2>1. /\ main = "store" /\ todo \in 1 .. Size /\ reg >= Floor + todo /\ reg \in Floor .. Size
        /\ ~torn => reg >= 1
    BY <1>5 DEF Store, Registers, TypeOK, ToCome, Initialising
  <2>2. /\ eth = Idle /\ count' = reg - 1 /\ main' = "use" /\ inside' \subseteq inside
        /\ lost' = (lost \/ count # reg)
        /\ UNCHANGED <<slots, get, put, todo, ptr, reg, eth, live, torn>>
    BY <1>5 DEF Store
  <2>3. TypeOK'
    BY <2>1, <2>2 DEF TypeOK
  <2>4. Registers'
    BY <2>1, <2>2 DEF Registers, TypeOK, ToCome, Getting, Initialising
  <2> QED
    BY <2>3, <2>4
<1>6. CASE Use
  <2>1. /\ eth = Idle /\ main = "use" /\ todo \in 1 .. Size /\ todo' = todo - 1
        /\ main' = IF todo' = 0 THEN "idle" ELSE "check"
        /\ live' \subseteq live /\ ptr' = Null /\ reg' = 0
        /\ UNCHANGED <<queue, eth, inside, lost, torn>>
    BY <1>6 DEF Use, Registers, TypeOK, Initialising
  <2>2. TypeOK'
    BY <2>1 DEF TypeOK
  <2>3. Registers'
    BY <2>1 DEF Registers, TypeOK, ToCome, Getting, Initialising
  <2> QED
    BY <2>2, <2>3
<1>7. CASE netQInit \/ netQInitPut
  <2>1. /\ eth = Idle /\ main \in {"idle", "initPut"} /\ main' \in {"initPut", "initCount"}
        /\ get' \in {get, 0} /\ put' \in {put, 0} /\ (main' = "initCount" => put' = 0)
        /\ UNCHANGED <<slots, count, todo, ptr, reg, eth, live, inside, lost, torn>>
    BY <1>7 DEF netQInit, netQInitPut
  <2>2. get' \in Slots /\ put' \in Slots
    BY <2>1 DEF TypeOK
  <2>3. TypeOK'
    BY <2>1, <2>2 DEF TypeOK
  <2>4. ToCome' = ToCome /\ Initialising' /\ ~Getting' /\ todo' = 0 /\ main' # "store"
    BY <2>1 DEF Registers, Initialising, Getting, ToCome
  <2>5. Registers'
    BY <2>1, <2>4 DEF Registers
  <2> QED
    BY <2>3, <2>5
<1>8. CASE netQInitCount
  <2>1. /\ eth = Idle /\ count' = 0 /\ inside' = {} /\ main' = "idle" /\ todo = 0
        /\ lost' = FALSE /\ torn' = (get # 0)
        /\ UNCHANGED <<slots, get, put, todo, ptr, reg, eth, live>>
    BY <1>8 DEF netQInitCount, Registers, Initialising
  <2>2. lost' \in BOOLEAN /\ torn' \in BOOLEAN
    BY <2>1, Zenon
  <2>3. count' \in Floor .. Size /\ count' >= 0
    BY <2>1
  <2>4. TypeOK'
    BY <2>1, <2>2, <2>3 DEF TypeOK
  <2>5. ToCome' = 0 /\ ~Initialising' /\ ~Getting'
    BY <2>1 DEF ToCome, Initialising, Getting
  <2>6. Registers'
    BY <2>1, <2>5 DEF Registers
  <2> QED
    BY <2>4, <2>6
<1> QED
  BY <1>1, <1>2, <1>3, <1>4, <1>5, <1>6, <1>7, <1>8 DEF MainLoop

\* The interrupts, at any step of the main loop.
LEMMA RegistersInterrupts ==
    ASSUME TypeOK, Registers, Interrupts
    PROVE  TypeOK' /\ Registers'
<1> USE Bounds
<1>1. ASSUME NEW p \in Packets, netQPut(p) PROVE TypeOK' /\ Registers'
  <2>1. put' \in Slots
    BY <1>1, Wrap DEF netQPut, TypeOK
  <2>2. TypeOK'
    BY <1>1, <2>1 DEF netQPut, TypeOK
  <2>3. Registers'
    BY <1>1 DEF netQPut, Registers, TypeOK, ToCome, Getting, Initialising
  <2> QED
    BY <2>2, <2>3
<1>2. CASE netQPutEnd
  <2>1. /\ eth \in Floor + ToCome .. Size - 1 /\ ToCome \in 0 .. Size
        /\ main \in {"store", "idle", "check", "advance", "load", "use"}
    BY <1>2 DEF netQPutEnd, Registers, TypeOK, ToCome, Initialising
  <2>2. count' \in Floor .. Size /\ (~torn' => count' >= 0)
    BY <1>2, <2>1 DEF netQPutEnd, Registers, TypeOK
  <2>3. lost' \in BOOLEAN
    BY <1>2 DEF netQPutEnd, TypeOK
  <2>4. TypeOK'
    BY <1>2, <2>2, <2>3 DEF netQPutEnd, TypeOK
  <2>5. ToCome' = ToCome /\ (Getting' <=> Getting) /\ ~Initialising /\ ~Initialising'
    BY <1>2, <2>1 DEF netQPutEnd, ToCome, Getting, Initialising
  <2>6. Registers'
    BY <1>2, <2>1, <2>5 DEF netQPutEnd, Registers, TypeOK, Initialising
  <2> QED
    BY <2>4, <2>6
<1>3. CASE netQEmpty
  <2>1. /\ count \in 1 .. Size /\ get' = (get + count) % Size /\ count' = 0
        /\ torn' = (torn \/ Halfway)
        /\ live' \subseteq live /\ inside' \subseteq inside
        /\ UNCHANGED <<slots, put, main, todo, ptr, reg, eth, lost>>
    BY <1>3 DEF netQEmpty, TypeOK
  <2>2. get' \in Slots
    <3>1. count \in 0 .. Size
      BY <2>1
    <3> QED
      BY <2>1, <3>1, Wrap DEF TypeOK
  <2>3. torn' \in BOOLEAN
    BY <2>1 DEF Halfway, TypeOK
  <2>4. TypeOK'
    BY <2>1, <2>2, <2>3 DEF TypeOK
  <2>5. ToCome \in 0 .. Size /\ ToCome' = ToCome /\ (Initialising' <=> Initialising)
    BY <2>1 DEF Registers, TypeOK, ToCome, Initialising
  <2>6. ~torn' => ~Getting /\ eth = Idle /\ ~Getting' /\ eth' = Idle /\ main' # "store"
    BY <2>1 DEF Halfway, Getting
  <2>7. Registers'
    BY <2>1, <2>5, <2>6 DEF Registers
  <2> QED
    BY <2>4, <2>7
<1> QED
  BY <1>1, <1>2, <1>3 DEF Interrupts

\* Types and registers, at every step.
LEMMA RegistersStep == TypeOK /\ Registers /\ [Next]_vars => TypeOK' /\ Registers'
<1>1. ASSUME TypeOK, Registers, UNCHANGED vars PROVE TypeOK' /\ Registers'
  BY <1>1 DEF vars, queue, TypeOK, Registers, ToCome, Getting, Initialising
<1> QED
  BY <1>1, RegistersMain, RegistersInterrupts DEF Next

-----------------------------------------------------------------------------
(* The packets that cover the count *)

InQueue == inside \cap live

LEMMA InQueueFinite ==
    ASSUME IsFiniteSet(inside)
    PROVE  IsFiniteSet(InQueue) /\ Cardinality(InQueue) \in Nat
           /\ Cardinality(InQueue) <= Cardinality(inside) /\ Cardinality(inside) \in Nat
<1>1. InQueue \in SUBSET inside
  BY DEF InQueue
<1> QED
  BY <1>1, FS_Subset, FS_CardinalityType

\* Covered in terms of InQueue.
LEMMA CoveredMeans ==
    Covered <=> (~torn => /\ IsFiniteSet(inside)
                          /\ Doubtful => Pending + 1 <= Cardinality(InQueue)
                          /\ ~Doubtful => Pending + 0 <= Cardinality(InQueue))
BY DEF Covered, InQueue

\* Steps that leave the count and the packets alone.
LEMMA CoveredKept ==
    ASSUME TypeOK, Covered, UNCHANGED <<inside, live, torn>>,
           ~torn => Pending' = Pending, Doubtful' => Doubtful
    PROVE  Covered'
<1> SUFFICES ASSUME ~torn' PROVE Covered'
  BY DEF Covered
<1>1. IsFiniteSet(inside) /\ Pending' = Pending /\ InQueue' = InQueue
  BY DEF Covered, InQueue
<1>2. Cardinality(InQueue) \in Nat
  BY <1>1, InQueueFinite
<1>3. Pending \in Int
  BY Bounds DEF Pending, TypeOK
<1>4. /\ Doubtful => Pending + 1 <= Cardinality(InQueue)
      /\ ~Doubtful => Pending + 0 <= Cardinality(InQueue)
  BY CoveredMeans
<1>5. /\ Doubtful' => Pending + 1 <= Cardinality(InQueue)
      /\ ~Doubtful' => Pending + 0 <= Cardinality(InQueue)
  BY <1>2, <1>3, <1>4
<1>6. Covered' <=> /\ IsFiniteSet(inside')
                   /\ Doubtful' => Pending' + 1 <= Cardinality(InQueue')
                   /\ ~Doubtful' => Pending' + 0 <= Cardinality(InQueue')
  BY DEF Covered, InQueue
<1> QED
  BY <1>1, <1>5, <1>6

LEMMA StoreCovered ==
    ASSUME TypeOK, Registers, Covered, Store, ~torn'
    PROVE  Covered'
<1>1. /\ eth = Idle /\ count' = reg - 1 /\ inside' = inside \ {ptr} /\ main' = "use"
      /\ UNCHANGED <<ptr, eth, live, torn>> /\ reg \in 1 .. count /\ count \in Int
      /\ main = "store"
  BY DEF Store, Running, Registers, TypeOK
<1>2. IsFiniteSet(inside) /\ count <= Cardinality(InQueue)
  BY <1>1, CoveredMeans DEF Doubtful, Pending
<1>3. IsFiniteSet(InQueue) /\ Cardinality(InQueue) \in Nat
  BY <1>2, InQueueFinite
<1>4. IsFiniteSet(inside') /\ Pending' = reg - 1
  BY <1>1, <1>2, FS_RemoveElement DEF Pending
<1>5. CASE ptr \in InQueue
  <2>1. InQueue' = InQueue \ {ptr} /\ ~Doubtful'
    BY <1>1, <1>5 DEF InQueue, Doubtful
  <2>2. Cardinality(InQueue') = Cardinality(InQueue) - 1
    BY <1>3, <1>5, <2>1, FS_RemoveElement
  <2>3. Pending' <= Cardinality(InQueue')
    BY <1>1, <1>2, <1>3, <1>4, <2>2
  <2> QED
    BY <1>4, <2>1, <2>3 DEF Covered, InQueue
<1>6. CASE ptr \notin InQueue
  <2>1. InQueue' = InQueue
    BY <1>1, <1>6 DEF InQueue
  <2>2. Pending' + 1 <= Cardinality(InQueue') /\ Pending' <= Cardinality(InQueue')
    BY <1>1, <1>2, <1>3, <1>4, <2>1
  <2> QED
    BY <1>4, <2>2 DEF Covered, InQueue
<1> QED
  BY <1>5, <1>6

LEMMA UseCovered ==
    ASSUME TypeOK, Registers, Covered, Use, ~torn'
    PROVE  Covered'
<1>1. /\ eth = Idle /\ main = "use" /\ main' # "use"
      /\ live' = live \/ live' = live \ {ptr}
      /\ UNCHANGED <<count, eth, inside, torn>> /\ count \in Int
  BY DEF Use, Running, queue, TypeOK
<1>2. /\ IsFiniteSet(inside) /\ count <= Cardinality(InQueue)
      /\ Doubtful => count + 1 <= Cardinality(InQueue)
  <2>1. IsFiniteSet(inside) /\ Pending = count
    BY <1>1 DEF Covered, Pending
  <2>2. Cardinality(InQueue) \in Nat
    BY <2>1, InQueueFinite
  <2> QED
    BY <1>1, <2>1, <2>2, CoveredMeans
<1>3. IsFiniteSet(InQueue) /\ Cardinality(InQueue) \in Nat
  BY <1>2, InQueueFinite
<1>4. ~Doubtful' /\ Pending' = count
  BY <1>1 DEF Doubtful, Pending
<1>5. count <= Cardinality(InQueue')
  <2>1. CASE InQueue' = InQueue
    BY <1>2, <2>1
  <2>2. CASE InQueue' # InQueue
    <3>1. ptr \in InQueue /\ InQueue' = InQueue \ {ptr}
      BY <1>1, <2>2 DEF InQueue
    <3>2. Doubtful
      BY <1>1, <3>1 DEF Doubtful, InQueue
    <3>3. Cardinality(InQueue') = Cardinality(InQueue) - 1
      BY <1>3, <3>1, FS_RemoveElement
    <3> QED
      BY <1>1, <1>2, <1>3, <3>2, <3>3
  <2> QED
    BY <2>1, <2>2
<1> QED
  BY <1>1, <1>2, <1>4, <1>5 DEF Covered, InQueue

LEMMA PutCovered ==
    ASSUME TypeOK, Registers, Covered, NEW p \in Packets, netQPut(p), ~torn'
    PROVE  Covered'
<1>1. /\ eth = Idle /\ eth' = count /\ count' = count /\ count \in Floor .. Size
      /\ p \notin live /\ live' = live \cup {p} /\ inside' = inside \cup {p}
      /\ UNCHANGED <<main, ptr, torn>>
  BY DEF netQPut, TypeOK
<1>2. Pending = count /\ Pending' = count + 1
  BY <1>1, Bounds DEF Pending
<1>3. IsFiniteSet(inside) /\ IsFiniteSet(inside')
  BY <1>1, FS_AddElement DEF Covered
<1>4. IsFiniteSet(InQueue) /\ Cardinality(InQueue) \in Nat
  BY <1>3, InQueueFinite
<1>5. InQueue' = InQueue \cup {p} /\ p \notin InQueue
  BY <1>1 DEF InQueue
<1>6. Cardinality(InQueue') = Cardinality(InQueue) + 1
  BY <1>4, <1>5, FS_AddElement
<1>7. Doubtful' => Doubtful
  BY <1>1 DEF Doubtful
<1>8. /\ count + 1 <= Cardinality(InQueue')
      /\ Doubtful' => (count + 1) + 1 <= Cardinality(InQueue')
  <2>1. /\ Doubtful => count + 1 <= Cardinality(InQueue)
        /\ ~Doubtful => count + 0 <= Cardinality(InQueue)
    BY <1>1, <1>2, CoveredMeans
  <2> QED
    BY <1>1, <1>4, <1>6, <1>7, <2>1, Bounds
<1>9. /\ Doubtful' => Pending' + 1 <= Cardinality(InQueue')
      /\ ~Doubtful' => Pending' + 0 <= Cardinality(InQueue')
  BY <1>1, <1>2, <1>8, Bounds
<1> QED
  BY <1>3, <1>9 DEF Covered, InQueue

LEMMA EmptyCovered ==
    ASSUME TypeOK, Registers, Covered, netQEmpty, ~torn'
    PROVE  Covered'
<1> DEFINE gone == Window(get, count)
<1>1. /\ ~torn /\ eth = Idle /\ count \in 1 .. Size /\ count \in 0 .. Size /\ get \in Slots
      /\ live' = live \ gone /\ inside' = inside \ gone /\ count' = 0
      /\ UNCHANGED <<main, ptr, eth>>
  <2>1. live' = live \ gone /\ inside' = inside \ gone
    BY DEF netQEmpty, Window
  <2>2. ~torn /\ eth = Idle /\ count > 0 /\ count' = 0 /\ UNCHANGED <<main, ptr, eth>>
    BY DEF netQEmpty, Halfway
  <2>3. count \in 1 .. Size /\ count \in 0 .. Size /\ get \in Slots
    BY <2>2, Bounds DEF TypeOK
  <2> QED
    BY <2>1, <2>2, <2>3
<1>2. IsFiniteSet(gone) /\ Cardinality(gone) <= count
  BY <1>1, WindowSize
<1> HIDE DEF gone
<1>3. Pending = count /\ Pending' = 0
  BY <1>1 DEF Pending
<1>4. IsFiniteSet(inside)
  BY <1>1 DEF Covered
<1>5. inside' \in SUBSET inside
  BY <1>1
<1>6. IsFiniteSet(inside')
  BY <1>4, <1>5, FS_Subset
<1>7. IsFiniteSet(InQueue) /\ Cardinality(InQueue) \in Nat
  BY <1>4, InQueueFinite
<1>8. InQueue' = InQueue \ gone
  BY <1>1 DEF InQueue
<1>9. /\ IsFiniteSet(InQueue') /\ Cardinality(InQueue') \in Nat
      /\ Cardinality(InQueue') = Cardinality(InQueue) - Cardinality(InQueue \cap gone)
  <2>1. /\ IsFiniteSet(InQueue \ gone)
        /\ Cardinality(InQueue \ gone) = Cardinality(InQueue) - Cardinality(InQueue \cap gone)
    BY <1>7, FS_Difference
  <2>2. Cardinality(InQueue \ gone) \in Nat
    BY <2>1, FS_CardinalityType
  <2> QED
    BY <1>8, <2>1, <2>2
<1>10. Cardinality(gone) \in Nat /\ Cardinality(InQueue \cap gone) \in Nat
  <2>1. InQueue \cap gone \in SUBSET gone
    OBVIOUS
  <2> QED
    BY <1>2, <2>1, FS_Subset, FS_CardinalityType
<1>11. ASSUME Doubtful' PROVE 1 <= Cardinality(InQueue')
  <2>1. CASE Doubtful
    <3>1. count + 1 <= Cardinality(InQueue)
      BY <1>1, <1>3, <2>1, CoveredMeans
    <3>2. InQueue \cap gone \in SUBSET gone
      OBVIOUS
    <3>3. Cardinality(InQueue \cap gone) <= Cardinality(gone)
      BY <1>2, <3>2, FS_Subset
    <3> QED
      BY <1>1, <1>2, <1>7, <1>9, <1>10, <3>1, <3>3
  <2>2. CASE ~Doubtful
    <3>1. count + 0 <= Cardinality(InQueue)
      BY <1>1, <1>3, <2>2, CoveredMeans
    <3>2. ptr \in gone /\ ptr \notin inside
      BY <1>1, <1>11, <2>2 DEF Doubtful
    <3>3. InQueue \cap gone \in SUBSET (gone \ {ptr})
      BY <3>2 DEF InQueue
    <3>4. IsFiniteSet(gone \ {ptr}) /\ Cardinality(gone \ {ptr}) = Cardinality(gone) - 1
      BY <1>2, <3>2, FS_RemoveElement
    <3>5. Cardinality(InQueue \cap gone) <= Cardinality(gone) - 1
      BY <3>3, <3>4, FS_Subset
    <3> QED
      BY <1>1, <1>2, <1>7, <1>9, <1>10, <3>1, <3>5
  <2> QED
    BY <2>1, <2>2
<1>12. /\ Doubtful' => Pending' + 1 <= Cardinality(InQueue')
       /\ ~Doubtful' => Pending' + 0 <= Cardinality(InQueue')
  BY <1>3, <1>9, <1>11
<1> QED
  BY <1>6, <1>12 DEF Covered, InQueue

\* The count stays covered at every step.
LEMMA CoveredStep == TypeOK /\ Registers /\ Covered /\ [Next]_vars => Covered'
<1> SUFFICES ASSUME TypeOK, Registers, Covered, [Next]_vars PROVE Covered'
  OBVIOUS
<1> USE DEF queue, Running
<1>1. torn' => Covered'
  BY DEF Covered
<1>2. CASE Call \/ Check \/ Advance \/ Load \/ netQInit \/ netQInitPut
  <2>1. UNCHANGED <<inside, live, torn, count, eth>> /\ ~Doubtful'
    BY <1>2 DEF Call, Check, Advance, Load, netQInit, netQInitPut, Doubtful
  <2>2. Pending' = Pending
    BY <2>1 DEF Pending
  <2> QED
    BY <2>1, <2>2, CoveredKept
<1>3. CASE netQInitCount
  <2>1. inside' = {} /\ InQueue' = {} /\ Pending' = 0 /\ ~Doubtful'
    BY <1>3 DEF netQInitCount, InQueue, Pending, Doubtful
  <2>2. IsFiniteSet({}) /\ Cardinality({}) = 0
    BY FS_EmptySet
  <2>3. Pending' + 0 <= Cardinality(InQueue')
    BY <2>1, <2>2
  <2> QED
    BY <2>1, <2>2, <2>3 DEF Covered, InQueue
<1>4. CASE netQPutEnd
  <2>1. /\ eth # Idle /\ eth' = Idle /\ count' = eth + 1
        /\ UNCHANGED <<inside, live, torn, main, ptr>>
    BY <1>4 DEF netQPutEnd
  <2>2. ~torn => Pending' = Pending
    BY <2>1 DEF Pending, Registers
  <2>3. Doubtful' => Doubtful
    BY <2>1 DEF Doubtful
  <2> QED
    BY <2>1, <2>2, <2>3, CoveredKept
<1>5. CASE UNCHANGED vars
  <2>1. UNCHANGED <<inside, live, torn, count, eth, main, ptr>>
    BY <1>5 DEF vars
  <2>2. Pending' = Pending /\ (Doubtful' => Doubtful)
    BY <2>1 DEF Pending, Doubtful
  <2> QED
    BY <2>1, <2>2, CoveredKept
<1> QED
  BY <1>1, <1>2, <1>3, <1>4, <1>5, StoreCovered, UseCovered, PutCovered, EmptyCovered
     DEF Next, MainLoop, Interrupts

-----------------------------------------------------------------------------
(* The ring between get and put *)

\* Ring in its three parts.
Between ==
    /\ put = (get + Ahead) % Size
    /\ inside \subseteq Window(get, Ahead) \cup (IF Reading THEN {ptr} ELSE {})
    /\ main = "advance" => ptr = slots[get]

\* Steps that leave the ring alone.
LEMMA RingKept ==
    ASSUME Between, UNCHANGED <<slots, get, put>>, Ahead' = Ahead,
           Reading' <=> Reading, Reading => ptr' = ptr, inside' \subseteq inside,
           main' = "advance" => ptr' = slots[get]
    PROVE  Between'
<1>1. put' = (get' + Ahead') % Size
  BY DEF Between
<1>2. Window(get, Ahead)' = Window(get, Ahead)
  BY DEF Window
<1>3. inside' \subseteq Window(get, Ahead)' \cup (IF Reading' THEN {ptr'} ELSE {})
  BY <1>2 DEF Between
<1> QED
  BY <1>1, <1>3 DEF Between

\* Without a torn call and between the main loop's steps, the count is in its range.
LEMMA CountRange ==
    ASSUME TypeOK, Registers, ~torn
    PROVE  /\ count \in 0 .. Size
           /\ eth # Idle => eth = count /\ count \in 0 .. Size - 1
           /\ Getting => count \in 1 .. Size
           /\ Ahead \in 0 .. Size
<1>1. count \in 0 .. Size /\ (Getting => count \in 1 .. Size)
  BY Bounds DEF TypeOK, Registers
<1>2. eth # Idle => eth = count /\ count \in 0 .. Size - 1
  BY <1>1, Bounds DEF TypeOK, Registers
<1>3. Reading => Getting
  BY DEF Reading, Getting
<1> QED
  BY <1>1, <1>2, <1>3, Bounds DEF Ahead, Pending

LEMMA AdvanceRing ==
    ASSUME TypeOK, Registers, Between, Advance, ~torn
    PROVE  Between'
<1>1. /\ eth = Idle /\ main = "advance" /\ main' = "load" /\ get' = (get + 1) % Size
      /\ UNCHANGED <<slots, put, count, ptr, eth, inside>> /\ get \in Slots
  BY DEF Advance, Running, TypeOK
<1>2. count \in 1 .. Size
  BY <1>1, CountRange DEF Getting
<1>3. Ahead = count /\ Ahead' = count - 1 /\ ~Reading /\ Reading'
  BY <1>1 DEF Ahead, Pending, Reading
<1>4. /\ Window(get, count) = {ptr} \cup Window(get', count - 1)
      /\ put = (get' + (count - 1)) % Size
  BY <1>1, <1>2, <1>3, WindowFirst DEF Between
<1>5. Window(get, Ahead)' = Window(get', count - 1)
  BY <1>1, <1>3 DEF Window
<1>6. inside' \subseteq Window(get, Ahead)' \cup {ptr'}
  BY <1>1, <1>3, <1>4, <1>5 DEF Between
<1> QED
  BY <1>1, <1>3, <1>4, <1>6 DEF Between

LEMMA StoreRing ==
    ASSUME TypeOK, Registers, Between, Store, ~torn, ~lost'
    PROVE  Between'
<1>1. /\ eth = Idle /\ main = "store" /\ main' = "use" /\ inside' = inside \ {ptr}
      /\ count' = count - 1 /\ UNCHANGED <<slots, get, put, ptr, eth>>
  BY DEF Store, Running
<1>2. Ahead = count - 1 /\ Ahead' = count - 1 /\ Reading /\ ~Reading'
  BY <1>1 DEF Ahead, Pending, Reading
<1>3. Window(get, Ahead)' = Window(get, Ahead)
  BY <1>1, <1>2 DEF Window
<1>4. inside' \subseteq Window(get, Ahead)'
  BY <1>1, <1>2, <1>3 DEF Between
<1> QED
  BY <1>1, <1>2, <1>4 DEF Between

LEMMA PutRing ==
    ASSUME TypeOK, Registers, Between, NEW p \in Packets, netQPut(p), ~torn
    PROVE  Between'
<1>1. /\ eth = Idle /\ eth' = count /\ inside' = inside \cup {p} /\ put' = (put + 1) % Size
      /\ slots' = [slots EXCEPT ![put] = p] /\ UNCHANGED <<get, count, main, ptr>>
  BY DEF netQPut
<1>2. get \in Slots /\ slots \in [Slots -> Packets \cup {Null}]
  BY DEF TypeOK
<1>3. count \in 0 .. Size - 1 /\ (Getting => count \in 1 .. Size)
  BY CountRange, Bounds DEF netQPut
<1>4. Pending = count /\ Pending' = count + 1 /\ (Reading' <=> Reading)
  BY <1>1, <1>3, Bounds DEF Pending, Reading
<1>5. Ahead \in 0 .. Size - 1 /\ Ahead' = Ahead + 1
  <2>1. CASE Reading
    <3>1. Getting
      BY <2>1 DEF Reading, Getting
    <3>2. Ahead = count - 1 /\ Ahead' = (count + 1) - 1
      BY <1>4, <2>1 DEF Ahead
    <3> QED
      BY <1>3, <3>1, <3>2, Bounds
  <2>2. CASE ~Reading
    <3>1. Ahead = count /\ Ahead' = count + 1
      BY <1>4, <2>2 DEF Ahead
    <3> QED
      BY <1>3, <3>1, Bounds
  <2> QED
    BY <2>1, <2>2
<1>6. put = (get + Ahead) % Size
  BY DEF Between
<1>7. /\ Window(get, Ahead) \cup {p} \subseteq {slots'[(get + i) % Size] : i \in 0 .. Ahead}
      /\ (get + (Ahead + 1)) % Size = (put + 1) % Size
      /\ Ahead > 0 => slots'[get] = slots[get]
  BY <1>1, <1>2, <1>5, <1>6, WindowLast
<1>8. Window(get, Ahead)' = {slots'[(get + i) % Size] : i \in 0 .. Ahead}
  <2>1. Ahead' - 1 = Ahead
    BY <1>5
  <2> QED
    BY <1>1, <2>1 DEF Window
<1>9. inside' \subseteq Window(get, Ahead)' \cup (IF Reading' THEN {ptr'} ELSE {})
  BY <1>1, <1>4, <1>7, <1>8 DEF Between
<1>10. main' = "advance" => ptr' = slots'[get']
  <2>1. ASSUME main = "advance" PROVE ptr = slots'[get]
    <3>1. Ahead > 0
      BY <1>3, <1>4, <2>1 DEF Ahead, Reading, Getting
    <3> QED
      BY <1>7, <2>1, <3>1 DEF Between
  <2> QED
    BY <1>1, <2>1
<1> QED
  BY <1>1, <1>5, <1>7, <1>9, <1>10 DEF Between

LEMMA EmptyRing ==
    ASSUME TypeOK, Registers, Between, netQEmpty, ~torn'
    PROVE  Between'
<1> DEFINE gone == Window(get, count)
<1>1. inside' = inside \ gone
  BY DEF netQEmpty, Window
<1>2. /\ ~Getting /\ eth = Idle /\ get' = (get + count) % Size /\ count' = 0
      /\ UNCHANGED <<slots, put, main, ptr, eth>>
  BY DEF netQEmpty, Halfway, Getting
<1>3. Ahead = count /\ Ahead' = 0 /\ ~Reading /\ ~Reading' /\ main' # "advance"
  BY <1>2 DEF Ahead, Pending, Reading, Getting
<1>4. put' = get' /\ get' \in Slots
  BY <1>2, <1>3 DEF Between, TypeOK
<1>5. (get' + 0) % Size = get'
  BY <1>4, WrapZero
<1>6. inside' = {}
  BY <1>1, <1>3 DEF Between
<1> QED
  BY <1>3, <1>4, <1>5, <1>6 DEF Between

\* The ring is as get, put and the count say, at every step.
LEMMA RingStep == TypeOK /\ Registers /\ Ring /\ [Next]_vars => Ring'
<1> SUFFICES ASSUME TypeOK, Registers, Ring, [Next]_vars, ~lost', ~torn', ~Initialising'
             PROVE  Between'
  BY DEF Ring, Between
<1> USE DEF queue, Running
<1>1. CASE netQInitCount
  <2>1. get' = 0 /\ put' = 0 /\ inside' = {} /\ Ahead' = 0 /\ main' # "advance"
    BY <1>1 DEF netQInitCount, Registers, Ahead, Pending, Reading
  <2>2. (0 + 0) % Size = 0
    BY WrapZero, Bounds
  <2> QED
    BY <2>1, <2>2 DEF Between
<1>2. CASE ~netQInitCount
  <2>0. ~netQInit /\ ~netQInitPut
    BY DEF netQInit, netQInitPut, Initialising
  <2>1. ~lost /\ ~torn
    <3>1. CASE Call \/ Check \/ Advance \/ Load \/ Use \/ \E p \in Packets : netQPut(p)
      BY <3>1 DEF Call, Check, Advance, Load, Use, netQPut
    <3>2. CASE Store \/ netQPutEnd \/ netQEmpty
      <4>1. lost => lost'
        BY <3>2 DEF Store, netQPutEnd, netQEmpty
      <4>2. torn => torn'
        BY <3>2 DEF Store, netQPutEnd, netQEmpty
      <4> QED
        BY <4>1, <4>2
    <3>3. CASE UNCHANGED vars
      BY <3>3 DEF vars
    <3> QED
      BY <1>2, <2>0, <3>1, <3>2, <3>3 DEF Next, MainLoop, Interrupts
  <2>2. Between
    <3>1. ~Initialising
      <4>1. UNCHANGED main => ~Initialising
        BY DEF Initialising
      <4>2. ASSUME main' # main PROVE ~Initialising
        <5>1. Call \/ Check \/ Advance \/ Load \/ Store \/ Use
          BY <1>2, <2>0, <4>2
             DEF Next, MainLoop, Interrupts, netQPut, netQPutEnd, netQEmpty, vars
        <5> QED
          BY <5>1 DEF Call, Check, Advance, Load, Store, Use, Initialising
      <4> QED
        BY <4>1, <4>2
    <3> QED
      BY <2>1, <3>1 DEF Ring, Between
  <2>3. CASE Call \/ Load \/ Use
    <3>1. /\ UNCHANGED <<slots, get, put, count, eth, inside>> /\ main' # "advance"
          /\ Reading' <=> Reading
          /\ Reading => ptr' = ptr
      BY <2>3 DEF Call, Load, Use, Reading
    <3>2. Ahead' = Ahead
      BY <3>1 DEF Ahead, Pending
    <3> QED
      BY <2>2, <3>1, <3>2, RingKept
  <2>4. CASE Check
    <3>1. /\ UNCHANGED <<slots, get, put, count, eth, inside>> /\ ~Reading /\ ~Reading'
          /\ main' = "advance" => ptr' = slots[get]
      BY <2>4 DEF Check, Reading
    <3>2. Ahead' = Ahead
      BY <3>1 DEF Ahead, Pending
    <3> QED
      BY <2>2, <3>1, <3>2, RingKept
  <2>5. CASE netQPutEnd
    <3>1. /\ UNCHANGED <<slots, get, put, main, ptr, inside>> /\ (Reading' <=> Reading)
          /\ eth # Idle /\ eth' = Idle /\ count' = count + 1
      BY <2>5 DEF netQPutEnd, Reading
    <3>2. Ahead' = Ahead
      BY <3>1 DEF Ahead, Pending
    <3> QED
      BY <2>2, <3>1, <3>2, RingKept DEF Between
  <2>6. CASE UNCHANGED vars
    <3>1. UNCHANGED <<slots, get, put, count, eth, inside, main, ptr>>
      BY <2>6 DEF vars
    <3>2. Ahead' = Ahead /\ (Reading' <=> Reading)
      BY <3>1 DEF Ahead, Pending, Reading
    <3> QED
      BY <2>2, <3>1, <3>2, RingKept DEF Between
  <2> QED
    BY <1>2, <2>0, <2>1, <2>2, <2>3, <2>4, <2>5, <2>6, AdvanceRing, StoreRing, PutRing, EmptyRing
       DEF Next, MainLoop, Interrupts
<1> QED
  BY <1>1, <1>2

-----------------------------------------------------------------------------
(* The theorems *)

LEMMA InitInv == Init => IInv
<1> SUFFICES ASSUME Init PROVE Covered /\ Ring
  BY RegistersInit DEF IInv
<1>1. get = 0 /\ put = 0 /\ count = 0 /\ eth = Idle /\ main = "idle"
      /\ inside = {} /\ live = {}
  BY DEF Init
<1>2. Pending = 0 /\ Ahead = 0 /\ ~Doubtful
  BY <1>1 DEF Pending, Ahead, Reading, Doubtful
<1>3. Covered
  <2>1. IsFiniteSet(inside) /\ Cardinality(inside \cap live) = 0
    <3>1. inside = {} /\ inside \cap live = {}
      BY <1>1
    <3> QED
      BY <3>1, FS_EmptySet
  <2>2. Pending + 0 <= Cardinality(inside \cap live)
    BY <1>2, <2>1
  <2> QED
    BY <1>1, <1>2, <2>1, <2>2 DEF Covered
<1>4. Ring
  <2>1. (0 + 0) % Size = 0
    BY WrapZero, Bounds
  <2> QED
    BY <1>1, <1>2, <2>1 DEF Ring
<1> QED
  BY <1>3, <1>4

LEMMA InvCorrect == Spec => []IInv
<1>1. IInv /\ [Next]_vars => IInv'
  BY RegistersStep, CoveredStep, RingStep DEF IInv
<1> QED
  BY InitInv, <1>1, PTL DEF Spec

\* The indices stay in the ring and the count at most at its size whatever
\* interrupts whatever (net.c:22-75), and the count falls below zero only after a
\* link interrupt inside netQGet, netQPut or netQInit.
THEOREM IsrTypeCorrect == Spec => []TypeOK
<1>1. IInv => TypeOK
  BY DEF IInv
<1> QED
  BY InvCorrect, <1>1, PTL

\* Between calls of netQGet the count never exceeds the packets in the queue, so
\* ptpd_Periodic_Handle's loop until both counts are 0 (ptpd.c:64) ends: a lost update
\* of count-- or count++ only ever makes the count too small.
THEOREM IsrCountCorrect == Spec => []CountNeverOverstates
<1>1. IInv => CountNeverOverstates
  <2> SUFFICES ASSUME IInv, ~torn, Running("idle") PROVE count <= Cardinality(inside)
    BY DEF CountNeverOverstates
  <2>1. IsFiniteSet(inside) /\ Pending = count /\ ~Doubtful
    BY DEF IInv, Covered, Pending, Running, Doubtful
  <2>2. count + 0 <= Cardinality(InQueue)
    BY <2>1, CoveredMeans DEF IInv
  <2>3. count \in Int
    BY Bounds DEF IInv, TypeOK
  <2> QED
    BY <2>1, <2>2, <2>3, InQueueFinite
<1> QED
  BY InvCorrect, <1>1, PTL

\* netQGet, netQEmpty and netQPut lose no packet, count right and hand out
\* allocated packets in every interleaving, until a netQPut comes between the load
\* and the store of count-- or the link interrupt comes inside netQGet, netQPut or
\* netQInit.
THEOREM IsrWindowsCorrect == Spec => []OnlyTheseWindowsHarm
<1>1. IInv => OnlyTheseWindowsHarm
  <2> SUFFICES ASSUME IInv, ~lost, ~torn
               PROVE  /\ UsesLivePacket
                      /\ Running("idle") => /\ count = Cardinality(inside)
                                            /\ put = (get + count) % Size
    BY DEF OnlyTheseWindowsHarm
  <2> USE DEF Running, Initialising
  <2>1. TypeOK /\ Registers /\ Covered /\ get \in Slots
    BY DEF IInv, TypeOK
  <2>2. IsFiniteSet(inside) /\ Cardinality(inside) \in Nat /\ Cardinality(InQueue) \in Nat
        /\ Cardinality(InQueue) <= Cardinality(inside)
    BY <2>1, InQueueFinite DEF Covered
  \* When netQGet is at an end, or has not begun, the packets in the queue are at
  \* most those counted.
  <2>3. ASSUME main \in {"use", "idle"}
        PROVE  /\ Between /\ Ahead = Pending /\ count \in 0 .. Size /\ Pending \in 0 .. Size
               /\ Cardinality(inside) <= Pending
    <3>1. Between /\ ~Reading
      BY <2>3 DEF IInv, Ring, Between, Reading
    <3>2. Ahead \in 0 .. Size /\ count \in 0 .. Size /\ Ahead = Pending
      BY <2>1, <3>1, CountRange DEF Ahead
    <3>3. IsFiniteSet(Window(get, Ahead)) /\ Cardinality(Window(get, Ahead)) <= Ahead
      BY <2>1, <3>2, WindowSize
    <3>4. inside \in SUBSET Window(get, Ahead)
      BY <3>1 DEF Between
    <3>5. Cardinality(inside) <= Cardinality(Window(get, Ahead))
      BY <3>3, <3>4, FS_Subset
    <3>6. Cardinality(Window(get, Ahead)) \in Nat
      BY <3>3, FS_CardinalityType
    <3> QED
      BY <2>2, <3>1, <3>2, <3>3, <3>5, <3>6
  <2>4. UsesLivePacket
    <3> SUFFICES ASSUME main = "use", Doubtful PROVE FALSE
      BY DEF UsesLivePacket, Doubtful
    <3>1. Pending + 1 <= Cardinality(InQueue)
      BY <2>1, CoveredMeans
    <3>2. Cardinality(inside) <= Pending /\ Pending \in 0 .. Size
      BY <2>3
    <3> QED
      BY <2>2, <3>1, <3>2
  <2>5. ASSUME Running("idle") PROVE count = Cardinality(inside) /\ put = (get + count) % Size
    <3>1. Pending = count /\ ~Doubtful
      BY <2>5 DEF Pending, Doubtful
    <3>2. Pending + 0 <= Cardinality(InQueue)
      BY <2>1, <3>1, CoveredMeans
    <3>3. Cardinality(inside) <= count /\ Ahead = count /\ Between /\ count \in 0 .. Size
      BY <2>3, <2>5, <3>1
    <3> QED
      BY <2>2, <3>1, <3>2, <3>3 DEF Between
  <2> QED
    BY <2>4, <2>5
<1> QED
  BY InvCorrect, <1>1, PTL

-----------------------------------------------------------------------------
(* The order of the packets *)

Cells == Packets \cup {Null}

\* The packets of the queue, oldest first: while netQGet has advanced get and not
\* yet stored the count, the oldest is the one it holds.
At(i) == IF Reading THEN IF i = 1 THEN ptr ELSE slots[(get + (i - 2)) % Size]
         ELSE slots[(get + (i - 1)) % Size]

\* While netQInit empties the queue nothing in it counts any more.
Queued == IF Initialising THEN 0 ELSE Pending

Contents == [i \in 1 .. Queued |-> At(i)]

\* What a step does to the packets, as a queue would: nothing, take one at the
\* end, hand out the oldest, or drop all.
FifoStep ==
    \/ UNCHANGED Contents
    \/ \E p \in Packets : netQPut(p) /\ Contents' = Append(Contents, p)
    \/ Store /\ Contents # <<>> /\ ptr = Head(Contents) /\ Contents' = Tail(Contents)
    \/ (netQInit \/ netQEmpty) /\ Contents' = <<>>

\* The invariant as long as no window was hit.
Sound == TypeOK /\ Registers /\ (~Initialising => Between)

LEMMA NextCell ==
    ASSUME NEW g \in Slots, NEW i \in 0 .. Size - 1
    PROVE  /\ (g + i) % Size \in Slots /\ (g + 1) % Size \in Slots
           /\ (((g + 1) % Size) + i) % Size = (g + (i + 1)) % Size
<1> USE BufQueueIsrAssumption
<1>1. /\ (g + 1) % Size \in Slots
      /\ (g + 1) % Size = IF g + 1 < Size THEN g + 1 ELSE g + 1 - Size
  BY Wrap
<1>2. (g + i) % Size \in Slots
  BY Wrap
<1>3. (g + (i + 1)) % Size = IF g + (i + 1) < Size THEN g + (i + 1) ELSE g + (i + 1) - Size
  BY Wrap
<1> DEFINE h == (g + 1) % Size
<1>4. (h + i) % Size = IF h + i < Size THEN h + i ELSE h + i - Size
  BY <1>1, Wrap
<1> QED
  BY <1>1, <1>2, <1>3, <1>4 DEF Slots

\* The contents form a sequence of as many packets as counted.
LEMMA ContentsSeq ==
    ASSUME Sound, ~torn
    PROVE  /\ Queued \in 0 .. Size /\ Contents \in Seq(Cells) /\ Len(Contents) = Queued
           /\ \A i \in 1 .. Queued : Contents[i] = At(i)
<1>1. Queued \in 0 .. Size
  <2>1. CASE Initialising
    BY <2>1, Bounds DEF Queued
  <2>2. CASE ~Initialising
    BY <2>2, CountRange, Bounds DEF Sound, Pending, Queued
  <2> QED
    BY <2>1, <2>2
<1>2. ASSUME NEW i \in 1 .. Queued PROVE At(i) \in Cells
  <2>1. slots \in [Slots -> Cells] /\ ptr \in Cells /\ get \in Slots
    BY DEF Sound, TypeOK, Cells
  <2>2. i - 1 \in 0 .. Size - 1 /\ (i # 1 => i - 2 \in 0 .. Size - 1)
    BY <1>1, Bounds
  <2>3. (get + (i - 1)) % Size \in Slots /\ (i # 1 => (get + (i - 2)) % Size \in Slots)
    BY <2>1, <2>2, NextCell
  <2> QED
    BY <2>1, <2>3 DEF At
<1>3. Contents \in [1 .. Queued -> Cells] /\ Queued \in Nat
  BY <1>1, <1>2, Bounds DEF Contents
<1>4. Contents \in Seq(Cells) /\ Len(Contents) = Queued
  <2>1. Contents \in Seq(Cells)
    BY <1>3, SeqDef
  <2> QED
    BY <1>3, <2>1, LenProperties
<1> QED
  BY <1>1, <1>4 DEF Contents

\* So they do after a step.
LEMMA ContentsSeqNext ==
    ASSUME Sound', ~torn'
    PROVE  /\ Queued' \in 0 .. Size /\ Contents' \in Seq(Cells) /\ Len(Contents') = Queued'
           /\ \A i \in 1 .. Queued' : Contents'[i] = At(i)'
<1>1. Queued' \in 0 .. Size
  <2>1. /\ count' \in 0 .. Size
        /\ eth' # Idle => count' \in 0 .. Size - 1
    BY Bounds DEF Sound, TypeOK, Registers
  <2>2. CASE Initialising' \/ eth' = Idle
    <3>1. Queued' = 0 \/ Queued' = count'
      BY <2>2 DEF Pending, Queued
    <3> QED
      BY <2>1, <3>1, Bounds
  <2>3. CASE ~Initialising' /\ eth' # Idle
    <3>1. count' \in 0 .. Size - 1 /\ Size \in Nat
      BY <2>1, <2>3, Bounds
    <3>2. ASSUME NEW c \in 0 .. Size - 1, Size \in Nat PROVE c + 1 \in 0 .. Size
      BY <3>2
    <3>3. count' + 1 \in 0 .. Size
      BY <3>1, <3>2
    <3> QED
      BY <2>3, <3>3 DEF Pending, Queued
  <2> QED
    BY <2>2, <2>3
<1>2. ASSUME NEW i \in 1 .. Queued' PROVE At(i)' \in Cells
  <2>1. slots' \in [Slots -> Cells] /\ ptr' \in Cells /\ get' \in Slots
    BY DEF Sound, TypeOK, Cells
  <2>2. i - 1 \in 0 .. Size - 1 /\ (i # 1 => i - 2 \in 0 .. Size - 1)
    BY <1>1, Bounds
  <2>3. (get' + (i - 1)) % Size \in Slots /\ (i # 1 => (get' + (i - 2)) % Size \in Slots)
    BY <2>1, <2>2, NextCell
  <2> QED
    BY <2>1, <2>3 DEF At
<1>3. Contents' \in [1 .. Queued' -> Cells] /\ Queued' \in Nat
  BY <1>1, <1>2, Bounds DEF Contents
<1>4. Contents' \in Seq(Cells) /\ Len(Contents') = Queued'
  <2>1. Contents' \in Seq(Cells)
    BY <1>3, SeqDef
  <2> QED
    BY <1>3, <2>1, LenProperties
<1> QED
  BY <1>1, <1>4 DEF Contents

\* get moves on before the count does, and the packet stays the oldest.
LEMMA AdvanceOrder ==
    ASSUME Sound, Advance, ~torn
    PROVE  Contents' = Contents
<1>1. /\ eth = Idle /\ main = "advance" /\ main' = "load" /\ get' = (get + 1) % Size
      /\ UNCHANGED <<slots, count, ptr, eth>> /\ get \in Slots /\ ptr = slots[get]
  BY DEF Advance, Running, Sound, TypeOK, Between, Initialising
<1>2. Queued' = Queued /\ ~Reading /\ Reading' /\ Queued \in 0 .. Size
  BY <1>1, ContentsSeq DEF Pending, Reading, Queued, Initialising
<1>3. ASSUME NEW i \in 1 .. Queued PROVE At(i)' = At(i)
  <2>1. CASE i = 1
    <3>1. i - 1 = 0 /\ (get + 0) % Size = get
      BY <1>1, <2>1, WrapZero
    <3>2. At(i) = slots[get]
      BY <1>2, <3>1 DEF At
    <3> QED
      BY <1>1, <1>2, <2>1, <3>2 DEF At
  <2>2. CASE i # 1
    <3>1. i - 2 \in 0 .. Size - 1 /\ (i - 2) + 1 = i - 1
      BY <1>2, <2>2, Bounds
    <3>2. (get' + (i - 2)) % Size = (get + (i - 1)) % Size
      BY <1>1, <3>1, NextCell
    <3> QED
      BY <1>1, <1>2, <2>2, <3>2 DEF At
  <2> QED
    BY <2>1, <2>2
<1> QED
  BY <1>2, <1>3 DEF Contents

\* The store of the count hands out the oldest packet.
LEMMA StoreOrder ==
    ASSUME Sound, Sound', Store, ~torn, ~lost'
    PROVE  /\ Contents # <<>> /\ ptr = Head(Contents) /\ Contents' = Tail(Contents)
<1>1. /\ eth = Idle /\ main = "store" /\ main' = "use" /\ count' = count - 1
      /\ UNCHANGED <<slots, get, ptr, eth, torn>>
  BY DEF Store, Running
<1>2. count \in 1 .. Size
  BY <1>1, CountRange DEF Sound, Getting, Initialising
<1>3. Queued = count /\ Queued' = count - 1 /\ Reading /\ ~Reading'
  BY <1>1 DEF Pending, Reading, Queued, Initialising
<1>4. /\ Contents \in Seq(Cells) /\ Len(Contents) = count
      /\ \A i \in 1 .. count : Contents[i] = At(i)
  BY <1>3, ContentsSeq
<1>5. /\ Contents' \in Seq(Cells) /\ Len(Contents') = count - 1
      /\ \A i \in 1 .. count - 1 : Contents'[i] = At(i)'
  BY <1>1, <1>3, ContentsSeqNext
<1>6. Contents # <<>>
  BY <1>2, <1>4, EmptySeq
<1>7. Head(Contents) = ptr
  <2>1. 1 \in 1 .. count /\ At(1) = ptr
    BY <1>2, <1>3 DEF At
  <2> QED
    BY <1>4, <1>6, <2>1
<1>8. /\ Tail(Contents) \in Seq(Cells) /\ Len(Tail(Contents)) = count - 1
      /\ \A i \in 1 .. count - 1 : Tail(Contents)[i] = Contents[i + 1]
  BY <1>4, <1>6, HeadTailProperties
<1>9. ASSUME NEW i \in 1 .. count - 1 PROVE Tail(Contents)[i] = Contents'[i]
  <2>1. i + 1 \in 1 .. count /\ i + 1 # 1 /\ (i + 1) - 2 = i - 1
    BY <1>2
  <2>2. At(i + 1) = slots[(get + (i - 1)) % Size]
    BY <1>3, <2>1 DEF At
  <2>3. At(i)' = slots[(get + (i - 1)) % Size]
    BY <1>1, <1>3 DEF At
  <2> QED
    BY <1>4, <1>5, <1>8, <2>1, <2>2, <2>3
<1>10. Contents' = Tail(Contents)
  BY <1>5, <1>8, <1>9, SeqEqual
<1> QED
  BY <1>6, <1>7, <1>10

\* netQPut appends, wherever in the main loop it comes.
LEMMA PutOrder ==
    ASSUME Sound, Sound', NEW p \in Packets, netQPut(p), ~torn
    PROVE  Contents' = Append(Contents, p)
<1>1. /\ eth = Idle /\ eth' = count /\ slots' = [slots EXCEPT ![put] = p]
      /\ UNCHANGED <<get, count, main, ptr, torn>>
      /\ ~Initialising /\ ~Initialising'
  BY DEF netQPut, Initialising
<1>2. /\ get \in Slots /\ put \in Slots /\ slots \in [Slots -> Cells]
      /\ put = (get + Ahead) % Size
  BY <1>1 DEF Sound, TypeOK, Between, Cells
<1>3. count \in 0 .. Size - 1 /\ (Reading => count \in 1 .. Size)
  BY <1>1, CountRange, Bounds DEF netQPut, Sound, Reading, Getting
<1>4. Queued = count /\ Queued' = count + 1 /\ (Reading' <=> Reading)
  BY <1>1, <1>3, Bounds DEF Pending, Reading, Queued
<1>5. Ahead \in 0 .. Size - 1 /\ Ahead = IF Reading THEN count - 1 ELSE count
  BY <1>1, <1>3, <1>4, Bounds DEF Ahead, Queued
<1>6. \A j \in 0 .. Ahead - 1 : slots'[(get + j) % Size] = slots[(get + j) % Size]
  <2> TAKE j \in 0 .. Ahead - 1
  <2>1. j \in 0 .. Size /\ Ahead \in 0 .. Size
    BY <1>5, Bounds
  <2>2. /\ (get + j) % Size \in Slots
        /\ (get + j) % Size = IF get + j < Size THEN get + j ELSE get + j - Size
    BY <1>2, <2>1, Wrap
  <2>3. put = IF get + Ahead < Size THEN get + Ahead ELSE get + Ahead - Size
    BY <1>2, <2>1, Wrap
  <2>4. (get + j) % Size # put
    <3> DEFINE k == (get + j) % Size
    <3>1. k = IF get + j < Size THEN get + j ELSE get + j - Size
      BY <2>2
    <3>2. get \in 0 .. Size - 1 /\ Size \in Nat
      BY <1>2, Bounds DEF Slots
    <3> HIDE DEF k
    <3>3. k # put
      BY <1>5, <2>3, <3>1, <3>2
    <3> QED
      BY <3>3 DEF k
  <2> QED
    BY <1>1, <1>2, <2>2, <2>4
<1>7. /\ Contents \in Seq(Cells) /\ Len(Contents) = count
      /\ \A i \in 1 .. count : Contents[i] = At(i)
  BY <1>4, ContentsSeq
<1>8. /\ Contents' \in Seq(Cells) /\ Len(Contents') = count + 1
      /\ \A i \in 1 .. count + 1 : Contents'[i] = At(i)'
  BY <1>1, <1>4, ContentsSeqNext
<1>9. /\ Append(Contents, p) \in Seq(Cells) /\ Len(Append(Contents, p)) = count + 1
      /\ \A i \in 1 .. count : Append(Contents, p)[i] = Contents[i]
      /\ Append(Contents, p)[count + 1] = p
  <2>1. p \in Cells
    BY DEF Cells
  <2> QED
    BY <1>7, <2>1, AppendProperties
<1>10. ASSUME NEW i \in 1 .. count PROVE At(i)' = At(i)
  <2>1. CASE Reading /\ i = 1
    BY <1>1, <1>4, <2>1 DEF At
  <2>2. CASE Reading /\ i # 1
    <3>1. i - 2 \in 0 .. Ahead - 1
      BY <1>3, <1>5, <2>2
    <3> QED
      BY <1>1, <1>4, <1>6, <2>2, <3>1 DEF At
  <2>3. CASE ~Reading
    <3>1. i - 1 \in 0 .. Ahead - 1
      BY <1>3, <1>5, <2>3
    <3> QED
      BY <1>1, <1>4, <1>6, <2>3, <3>1 DEF At
  <2> QED
    BY <2>1, <2>2, <2>3
<1>11. ASSUME NEW i \in 1 .. count + 1, i = count + 1 PROVE At(i)' = p
  <2>1. slots'[put] = p
    BY <1>1, <1>2
  <2>2. CASE Reading
    <3>1. i - 2 = Ahead /\ i # 1
      BY <1>3, <1>5, <1>11, <2>2
    <3> QED
      BY <1>1, <1>2, <1>4, <2>1, <2>2, <3>1 DEF At
  <2>3. CASE ~Reading
    <3>1. i - 1 = Ahead
      BY <1>3, <1>5, <1>11, <2>3
    <3> QED
      BY <1>1, <1>2, <1>4, <2>1, <2>3, <3>1 DEF At
  <2> QED
    BY <2>2, <2>3
<1>12. ASSUME NEW i \in 1 .. count + 1 PROVE Append(Contents, p)[i] = Contents'[i]
  <2>1. i = count + 1 \/ i \in 1 .. count
    BY <1>3
  <2>2. CASE i = count + 1
    BY <1>8, <1>9, <1>11, <2>2
  <2>3. CASE i \in 1 .. count
    BY <1>7, <1>8, <1>9, <1>10, <2>3
  <2> QED
    BY <2>1, <2>2, <2>3
<1> QED
  BY <1>8, <1>9, <1>12, SeqEqual

\* Steps that neither put nor get.
LEMMA OrderKept ==
    ASSUME UNCHANGED <<slots, get>>, Queued' = Queued, Reading' <=> Reading,
           Reading => ptr' = ptr
    PROVE  Contents' = Contents
<1>1. ASSUME NEW i \in 1 .. Queued PROVE At(i)' = At(i)
  BY DEF At
<1> QED
  BY <1>1 DEF Contents

\* Every step treats the packets as a queue would.
LEMMA StepOrder == Sound /\ Sound' /\ [Next]_vars /\ ~lost' /\ ~torn /\ ~torn' => FifoStep
<1> SUFFICES ASSUME Sound, Sound', [Next]_vars, ~lost', ~torn, ~torn' PROVE FifoStep
  OBVIOUS
<1> USE DEF queue, Running, Initialising
<1>1. CASE Call \/ Check \/ Load \/ Use
  <2>1. /\ UNCHANGED <<slots, get, count, eth>> /\ (Reading' <=> Reading)
        /\ ~Initialising /\ ~Initialising' /\ (Reading => ptr' = ptr)
    BY <1>1 DEF Call, Check, Load, Use, Reading
  <2>2. Queued' = Queued
    BY <2>1 DEF Pending, Queued
  <2> QED
    BY <2>1, <2>2, OrderKept DEF FifoStep
<1>2. CASE netQPutEnd
  <2>1. /\ UNCHANGED <<slots, get, main, ptr>> /\ (Reading' <=> Reading)
        /\ (Initialising' <=> Initialising)
        /\ eth # Idle /\ eth' = Idle /\ count' = count + 1
    BY <1>2 DEF netQPutEnd, Reading
  <2>2. Queued' = Queued
    BY <2>1 DEF Pending, Queued
  <2> QED
    BY <2>1, <2>2, OrderKept DEF FifoStep
<1>3. CASE netQInit \/ netQEmpty
  <2>1. Initialising' \/ (count' = 0 /\ eth' = Idle)
    BY <1>3 DEF netQInit, netQEmpty, Halfway
  <2>2. Queued' = 0
    BY <2>1 DEF Pending, Queued
  <2>3. Contents' = <<>>
    BY <2>2, ContentsSeqNext, EmptySeq
  <2> QED
    BY <1>3, <2>3 DEF FifoStep
<1>4. CASE netQInitPut \/ netQInitCount
  <2>1. Initialising /\ eth' = Idle /\ (Initialising' \/ count' = 0)
    BY <1>4 DEF netQInitPut, netQInitCount
  <2>2. Queued = 0 /\ Queued' = 0
    BY <2>1 DEF Pending, Queued
  <2>3. Contents = <<>> /\ Contents' = <<>>
    BY <2>2, ContentsSeq, ContentsSeqNext, EmptySeq
  <2> QED
    BY <2>3 DEF FifoStep
<1>5. CASE UNCHANGED vars
  <2>1. UNCHANGED <<slots, get, count, eth, main, ptr>>
    BY <1>5 DEF vars
  <2>2. Queued' = Queued /\ (Reading' <=> Reading)
    BY <2>1 DEF Pending, Reading, Queued
  <2> QED
    BY <2>1, <2>2, OrderKept DEF FifoStep
<1> QED
  BY <1>1, <1>2, <1>3, <1>4, <1>5, AdvanceOrder, StoreOrder, PutOrder
     DEF FifoStep, Next, MainLoop, Interrupts

\* The queue is empty at first, and until one of the windows is hit every step
\* of the main loop and the interrupts treats the packets as a queue would: netQGet
\* hands out the oldest, whatever came between its assignments (net.c:42-56).
THEOREM IsrOrderCorrect ==
    Spec => /\ Contents = <<>>
            /\ [][~lost /\ ~torn /\ ~lost' /\ ~torn' => FifoStep]_vars
<1>1. Init => Contents = <<>>
  BY DEF Init, Contents, Queued, Pending, Initialising
<1>2. IInv /\ IInv' /\ [Next]_vars
      => [~lost /\ ~torn /\ ~lost' /\ ~torn' => FifoStep]_vars
  BY StepOrder DEF IInv, Ring, Sound, Between
<1> QED
  BY <1>1, <1>2, InvCorrect, PTL DEF Spec
=============================================================================
