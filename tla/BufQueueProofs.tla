--------------------------- MODULE BufQueueProofs ---------------------------
(***************************************************************************)
(* Proofs about BufQueue, for any size of the ring and any pbufs.          *)
(***************************************************************************)
EXTENDS BufQueue, SequenceTheorems, TLAPS

\* The remainder of the sums the code computes.
LEMMA Wrap ==
    ASSUME NEW a \in Slots, NEW k \in 0 .. Size
    PROVE  /\ (a + k) % Size = IF a + k < Size THEN a + k ELSE a + k - Size
           /\ (a + k) % Size \in Slots
<1>1. CASE a + k < Size
  BY <1>1, BufQueueAssumption DEF Slots
<1>2. CASE a + k >= Size
  BY <1>2, BufQueueAssumption DEF Slots
<1> QED
  BY <1>1, <1>2, BufQueueAssumption DEF Slots

-----------------------------------------------------------------------------
(* The indices *)

Inv == TypeOK /\ RingConsistent

\* Each call keeps the indices and the count in step.
LEMMA InvStep == Inv /\ [Next]_vars => Inv'
<1> SUFFICES ASSUME Inv, [Next]_vars PROVE Inv'
  OBVIOUS
<1> USE BufQueueAssumption DEF Inv, TypeOK, RingConsistent
<1>0. 0 \in Slots /\ 0 \in 0 .. Size /\ 1 \in 0 .. Size /\ Size \in Nat
  BY DEF Slots
<1>1. ASSUME NEW p \in Packets, netQPut(p) PROVE Inv'
  <2>1. CASE count >= Size
    BY <1>1, <2>1 DEF netQPut
  <2>2. CASE ~(count >= Size)
    <3>1. /\ slots' = [slots EXCEPT ![put] = p] /\ put' = (put + 1) % Size
          /\ count' = count + 1 /\ get' = get /\ answer' = TRUE
      BY <1>1, <2>2 DEF netQPut
    <3>2. count + 1 \in 0 .. Size
      BY <2>2
    <3>3. put' \in Slots /\ put' = IF put + 1 < Size THEN put + 1 ELSE put + 1 - Size
      BY <1>0, <3>1, Wrap
    <3>4. put = IF get + count < Size THEN get + count ELSE get + count - Size
      BY Wrap
    <3>5. (get + (count + 1)) % Size = IF get + (count + 1) < Size
                                       THEN get + (count + 1) ELSE get + (count + 1) - Size
      BY <3>2, Wrap
    <3>6. put' = (get + (count + 1)) % Size
      BY <2>2, <3>3, <3>4, <3>5 DEF Slots
    <3> QED
      BY <3>1, <3>2, <3>3, <3>6
  <2> QED
    BY <2>1, <2>2
<1>2. CASE netQGet
  <2>1. CASE count = 0
    BY <1>2, <2>1 DEF netQGet
  <2>2. CASE count # 0
    <3>1. /\ answer' = slots[get] /\ get' = (get + 1) % Size /\ count' = count - 1
          /\ UNCHANGED <<slots, put>>
      BY <1>2, <2>2 DEF netQGet
    <3>2. count - 1 \in 0 .. Size
      BY <2>2
    <3>3. get' \in Slots /\ get' = IF get + 1 < Size THEN get + 1 ELSE get + 1 - Size
      BY <1>0, <3>1, Wrap
    <3>4. put = IF get + count < Size THEN get + count ELSE get + count - Size
      BY Wrap
    <3>5. (get' + (count - 1)) % Size = IF get' + (count - 1) < Size
                                        THEN get' + (count - 1) ELSE get' + (count - 1) - Size
      BY <3>2, <3>3, Wrap
    <3>6. put = (get' + (count - 1)) % Size
      BY <2>2, <3>3, <3>4, <3>5 DEF Slots
    <3> QED
      BY <3>1, <3>2, <3>3, <3>6
  <2> QED
    BY <2>1, <2>2
<1>3. CASE netQEmpty
  <2>1. get' = put
    BY <1>3 DEF netQEmpty
  <2>2. put = (put + 0) % Size
    BY ONLY put \in Slots, BufQueueAssumption DEF Slots
  <2> QED
    BY <1>0, <1>3, <2>1, <2>2 DEF netQEmpty
<1>4. CASE netQInit
  <2>1. 0 = (0 + 0) % Size
    BY <1>0, Wrap DEF Slots
  <2> QED
    BY <1>0, <1>4, <2>1 DEF netQInit
<1>5. CASE netQCheck
  BY <1>5 DEF netQCheck
<1>6. CASE UNCHANGED vars
  BY <1>6 DEF vars
<1> QED
  BY <1>1, <1>2, <1>3, <1>4, <1>5, <1>6 DEF Next

\* The invariant holds in every reachable state.
LEMMA InvCorrect == Spec => []Inv
<1>1. Init => Inv
  <2>1. 0 = (0 + 0) % Size /\ 0 \in Slots
    BY BufQueueAssumption, Wrap DEF Slots
  <2> QED
    BY <2>1, BufQueueAssumption DEF Init, Inv, TypeOK, RingConsistent
<1> QED
  BY <1>1, InvStep, PTL DEF Spec

\* netQPut and netQGet never leave the array, and get, put and count agree.
THEOREM RingCorrect == Spec => [](TypeOK /\ RingConsistent)
BY InvCorrect, PTL DEF Inv

\* The variables of the queue keep their types: no index leaves the ring.
THEOREM RingTypeCorrect == Spec => []TypeOK
BY InvCorrect, PTL DEF Inv

-----------------------------------------------------------------------------
(* The contents *)

Cells == Packets \cup {Null}

\* The packets found from an index on form a sequence.
LEMMA CellsSeq ==
    ASSUME NEW ss \in [Slots -> Cells], NEW g \in Slots, NEW n \in 0 .. Size
    PROVE  LET c == [i \in 1 .. n |-> ss[(g + i - 1) % Size]] IN
           /\ c \in Seq(Cells) /\ Len(c) = n
           /\ \A i \in 1 .. n : c[i] = ss[(g + i - 1) % Size]
<1> DEFINE c == [i \in 1 .. n |-> ss[(g + i - 1) % Size]]
<1> USE BufQueueAssumption
<1>1. n \in Nat
  OBVIOUS
<1>2. ASSUME NEW i \in 1 .. n PROVE ss[(g + i - 1) % Size] \in Cells
  <2>1. i - 1 \in 0 .. Size /\ g + i - 1 = g + (i - 1)
    BY <1>2 DEF Slots
  <2>2. (g + i - 1) % Size \in Slots
    BY <2>1, Wrap
  <2> QED
    BY <2>2
<1>3. c \in [1 .. n -> Cells]
  BY <1>2
<1>4. c \in Seq(Cells)
  BY <1>1, <1>3, SeqDef
<1>5. Len(c) = n
  BY <1>1, <1>3, <1>4, LenProperties
<1> QED
  BY <1>4, <1>5

\* The contents form a sequence of count packets.
LEMMA ContentsSeq ==
    ASSUME Inv
    PROVE  /\ Contents \in Seq(Cells) /\ Len(Contents) = count
           /\ \A i \in 1 .. count : Contents[i] = slots[(get + i - 1) % Size]
BY CellsSeq DEF Inv, TypeOK, Contents, Cells

\* So they do after a step.
LEMMA ContentsSeqNext ==
    ASSUME Inv'
    PROVE  /\ Contents' \in Seq(Cells) /\ Len(Contents') = count'
           /\ \A i \in 1 .. count' : Contents'[i] = slots'[(get' + i - 1) % Size]
BY CellsSeq DEF Inv, TypeOK, Contents, Cells

\* netQPut appends, or refuses when the ring is full.
LEMMA PutRefines ==
    ASSUME Inv, Inv', NEW p \in Packets, netQPut(p)
    PROVE  Fifo!Put(p)
<1> USE BufQueueAssumption
<1>1. CASE count >= Size
  <2>1. Contents' = Contents
    BY <1>1 DEF netQPut, Contents
  <2> QED
    BY <1>1, <2>1, ContentsSeq DEF Fifo!Put, netQPut, Inv, TypeOK
<1>2. CASE ~(count >= Size)
  <2>1. /\ slots' = [slots EXCEPT ![put] = p] /\ count' = count + 1 /\ get' = get
        /\ answer' = TRUE
    BY <1>2 DEF netQPut
  <2>2. /\ Contents \in Seq(Cells) /\ Len(Contents) = count
        /\ \A i \in 1 .. count : Contents[i] = slots[(get + i - 1) % Size]
    BY ContentsSeq
  <2>3. /\ Contents' \in Seq(Cells) /\ Len(Contents') = count + 1
        /\ \A i \in 1 .. count + 1 : Contents'[i] = slots'[(get + i - 1) % Size]
    BY <2>1, ContentsSeqNext
  <2>4. Append(Contents, p) \in Seq(Cells) /\ Len(Append(Contents, p)) = count + 1
    BY <2>2 DEF Cells
  <2>5. ASSUME NEW i \in 1 .. count + 1 PROVE Append(Contents, p)[i] = Contents'[i]
    <3> DEFINE k == (get + i - 1) % Size
    <3>1. i - 1 \in 0 .. Size /\ get + i - 1 = get + (i - 1) /\ count \in 0 .. Size
      BY <1>2, <2>5 DEF Inv, TypeOK, Slots
    <3>2. k = IF get + (i - 1) < Size THEN get + (i - 1) ELSE get + (i - 1) - Size
      BY <3>1, Wrap DEF Inv, TypeOK
    <3>3. put = IF get + count < Size THEN get + count ELSE get + count - Size
      BY <3>1, Wrap DEF Inv, TypeOK, RingConsistent
    <3>4. CASE i = count + 1
      <4>1. k = put
        BY <3>2, <3>3, <3>4 DEF Inv, TypeOK, Slots
      <4>2. slots'[k] = p
        BY <2>1, <4>1 DEF Inv, TypeOK
      <4>3. Append(Contents, p)[i] = p
        BY <2>2, <3>4
      <4> QED
        BY <2>3, <4>2, <4>3
    <3>5. CASE i \in 1 .. count
      <4>1. k # put
        BY <1>2, <3>2, <3>3, <3>5 DEF Inv, TypeOK, Slots
      <4>2. slots'[k] = slots[k]
        BY <2>1, <4>1 DEF Inv, TypeOK
      <4>3. Append(Contents, p)[i] = Contents[i]
        BY <2>2, <3>5
      <4> QED
        BY <2>2, <2>3, <3>5, <4>2, <4>3
    <3>6. i = count + 1 \/ i \in 1 .. count
      BY <2>5, <3>1
    <3> QED
      BY <3>4, <3>5, <3>6
  <2>6. Contents' = Append(Contents, p)
    BY <2>3, <2>4, <2>5, SeqEqual
  <2> QED
    BY <1>2, <2>1, <2>2, <2>6 DEF Fifo!Put, Inv, TypeOK
<1> QED
  BY <1>1, <1>2

\* netQGet answers the oldest packet and removes it, or answers NULL.
LEMMA GetRefines ==
    ASSUME Inv, Inv', netQGet
    PROVE  Fifo!Get
<1> USE BufQueueAssumption
<1>1. /\ Contents \in Seq(Cells) /\ Len(Contents) = count
      /\ \A i \in 1 .. count : Contents[i] = slots[(get + i - 1) % Size]
  BY ContentsSeq
<1>2. CASE count = 0
  <2>1. Contents' = Contents
    BY <1>2 DEF netQGet, Contents
  <2>2. Contents = <<>>
    BY <1>1, <1>2, EmptySeq
  <2> QED
    BY <1>2, <2>1, <2>2 DEF Fifo!Get, netQGet
<1>3. CASE count # 0
  <2>1. /\ answer' = slots[get] /\ get' = (get + 1) % Size /\ count' = count - 1
        /\ slots' = slots
    BY <1>3 DEF netQGet
  <2>2. /\ Contents' \in Seq(Cells) /\ Len(Contents') = count - 1
        /\ \A i \in 1 .. count - 1 : Contents'[i] = slots[(((get + 1) % Size) + i - 1) % Size]
    BY <2>1, ContentsSeqNext
  <2>3. Contents # <<>>
    BY <1>1, <1>3, EmptySeq
  <2>4. /\ Tail(Contents) \in Seq(Cells) /\ Len(Tail(Contents)) = count - 1
        /\ \A i \in 1 .. count - 1 : Tail(Contents)[i] = Contents[i + 1]
    BY <1>1, <2>3, HeadTailProperties
  <2>5. ASSUME NEW i \in 1 .. count - 1 PROVE Tail(Contents)[i] = Contents'[i]
    <3> DEFINE g == (get + 1) % Size
    <3>1. /\ i - 1 \in 0 .. Size /\ i \in 0 .. Size /\ 1 \in 0 .. Size
          /\ get \in Slots /\ g \in Slots
      BY <2>5, Wrap DEF Inv, TypeOK, Slots
    <3>2. g = IF get + 1 < Size THEN get + 1 ELSE get + 1 - Size
      BY <3>1, Wrap
    <3>3. (g + (i - 1)) % Size = IF g + (i - 1) < Size THEN g + (i - 1) ELSE g + (i - 1) - Size
      BY <3>1, Wrap
    <3>4. (get + i) % Size = IF get + i < Size THEN get + i ELSE get + i - Size
      BY <3>1, Wrap
    <3>5. (g + (i - 1)) % Size = (get + i) % Size
      BY <3>1, <3>2, <3>3, <3>4 DEF Slots
    <3>6. g + (i - 1) = g + i - 1 /\ get + i = get + (i + 1) - 1 /\ i + 1 \in 1 .. count
      BY <2>5, <3>1 DEF Inv, TypeOK, Slots
    <3> QED
      BY <1>1, <2>2, <2>4, <3>5, <3>6
  <2>6. Contents' = Tail(Contents)
    BY <2>2, <2>4, <2>5, SeqEqual
  <2>7. Head(Contents) = slots[get]
    <3>1. (get + 0) % Size = get
      <4>1. get \in Slots
        BY DEF Inv, TypeOK
      <4> QED
        BY ONLY <4>1, BufQueueAssumption DEF Slots
    <3>2. 1 \in 1 .. count /\ get + 1 - 1 = get + 0
      BY <1>3 DEF Inv, TypeOK, Slots
    <3>3. Contents[1] = slots[get]
      BY <1>1, <3>1, <3>2
    <3> QED
      BY <1>1, <2>3, <3>3
  <2> QED
    BY <2>1, <2>3, <2>6, <2>7 DEF Fifo!Get
<1> QED
  BY <1>2, <1>3

\* Every step of the ring buffer is a step of the FIFO.
LEMMA StepRefines == Inv /\ Inv' /\ [Next]_vars => [Fifo!Next]_<<Contents, answer>>
<1> SUFFICES ASSUME Inv, Inv', [Next]_vars PROVE [Fifo!Next]_<<Contents, answer>>
  OBVIOUS
<1>1. ASSUME NEW p \in Packets, netQPut(p) PROVE Fifo!Next
  BY <1>1, PutRefines DEF Fifo!Next
<1>2. CASE netQGet
  BY <1>2, GetRefines DEF Fifo!Next
<1>3. CASE netQEmpty \/ netQInit
  <2>1. Len(Contents') = 0 /\ Contents' \in Seq(Cells)
    BY <1>3, ContentsSeqNext DEF netQEmpty, netQInit
  <2>2. Contents' = <<>>
    BY <2>1, EmptySeq
  <2> QED
    BY <1>3, <2>2 DEF Fifo!Next, Fifo!Clear, netQEmpty, netQInit
<1>4. CASE netQCheck
  <2>1. Contents' = Contents
    BY <1>4 DEF netQCheck, Contents
  <2>2. (count # 0) = (Contents # <<>>)
    BY ContentsSeq, EmptySeq DEF Inv, TypeOK
  <2> QED
    BY <1>4, <2>1, <2>2 DEF Fifo!Next, Fifo!Check, netQCheck
<1>5. CASE UNCHANGED vars
  BY <1>5 DEF vars, Contents
<1> QED
  BY <1>1, <1>2, <1>3, <1>4, <1>5 DEF Next

\* The ring buffer implements the bounded FIFO, whatever its size: packets come
\* out once, in the order they were put in, and netQCheck tells whether there
\* is one.
THEOREM BufQueueIsFifo == Spec => IsFifo
<1>1. Init => Fifo!Init
  <2>1. ASSUME Init PROVE Contents = <<>>
    BY <2>1 DEF Init, Contents
  <2> QED
    BY <2>1 DEF Init, Fifo!Init
<1> QED
  BY <1>1, InvCorrect, StepRefines, PTL DEF Spec, IsFifo, Fifo!Spec
=============================================================================
