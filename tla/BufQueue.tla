------------------------------ MODULE BufQueue ------------------------------
(***************************************************************************)
(* The ring buffer between the Ethernet interrupt and handle(): BufQueue   *)
(* of ptpd-2.0.0/src/dep/net.c, one for event and one for general          *)
(* messages.  Here every call runs to its end before the next begins; what *)
(* the interrupts do to it is the subject of BufQueueIsr.                  *)
(***************************************************************************)
EXTENDS Naturals, Sequences

CONSTANTS
    Packets,  \* the pbufs
    Null,     \* the NULL pointer
    Size      \* PBUF_QUEUE_SIZE

ASSUME BufQueueAssumption == Size \in Nat \ {0} /\ Null \notin Packets

VARIABLES
    slots,     \* pQ->pbuf
    get, put,  \* pQ->get, pQ->put
    count,     \* pQ->count
    answer     \* what the last call returned

vars == <<slots, get, put, count, answer>>

Slots == 0 .. Size - 1

Init ==
    /\ slots = [i \in Slots |-> Null]
    /\ get = 0 /\ put = 0 /\ count = 0
    /\ answer = Null

\* A bug for the mutation runs: a full queue takes one packet more.
netQPutOneMore(p) ==
    IF count > Size
    THEN answer' = FALSE /\ UNCHANGED <<slots, get, put, count>>
    ELSE /\ slots' = [slots EXCEPT ![put] = p]
         /\ put' = (put + 1) % Size
         /\ count' = count + 1
         /\ answer' = TRUE
         /\ UNCHANGED get

\* The caller frees the packet that is refused.
netQPut(p) ==
    IF count >= Size
    THEN answer' = FALSE /\ UNCHANGED <<slots, get, put, count>>
    ELSE /\ slots' = [slots EXCEPT ![put] = p]
         /\ put' = (put + 1) % Size
         /\ count' = count + 1
         /\ answer' = TRUE
         /\ UNCHANGED get

netQGet ==
    /\ IF count = 0
       THEN answer' = Null /\ UNCHANGED <<get, count>>
       ELSE /\ answer' = slots[get]
            /\ get' = (get + 1) % Size
            /\ count' = count - 1
    /\ UNCHANGED <<slots, put>>

\* netQGet and pbuf_free, count times.
netQEmpty ==
    /\ get' = (get + count) % Size
    /\ count' = 0
    /\ answer' = Null
    /\ UNCHANGED <<slots, put>>

\* A bug: only the count is reset.
netQInitCountOnly ==
    /\ count' = 0
    /\ put' = 0
    /\ answer' = Null
    /\ UNCHANGED <<slots, get>>

\* netQInit of a second netInit: the pointers stay in the array.
netQInit ==
    /\ get' = 0 /\ put' = 0 /\ count' = 0
    /\ answer' = Null
    /\ UNCHANGED slots

netQCheck ==
    /\ answer' = (count # 0)
    /\ UNCHANGED <<slots, get, put, count>>

Next == \/ \E p \in Packets : netQPut(p)
        \/ netQGet \/ netQEmpty \/ netQInit \/ netQCheck

Spec == Init /\ [][Next]_vars

-----------------------------------------------------------------------------
\* The indices and the count stay in the ring.
TypeOK ==
    /\ slots \in [Slots -> Packets \cup {Null}]
    /\ get \in Slots /\ put \in Slots /\ count \in 0 .. Size
    /\ answer \in Packets \cup {Null} \cup BOOLEAN

\* The three redundant fields of the struct agree: the count is the distance
\* from get to put, so that netQGet and netQPut meet only when it is empty or
\* full.
RingConsistent == put = (get + count) % Size

\* The packets between get and put, oldest first.
Contents == [i \in 1 .. count |-> slots[(get + i - 1) % Size]]

Fifo == INSTANCE PacketFifo WITH fifo <- Contents, Capacity <- Size

\* The ring buffer is a bounded FIFO: what it answers is what a queue would
\* answer, packets come out once and in the order they were put in.
IsFifo == Fifo!Spec

=============================================================================
