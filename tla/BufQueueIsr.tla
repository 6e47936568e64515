----------------------------- MODULE BufQueueIsr -----------------------------
(***************************************************************************)
(* The same packet queue as the processor runs it: net.c takes no lock.    *)
(* The main loop calls netQGet (netRecv), netQEmpty (initClock) and        *)
(* netQInit (doInit); ETH_IRQHandler (priority 2) preempts it and calls    *)
(* netQPut; EXTI4_IRQHandler (priority 1) preempts both, and on link up    *)
(* calls netQEmpty through toState and initClock.  count-- and count++     *)
(* are a load and a store, netQInit is three stores, and an interrupt may  *)
(* come between them.                                                      *)
(***************************************************************************)
EXTENDS Integers, FiniteSets

CONSTANTS
    Packets,  \* the pbufs of the pool
    Null,     \* the NULL pointer
    Size,     \* PBUF_QUEUE_SIZE
    LinkIsr   \* whether the link comes up again while the clock runs

ASSUME BufQueueIsrAssumption ==
    /\ Size \in Nat \ {0}
    /\ Null \notin Packets
    /\ LinkIsr \in BOOLEAN

VARIABLES
    slots, get, put, count,  \* the BufQueue
    main,   \* what the main loop does next
    todo,   \* cnt of netQEmpty: calls of netQGet still to make
    ptr,    \* pbuf of the netQGet being executed
    reg,    \* the register that holds count in count--
    eth,    \* the register of count++, Idle outside netQPut
    live,   \* the pbufs allocated and not freed
    inside, \* the pbufs put in the queue and not got out of it
    lost,   \* whether an update of count was ever lost
    torn    \* whether a link interrupt came inside netQGet or netQPut, or inside
            \* netQInit with packets in the queue

queue == <<slots, get, put, count>>
vars == <<queue, main, todo, ptr, reg, eth, live, inside, lost, torn>>

Slots == 0 .. Size - 1

\* A bound: a count that went below zero is followed down to -Size only.
Floor == -Size

\* No count.
Idle == Floor - 1

Init ==
    /\ slots = [i \in Slots |-> Null]
    /\ get = 0 /\ put = 0 /\ count = 0
    /\ main = "idle" /\ todo = 0 /\ ptr = Null /\ reg = 0
    /\ eth = Idle
    /\ live = {} /\ inside = {} /\ lost = FALSE /\ torn = FALSE

-----------------------------------------------------------------------------
(* The main loop, between interrupts *)

Running(step) == eth = Idle /\ main = step

\* netRecv calls netQGet once, netQEmpty as often as count says.
Call ==
    /\ Running("idle") /\ count > Floor
    /\ \/ todo' = 1
       \/ todo' = count
    /\ todo' > 0
    /\ main' = "check"
    /\ UNCHANGED <<queue, ptr, reg, eth, live, inside, lost, torn>>

\* if (!pQ->count) return NULL; pbuf = pQ->pbuf[pQ->get];
Check ==
    /\ Running("check")
    /\ IF count = 0
       THEN /\ todo' = todo - 1
            /\ main' = IF todo' = 0 THEN "idle" ELSE "check"
            /\ UNCHANGED ptr
       ELSE /\ ptr' = slots[get]
            /\ main' = "advance"
            /\ UNCHANGED todo
    /\ UNCHANGED <<queue, reg, eth, live, inside, lost, torn>>

\* pQ->get = (pQ->get + 1) % PBUF_QUEUE_SIZE;
Advance ==
    /\ Running("advance")
    /\ get' = (get + 1) % Size
    /\ main' = "load"
    /\ UNCHANGED <<slots, put, count, todo, ptr, reg, eth, live, inside, lost, torn>>

\* pQ->count--, the load; the compiler may keep the value of the test instead,
\* which only widens the window.
Load ==
    /\ Running("load")
    /\ reg' = count
    /\ main' = "store"
    /\ UNCHANGED <<queue, todo, ptr, eth, live, inside, lost, torn>>

\* A bug for the mutation runs: the packet is not counted off.
StoreSame ==
    /\ Running("store")
    /\ count' = reg
    /\ lost' = (lost \/ count # reg)
    /\ inside' = inside \ {ptr}
    /\ main' = "use"
    /\ UNCHANGED <<slots, get, put, todo, ptr, reg, eth, live, torn>>

\* pQ->count--, the store.
Store ==
    /\ Running("store")
    /\ count' = reg - 1
    /\ lost' = (lost \/ count # reg)
    /\ inside' = inside \ {ptr}
    /\ main' = "use"
    /\ UNCHANGED <<slots, get, put, todo, ptr, reg, eth, live, torn>>

\* netRecv copies the packet and frees it, netQEmpty frees it; netRecv drops
\* a packet longer than PACKET_SIZE without freeing it.
Use ==
    /\ Running("use")
    /\ live' \in {live, live \ {ptr}}
    /\ ptr' = Null
    /\ reg' = 0
    /\ todo' = todo - 1
    /\ main' = IF todo' = 0 THEN "idle" ELSE "check"
    /\ UNCHANGED <<queue, eth, inside, lost, torn>>

\* netQInit is called between netShutdown and udp_recv, when no packet can
\* arrive; what is still in the queue is forgotten, not freed.
Initialising == main \in {"initPut", "initCount"}

\* pQ->get = 0;
netQInit ==
    /\ Running("idle")
    /\ get' = 0
    /\ main' = "initPut"
    /\ UNCHANGED <<slots, put, count, todo, ptr, reg, eth, live, inside, lost, torn>>

\* pQ->put = 0;
netQInitPut ==
    /\ Running("initPut")
    /\ put' = 0
    /\ main' = "initCount"
    /\ UNCHANGED <<slots, get, count, todo, ptr, reg, eth, live, inside, lost, torn>>

\* pQ->count = 0; get is 0 as well unless a link interrupt has moved it on.
netQInitCount ==
    /\ Running("initCount")
    /\ count' = 0
    /\ main' = "idle"
    /\ inside' = {}
    /\ lost' = FALSE /\ torn' = (get # 0)
    /\ UNCHANGED <<slots, get, put, todo, ptr, reg, eth, live>>

-----------------------------------------------------------------------------
(* ETH_IRQHandler *)

\* A bug: a full queue takes one packet more.
netQPutOneMore(p) ==
    /\ eth = Idle /\ ~Initialising /\ p \notin live
    /\ IF count > Size
       THEN UNCHANGED <<slots, put, eth, live, inside>>
       ELSE /\ slots' = [slots EXCEPT ![put] = p]
            /\ put' = (put + 1) % Size
            /\ eth' = count
            /\ live' = live \cup {p}
            /\ inside' = inside \cup {p}
    /\ UNCHANGED <<get, count, main, todo, ptr, reg, lost, torn>>

\* A packet is allocated; the callback frees it if the queue is full.
netQPut(p) ==
    /\ eth = Idle /\ ~Initialising /\ p \notin live
    /\ count < Size
    /\ slots' = [slots EXCEPT ![put] = p]
    /\ put' = (put + 1) % Size
    /\ eth' = count
    /\ live' = live \cup {p}
    /\ inside' = inside \cup {p}
    /\ UNCHANGED <<get, count, main, todo, ptr, reg, lost, torn>>

\* pQ->count++, the store, and the return from the interrupt.
netQPutEnd ==
    /\ eth # Idle
    /\ count' = eth + 1
    /\ lost' = (lost \/ count # eth)
    /\ eth' = Idle
    /\ UNCHANGED <<slots, get, put, main, todo, ptr, reg, live, inside, torn>>

-----------------------------------------------------------------------------
(* EXTI4_IRQHandler *)

\* Where netQGet, netQPut or netQInit has touched one field of the queue and not
\* yet all.
Halfway == main \in {"advance", "load", "store"} \/ Initialising \/ eth # Idle

\* A bug: the interrupt frees what netQGet has just taken.
netQEmptyAgain ==
    /\ LinkIsr /\ count >= 0
    /\ LET gone == {slots[(get + i) % Size] : i \in 0 .. count} IN
          /\ live' = live \ gone
          /\ inside' = inside \ gone
    /\ get' = (get + count) % Size
    /\ count' = 0
    /\ torn' = (torn \/ Halfway)
    /\ UNCHANGED <<slots, put, main, todo, ptr, reg, eth, lost>>

\* netQEmpty, without interruption.
netQEmpty ==
    /\ LinkIsr /\ count > 0
    /\ LET gone == {slots[(get + i) % Size] : i \in 0 .. count - 1} IN
          /\ live' = live \ gone
          /\ inside' = inside \ gone
    /\ get' = (get + count) % Size
    /\ count' = 0
    /\ torn' = (torn \/ Halfway)
    /\ UNCHANGED <<slots, put, main, todo, ptr, reg, eth, lost>>

-----------------------------------------------------------------------------
MainLoop == \/ Call \/ Check \/ Advance \/ Load \/ Store \/ Use
            \/ netQInit \/ netQInitPut \/ netQInitCount

Interrupts == (\E p \in Packets : netQPut(p)) \/ netQPutEnd \/ netQEmpty

Next == MainLoop \/ Interrupts

Spec == Init /\ [][Next]_vars

-----------------------------------------------------------------------------
\* Lost updates never take the indices or the count past the size of the ring,
\* and it takes a link interrupt inside a call to take the count below 0.
TypeOK ==
    /\ slots \in [Slots -> Packets \cup {Null}]
    /\ get \in Slots /\ put \in Slots /\ count \in Floor .. Size
    /\ ~torn => count >= 0
    /\ main \in {"idle", "check", "advance", "load", "store", "use", "initPut", "initCount"}
    /\ todo \in 0 .. Size
    /\ ptr \in Packets \cup {Null}
    /\ reg \in Floor .. Size
    /\ eth \in Idle .. Size
    /\ live \subseteq Packets /\ inside \subseteq Packets
    /\ lost \in BOOLEAN /\ torn \in BOOLEAN

\* The packet that netRecv copies and frees, or netQEmpty frees, is an
\* allocated one: "Here, p points to a valid PBUF structure".
UsesLivePacket == main = "use" => ptr \in live

\* The queue loses nothing, counts right and hands out live packets only as
\* long as no packet arrives between the load and the store of count-- and the
\* link does not come up inside netQGet, netQPut or netQInit: of all the
\* interleavings of netQGet, netQEmpty, netQInit, netQPut and the link interrupt
\* only these do harm.
OnlyTheseWindowsHarm ==
    ~lost /\ ~torn => /\ UsesLivePacket
                      /\ Running("idle") => /\ count = Cardinality(inside)
                                            /\ put = (get + count) % Size

\* However many updates of count are lost, the count never exceeds the packets
\* put and not got, unless a link interrupt came inside one of the calls:
\* ptpd_Periodic_Handle, which runs doState until both counts are 0, does not
\* spin on an empty queue.
CountNeverOverstates == ~torn /\ Running("idle") => count <= Cardinality(inside)

=============================================================================
