----------------------------- MODULE PacketFifo -----------------------------
(***************************************************************************)
(* What the packet queue of ptpd-2.0.0/src/dep/net.c promises: a bounded   *)
(* FIFO that refuses a packet when it is full, and an answer to each call. *)
(***************************************************************************)
EXTENDS Naturals, Sequences

CONSTANTS Packets, Null, Capacity

VARIABLES fifo, answer

Init == fifo = <<>> /\ answer = Null

Put(p) ==
    IF Len(fifo) < Capacity
    THEN fifo' = Append(fifo, p) /\ answer' = TRUE
    ELSE fifo' = fifo /\ answer' = FALSE

Get ==
    IF fifo = <<>>
    THEN fifo' = fifo /\ answer' = Null
    ELSE fifo' = Tail(fifo) /\ answer' = Head(fifo)

\* Nothing is left, whether the packets were freed or forgotten.
Clear == fifo' = <<>> /\ answer' = Null

Check == fifo' = fifo /\ answer' = (fifo # <<>>)

Next == (\E p \in Packets : Put(p)) \/ Get \/ Clear \/ Check

Spec == Init /\ [][Next]_<<fifo, answer>>
=============================================================================
