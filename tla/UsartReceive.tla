---------------------------- MODULE UsartReceive ----------------------------
(***************************************************************************)
(* Reception of a line on a serial port, src/USER/usart/usart.c: the       *)
(* receive interrupt fills STUsart.buff, and receive_str_manage, polled    *)
(* by USART_CallBack, hands the bytes over once none arrived between two   *)
(* polls.  The three ports in use run the same code on variables of their  *)
(* own; this is one of them.                                               *)
(*                                                                         *)
(* A byte is the place it was sent at in its line, and NUL is an empty     *)
(* cell.  The hand-over is cut where the interrupt can change what it does *)
(* next: it copies the cells, reads the count again, resets the count and  *)
(* then clears the cells.                                                  *)
(***************************************************************************)
EXTENDS Integers, Sequences

CONSTANTS
    ReceiveMax,  \* USART_RECEIVE_MAX
    StateMod     \* usart_state is below this (2^8)

ASSUME UsartAssumption ==
    /\ ReceiveMax \in Nat \ {0}
    /\ StateMod \in Nat /\ StateMod > 1

VARIABLES
    cells,          \* STUsart.buff
    receive_count,  \* STUsart.receive_count
    usart_tmp,      \* the count of the last poll that saw it change
    usart_state,    \* how many polls saw it change
    at,             \* where receive_str_manage is
    line,           \* its local buff, as copied
    len,            \* its local len
    sent,           \* history: bytes sent since the last line was copied
    due,            \* history: sent when it was copied
    forgotten,      \* history: usart_state has wrapped around to 0
    touched,        \* history: steps of this hand-over a byte came right after
    holed           \* history: the same of the hand-over before

history == <<sent, due, forgotten, touched, holed>>
usart == <<cells, receive_count, usart_tmp, usart_state, at, line, len, history>>

-----------------------------------------------------------------------------
NUL == 0

Cells == 0 .. ReceiveMax - 1

\* Places are told apart up to the first that overran the cells.
Places == 1 .. ReceiveMax

Steps == {"copied", "measured", "reset"}

Empty == [c \in Cells |-> NUL]

UsartInit ==
    /\ cells = Empty
    /\ receive_count = 0
    /\ usart_tmp = 0 /\ usart_state = 0
    /\ at = "idle"
    /\ line = <<>> /\ len = 0
    /\ sent = 0 /\ due = 0
    /\ forgotten = FALSE
    /\ touched = {} /\ holed = {}

-----------------------------------------------------------------------------
NextPlace == IF sent < ReceiveMax THEN sent + 1 ELSE sent

\* A bug: the count is compared before it is advanced.
ReceiveByteLate ==
    /\ cells' = [cells EXCEPT ![receive_count] = NextPlace]
    /\ receive_count' = IF receive_count >= ReceiveMax THEN 0 ELSE receive_count + 1
    /\ sent' = NextPlace
    /\ touched' = IF at \in Steps THEN touched \cup {at} ELSE touched
    /\ UNCHANGED <<usart_tmp, usart_state, at, line, len, due,
                   forgotten, holed>>

\* The receive interrupt.
ReceiveByte ==
    /\ cells' = [cells EXCEPT ![receive_count] = NextPlace]
    /\ receive_count' = (receive_count + 1) % ReceiveMax
    /\ sent' = NextPlace
    /\ touched' = IF at \in Steps THEN touched \cup {at} ELSE touched
    /\ UNCHANGED <<usart_tmp, usart_state, at, line, len, due,
                   forgotten, holed>>

\* A poll that sees the count changed.
Poll ==
    /\ at = "idle"
    /\ receive_count # usart_tmp
    /\ usart_tmp' = receive_count
    /\ usart_state' = (usart_state + 1) % StateMod
    /\ forgotten' = (forgotten \/ usart_state' = 0)
    /\ UNCHANGED <<cells, receive_count, at, line, len, sent, due,
                   touched, holed>>

\* A poll that sees it unchanged, after one that did not.
PollQuiet ==
    /\ at = "idle"
    /\ receive_count = usart_tmp
    /\ usart_state > 0
    /\ at' = "quiet"
    /\ UNCHANGED <<cells, receive_count, usart_tmp, usart_state, line, len,
                   history>>

\* mystrncpy of receive_count bytes.
Copy ==
    /\ at = "quiet"
    /\ line' = [i \in 1 .. receive_count |-> cells[i - 1]]
    /\ due' = sent /\ sent' = 0
    /\ at' = "copied"
    /\ UNCHANGED <<cells, receive_count, usart_tmp, usart_state, len, forgotten,
                   touched, holed>>

Measure ==
    /\ at = "copied"
    /\ len' = receive_count
    /\ at' = "measured"
    /\ UNCHANGED <<cells, receive_count, usart_tmp, usart_state, line, history>>

\* A bug: the count is not reset.
ResetCountNot ==
    /\ at = "measured"
    /\ at' = "reset"
    /\ UNCHANGED <<cells, receive_count, usart_tmp, usart_state, line, len, history>>

ResetCount ==
    /\ at = "measured"
    /\ receive_count' = 0
    /\ at' = "reset"
    /\ UNCHANGED <<cells, usart_tmp, usart_state, line, len, history>>

\* A bug: the count of the last poll is kept.
HandOverKeepsTmp ==
    /\ at = "reset"
    /\ cells' = Empty
    /\ usart_state' = 0
    /\ at' = "idle"
    /\ line' = <<>> /\ len' = 0
    /\ due' = 0
    /\ forgotten' = FALSE
    /\ touched' = {} /\ holed' = touched
    /\ UNCHANGED <<receive_count, usart_tmp, sent>>

\* The cells are cleared and the callback is called with line and len.  A byte
\* that came after the reset of the count stays counted.
HandOver ==
    /\ at = "reset"
    /\ cells' = Empty
    /\ usart_tmp' = 0
    /\ usart_state' = 0
    /\ at' = "idle"
    /\ line' = <<>> /\ len' = 0
    /\ due' = 0
    /\ forgotten' = FALSE
    /\ touched' = {} /\ holed' = touched
    /\ UNCHANGED <<receive_count, sent>>

-----------------------------------------------------------------------------
(* What is claimed of the lines handed over *)

UsartTypeOK ==
    /\ cells \in [Cells -> Places \cup {NUL}]
    /\ receive_count \in Cells
    /\ usart_tmp \in Cells
    /\ usart_state \in 0 .. StateMod - 1
    /\ at \in Steps \cup {"idle", "quiet"}
    /\ DOMAIN line = 1 .. Len(line) /\ Len(line) < ReceiveMax
    /\ \A i \in DOMAIN line : line[i] \in Places \cup {NUL}
    /\ len \in Cells
    /\ sent \in {0} \cup Places /\ due \in {0} \cup Places
    /\ forgotten \in BOOLEAN
    /\ touched \subseteq Steps /\ holed \subseteq Steps

\* A line that fits is handed over as it was sent.  Only bytes that came during
\* the hand-over before are missing, always from its beginning; one that came
\* between the reset of the count and the clearing of the cells leaves a NUL
\* there, so that the line looks empty.  The length exceeds the copy only by
\* bytes that came between the two.
LineAsSent ==
    at \in Steps /\ due < ReceiveMax =>
        /\ holed = {} => line = [i \in 1 .. due |-> i]
        /\ "reset" \notin holed =>
               \E k \in 0 .. due : line = [i \in 1 .. due - k |-> k + i]
        /\ "reset" \in holed => line[1] = NUL
        /\ at # "copied" /\ "copied" \notin touched => len = Len(line)

\* A poll that sees no byte come leaves bytes in the cells only if usart_state
\* wrapped around to 0 while they came, or receive_count did, before any poll
\* saw it change: as many bytes came as there are cells.
NothingLeftBehind ==
    at = "idle" /\ receive_count = usart_tmp /\ usart_state = 0 =>
        cells = Empty \/ forgotten \/ sent = ReceiveMax
=============================================================================
