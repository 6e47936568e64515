------------------------------ MODULE Console -------------------------------
(***************************************************************************)
(* A serial port and the monitor table in the superloop: the lines that    *)
(* receive_str_manage hands over may set the role of the clock, which      *)
(* clears the table; between its calls a master handles the reports of its *)
(* slaves.                                                                 *)
(***************************************************************************)
EXTENDS UsartReceive, MonitorTable

VARIABLE PTP_MODE  \* TS_FDS.PTP_MODE

vars == <<usart, monitor, PTP_MODE>>

-----------------------------------------------------------------------------
Modes == {"emPTPMaster", "emPTPSlave"}

Init == UsartInit /\ MonitorInit /\ PTP_MODE = "emPTPSlave"

\* What the handler finds in a line.  strstr sees nothing behind a NUL.
Commands == IF line = <<>> \/ line[1] = NUL THEN {} ELSE Modes

\* "E1 Master", "E1 Slave".
SetRole(mode) ==
    /\ HandOver
    /\ mode \in Commands
    /\ PTP_MODE' = mode
    /\ ClearTable

\* A line that does neither.
OtherLine == HandOver /\ UNCHANGED <<monitor, PTP_MODE>>

Receiving ==
    /\ \/ Poll \/ PollQuiet \/ Copy \/ Measure \/ ResetCount
    /\ UNCHANGED <<monitor, PTP_MODE>>

USART_CallBack ==
    \/ Receiving
    \/ \E mode \in Modes : SetRole(mode)
    \/ OtherLine

Interrupt == ReceiveByte /\ UNCHANGED <<monitor, PTP_MODE>>

\* handleManagement: only a clock that may be a master gets to the table.
HandleManagement(r) ==
    /\ at = "idle"
    /\ PTP_MODE = "emPTPMaster"
    /\ ptp_unpack_control(r)
    /\ UNCHANGED <<usart, PTP_MODE>>

Next ==
    \/ Interrupt
    \/ USART_CallBack
    \/ \E r \in Reports : HandleManagement(r)

Spec == Init /\ [][Next]_vars

-----------------------------------------------------------------------------
TypeOK ==
    /\ UsartTypeOK
    /\ MonitorTypeOK
    /\ PTP_MODE \in Modes
=============================================================================
