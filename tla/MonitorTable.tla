---------------------------- MODULE MonitorTable ----------------------------
(***************************************************************************)
(* The table of the slaves a master hears of, ptp_unpack_control in        *)
(* ptpd-2.0.0/src/protocol.c: each management message carries the offset   *)
(* and the address of its sender.  A new address takes a free entry or, if *)
(* there is none, the entry a static count points at.  The count runs one  *)
(* past the last entry before it is set back, and clearing the table       *)
(* leaves it alone.                                                        *)
(***************************************************************************)
EXTENDS Integers, FiniteSets

CONSTANTS
    TableSize,  \* ptpMonitorlConstant
    Slaves,     \* addresses of the clocks that report
    Unset,      \* the address of an interface without one, and of a free entry
    Offsets     \* the offsets they report

ASSUME MonitorAssumption ==
    /\ TableSize \in Nat \ {0}
    /\ IsFiniteSet(Slaves)
    /\ Unset \notin Slaves

VARIABLES
    ptpMonitorl,  \* the table
    cnt,          \* its static count
    reports,      \* history: the last report of each clock since the table was cleared
    outside       \* history: since then the memory behind the table was written

monitor == <<ptpMonitorl, cnt, reports, outside>>

-----------------------------------------------------------------------------
Entries == 0 .. TableSize - 1

Reports == [ipaddr : Slaves \cup {Unset}, Offset : Offsets]

Zero == [ipaddr |-> Unset]

MonitorInit ==
    /\ ptpMonitorl = [e \in Entries |-> Zero]
    /\ cnt = 0
    /\ reports = {}
    /\ outside = FALSE

First(entries) == CHOOSE e \in entries : \A f \in entries : e <= f

\* A bug: an entry other than the first is looked for.
HoldingNext(ip) == {e \in Entries : e > 0 /\ ptpMonitorl[e].ipaddr = ip}

Holding(ip) == {e \in Entries : ptpMonitorl[e].ipaddr = ip}

Remembered(r) == {s \in reports : s.ipaddr # r.ipaddr} \cup {r}

-----------------------------------------------------------------------------
\* The entry of the address, or else the first free one.  A report of a clock
\* without an address finds the first free entry in the first loop.
Enter(r) ==
    \E found \in {Holding(r.ipaddr), Holding(Unset)} \ {{}} :
        /\ Holding(r.ipaddr) \in {found, {}}
        /\ ptpMonitorl' = [ptpMonitorl EXCEPT ![First(found)] = r]
        /\ reports' = Remembered(r)
        /\ UNCHANGED <<cnt, outside>>

\* A bug: the entry is replaced while there are free ones.
ReplaceEarly(r) ==
    /\ Holding(r.ipaddr) = {}
    /\ ptpMonitorl' = [e \in Entries |-> IF e = cnt THEN r ELSE ptpMonitorl[e]]
    /\ outside' = (outside \/ cnt \notin Entries)
    /\ cnt' = IF cnt + 1 > TableSize THEN 0 ELSE cnt + 1
    /\ reports' = Remembered(r)

\* The entry at the count, which may be the one behind the last.
Replace(r) ==
    /\ Holding(r.ipaddr) = {} /\ Holding(Unset) = {}
    /\ ptpMonitorl' = [e \in Entries |-> IF e = cnt THEN r ELSE ptpMonitorl[e]]
    /\ outside' = (outside \/ cnt \notin Entries)
    /\ cnt' = IF cnt + 1 > TableSize THEN 0 ELSE cnt + 1
    /\ reports' = Remembered(r)

ptp_unpack_control(r) == Enter(r) \/ Replace(r)

\* A bug: only the first entry is cleared.
ClearTableFirst ==
    /\ ptpMonitorl' = [ptpMonitorl EXCEPT ![0] = Zero]
    /\ reports' = {} /\ outside' = FALSE
    /\ UNCHANGED cnt

\* memset of the table by the commands that set the role.
ClearTable ==
    /\ ptpMonitorl' = [e \in Entries |-> Zero]
    /\ reports' = {} /\ outside' = FALSE
    /\ UNCHANGED cnt

-----------------------------------------------------------------------------
(* What is claimed of the table *)

MonitorTypeOK ==
    /\ ptpMonitorl \in [Entries -> Reports \cup {Zero}]
    /\ cnt \in 0 .. TableSize
    /\ reports \subseteq Reports
    /\ outside \in BOOLEAN

\* No clock has two entries, and an entry shows the last report of its clock
\* since the role was set: nothing older, whatever was replaced in between.
EntriesAreLastReports ==
    \A e \in Entries :
        /\ ptpMonitorl[e] # Zero /\ ptpMonitorl[e].ipaddr # Unset =>
               ptpMonitorl[e] \in reports
        /\ \A f \in Entries \ {e} :
               ptpMonitorl[e].ipaddr = ptpMonitorl[f].ipaddr =>
                   ptpMonitorl[e].ipaddr = Unset

\* The memory behind the table is written only if more clocks reported since
\* the role was set than the table has entries.
OutsideNeedsOneTooMany ==
    outside => Cardinality({r.ipaddr : r \in reports}) > TableSize
=============================================================================
