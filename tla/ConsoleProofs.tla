---------------------------- MODULE ConsoleProofs ---------------------------
(***************************************************************************)
(* The properties of the serial port and of the monitor table, for lines   *)
(* and tables of any size, any clocks and any offsets.                     *)
(***************************************************************************)
EXTENDS Console, FiniteSetTheorems, FunctionTheorems, NaturalsInduction,
        WellFoundedInduction, SequenceTheorems, TLAPS

-----------------------------------------------------------------------------
(* The first of some entries *)

\* Every non-empty set of numbers has a least one.
LEMMA LeastNumber ==
    ASSUME NEW T \in SUBSET Nat, T # {}
    PROVE  \E n \in T : \A k \in T : n <= k
<1>1. PICK n \in T : \A k \in T : ~ (<<k, n>> \in OpToRel(<, Nat))
  BY NatLessThanWellFounded, WFMin, Zenon
<1>2. \A k \in T : ~ (k < n)
  BY <1>1 DEF OpToRel
<1> QED
  BY <1>2

LEMMA FirstIn ==
    ASSUME NEW S \in SUBSET Entries, S # {}
    PROVE  First(S) \in S
<1>1. S \subseteq Nat
  BY MonitorAssumption DEF Entries
<1>2. \E n \in S : \A k \in S : n <= k
  BY <1>1, LeastNumber
<1> QED
  BY <1>2 DEF First

-----------------------------------------------------------------------------
(* The monitor table *)

\* Every clock with an entry is among those that reported.
TableInv == MonitorTypeOK /\ EntriesAreLastReports /\ OutsideNeedsOneTooMany

Addresses == {r.ipaddr : r \in reports}

LEMMA ZeroUnset == Zero.ipaddr = Unset
  BY DEF Zero

LEMMA ReportFields ==
    ASSUME NEW r \in Reports
    PROVE  r.ipaddr \in Slaves \cup {Unset}
  BY DEF Reports

LEMMA TableInit == MonitorInit => TableInv
<1> SUFFICES ASSUME MonitorInit PROVE TableInv
  OBVIOUS
<1>1. MonitorTypeOK
  <2>1. ptpMonitorl \in [Entries -> Reports \cup {Zero}]
    BY Zenon DEF MonitorInit
  <2>2. cnt \in 0 .. TableSize
    BY MonitorAssumption DEF MonitorInit
  <2> QED
    BY <2>1, <2>2 DEF MonitorInit, MonitorTypeOK
<1>2. EntriesAreLastReports
  BY ZeroUnset DEF MonitorInit, EntriesAreLastReports
<1> QED
  BY <1>1, <1>2 DEF TableInv, OutsideNeedsOneTooMany, MonitorInit

\* What is remembered of a new report.
LEMMA RememberedReports ==
    ASSUME MonitorTypeOK, NEW r \in Reports, reports' = Remembered(r)
    PROVE  /\ reports' \subseteq Reports
           /\ r \in reports'
           /\ \A s \in reports : s.ipaddr # r.ipaddr => s \in reports'
           /\ Addresses' = Addresses \cup {r.ipaddr}
  BY DEF Remembered, MonitorTypeOK, Addresses

\* The clocks that reported are finitely many.
LEMMA FiniteAddresses ==
    ASSUME MonitorTypeOK
    PROVE  IsFiniteSet(Addresses)
<1>1. IsFiniteSet(Slaves \cup {Unset})
  BY MonitorAssumption, FS_AddElement
<1>2. Addresses \in SUBSET (Slaves \cup {Unset})
  BY ReportFields DEF Addresses, MonitorTypeOK
<1> QED
  BY <1>1, <1>2, FS_Subset

\* A new report only adds an address.
LEMMA AddressesGrow ==
    ASSUME MonitorTypeOK, NEW r \in Reports, reports' = Remembered(r)
    PROVE  Cardinality(Addresses') >= Cardinality(Addresses)
<1>1. Addresses' = Addresses \cup {r.ipaddr}
  BY RememberedReports
<1>2. IsFiniteSet(Addresses)
  BY FiniteAddresses
<1>3. Cardinality(Addresses) \in Nat
  BY <1>2, FS_CardinalityType
<1>4. \/ Cardinality(Addresses \cup {r.ipaddr}) = Cardinality(Addresses)
      \/ Cardinality(Addresses \cup {r.ipaddr}) = Cardinality(Addresses) + 1
  BY <1>2, FS_AddElement, Zenon
<1>5. Cardinality(Addresses \cup {r.ipaddr}) >= Cardinality(Addresses)
  BY <1>3, <1>4
<1> QED
  BY <1>1, <1>5

\* A full table without the address a: with a, more clocks have reported than
\* the table has entries.
LEMMA FullTable ==
    ASSUME TableInv, Holding(Unset) = {}, NEW a, Holding(a) = {}
    PROVE  Cardinality(Addresses \cup {a}) > TableSize
<1> DEFINE A == Addresses \cup {a}
           f == [e \in Entries |-> ptpMonitorl[e].ipaddr]
<1>1. \A e \in Entries : /\ ptpMonitorl[e].ipaddr # Unset /\ ptpMonitorl[e].ipaddr # a
                         /\ ptpMonitorl[e] \in reports
  BY ZeroUnset DEF Holding, TableInv, EntriesAreLastReports
<1>2. f \in [Entries -> A \ {a}]
  BY <1>1 DEF Addresses
<1>3. \A e, g \in Entries : f[e] = f[g] => e = g
  BY <1>1 DEF TableInv, EntriesAreLastReports
<1>4. f \in Injection(Entries, A \ {a})
  BY <1>2, <1>3 DEF Injection, IsInjective
<1>5. IsFiniteSet(A)
  BY FiniteAddresses, FS_AddElement DEF TableInv
<1>6. Cardinality(Entries) = TableSize
  BY MonitorAssumption, FS_Interval DEF Entries
<1>7. a \in A
  OBVIOUS
<1> HIDE DEF f, A
<1>8. /\ IsFiniteSet(A \ {a}) /\ Cardinality(A) \in Nat
      /\ Cardinality(A \ {a}) = Cardinality(A) - 1
  BY <1>5, <1>7, FS_RemoveElement, FS_CardinalityType
<1>9. Cardinality(Entries) <= Cardinality(A \ {a})
  BY <1>4, <1>8, FS_Injection
<1>10. TableSize < Cardinality(A)
  BY <1>6, <1>8, <1>9, MonitorAssumption
<1> QED
  BY <1>10 DEF A

LEMMA EnterInv ==
    ASSUME TableInv, NEW r \in Reports, Enter(r)
    PROVE  TableInv'
<1>1. PICK found \in {Holding(r.ipaddr), Holding(Unset)} \ {{}} :
          /\ Holding(r.ipaddr) \in {found, {}}
          /\ ptpMonitorl' = [ptpMonitorl EXCEPT ![First(found)] = r]
  BY DEF Enter
<1>2. reports' = Remembered(r) /\ cnt' = cnt /\ outside' = outside
  BY DEF Enter
<1> DEFINE e == First(found)
<1>3. e \in found /\ e \in Entries
  BY <1>1, FirstIn DEF Holding
<1> HIDE DEF e
<1>4. ptpMonitorl' = [ptpMonitorl EXCEPT ![e] = r]
  BY <1>1 DEF e
<1>5. /\ r \in reports' /\ reports' \subseteq Reports
      /\ \A s \in reports : s.ipaddr # r.ipaddr => s \in reports'
  BY <1>2, RememberedReports DEF TableInv
<1>6. MonitorTypeOK'
  BY <1>2, <1>3, <1>4, <1>5 DEF TableInv, MonitorTypeOK
<1>7. \A g \in Entries \ {e} :
          ptpMonitorl[g].ipaddr = r.ipaddr => r.ipaddr = Unset
  <2> SUFFICES ASSUME NEW g \in Entries \ {e}, ptpMonitorl[g].ipaddr = r.ipaddr
               PROVE  r.ipaddr = Unset
    OBVIOUS
  <2>1. g \in Holding(r.ipaddr)
    BY DEF Holding
  <2>2. found = Holding(r.ipaddr)
    BY <1>1, <2>1
  <2> QED
    BY <1>3, <2>2 DEF Holding, TableInv, EntriesAreLastReports
<1>8. EntriesAreLastReports'
  <2>1. \A g \in Entries : ptpMonitorl'[g] = IF g = e THEN r ELSE ptpMonitorl[g]
    BY <1>4 DEF TableInv, MonitorTypeOK
  <2>2. \A g \in Entries : ptpMonitorl'[g].ipaddr # Unset => ptpMonitorl'[g] \in reports'
    BY <1>5, <1>7, <2>1, ZeroUnset DEF TableInv, EntriesAreLastReports
  <2>3. ASSUME NEW g \in Entries, NEW h \in Entries \ {g},
               ptpMonitorl'[g].ipaddr = ptpMonitorl'[h].ipaddr
        PROVE  ptpMonitorl'[g].ipaddr = Unset
    BY <1>7, <2>1, <2>3 DEF TableInv, EntriesAreLastReports
  <2> QED
    BY <2>2, <2>3 DEF EntriesAreLastReports
<1>9. OutsideNeedsOneTooMany'
  <2>1. Cardinality(Addresses') >= Cardinality(Addresses)
    BY <1>2, AddressesGrow DEF TableInv
  <2>2. Cardinality(Addresses) \in Nat /\ Cardinality(Addresses') \in Nat /\ TableSize \in Nat
    BY <1>6, FiniteAddresses, FS_CardinalityType, MonitorAssumption,
       RememberedReports, <1>2, FS_AddElement DEF TableInv
  <2> QED
    BY <1>2, <2>1, <2>2 DEF TableInv, OutsideNeedsOneTooMany, Addresses
<1> QED
  BY <1>6, <1>8, <1>9 DEF TableInv

LEMMA ReplaceInv ==
    ASSUME TableInv, NEW r \in Reports, Replace(r)
    PROVE  TableInv'
<1>1. /\ Holding(r.ipaddr) = {} /\ Holding(Unset) = {}
      /\ ptpMonitorl' = [e \in Entries |-> IF e = cnt THEN r ELSE ptpMonitorl[e]]
      /\ outside' = (outside \/ cnt \notin Entries)
      /\ cnt' = IF cnt + 1 > TableSize THEN 0 ELSE cnt + 1
      /\ reports' = Remembered(r)
  BY DEF Replace
<1>2. /\ r \in reports' /\ reports' \subseteq Reports
      /\ \A s \in reports : s.ipaddr # r.ipaddr => s \in reports'
      /\ Addresses' = Addresses \cup {r.ipaddr}
  BY <1>1, RememberedReports DEF TableInv
<1>3. cnt' \in 0 .. TableSize
  BY <1>1, MonitorAssumption DEF TableInv, MonitorTypeOK
<1>4. MonitorTypeOK'
  BY <1>1, <1>2, <1>3 DEF TableInv, MonitorTypeOK
<1>5. \A e \in Entries : ptpMonitorl[e].ipaddr # Unset /\ ptpMonitorl[e].ipaddr # r.ipaddr
  BY <1>1 DEF Holding
<1>6. EntriesAreLastReports'
  BY <1>1, <1>2, <1>5, ZeroUnset DEF TableInv, EntriesAreLastReports
<1>7. OutsideNeedsOneTooMany'
  <2>1. Cardinality(Addresses') > TableSize
    BY <1>1, <1>2, FullTable
  <2> QED
    BY <2>1 DEF OutsideNeedsOneTooMany, Addresses
<1> QED
  BY <1>4, <1>6, <1>7 DEF TableInv

LEMMA ClearInv == TableInv /\ ClearTable => TableInv'
<1> SUFFICES ASSUME TableInv, ClearTable PROVE TableInv'
  OBVIOUS
<1>1. MonitorTypeOK'
  <2>1. ptpMonitorl' \in [Entries -> Reports \cup {Zero}]
    BY Zenon DEF ClearTable
  <2> QED
    BY <2>1 DEF ClearTable, TableInv, MonitorTypeOK
<1>2. EntriesAreLastReports'
  BY ZeroUnset DEF ClearTable, EntriesAreLastReports
<1> QED
  BY <1>1, <1>2 DEF TableInv, OutsideNeedsOneTooMany, ClearTable

LEMMA TableStill == TableInv /\ UNCHANGED monitor => TableInv'
  BY DEF TableInv, monitor, MonitorTypeOK, EntriesAreLastReports,
         OutsideNeedsOneTooMany

-----------------------------------------------------------------------------
(* The serial port *)

\* A cell holds, once k bytes were lost to the hand-over before and z cleared,
\* the byte sent at this place; those not counted yet are empty.
Held(k, z) ==
    /\ receive_count = sent - k /\ z <= receive_count
    /\ \A c \in 0 .. receive_count - 1 : cells[c] = IF c < z THEN NUL ELSE k + c + 1
    /\ \A c \in Cells : c >= receive_count => cells[c] = NUL

\* Between two hand-overs: bytes are lost only if one came between the copy and
\* the reset of the count, cleared only if one came behind the reset.
Filling ==
    at \in {"idle", "quiet"} /\ sent < ReceiveMax =>
        \E k, z \in Nat : /\ Held(k, z)
                          /\ z > 0 <=> "reset" \in holed
                          /\ holed = {} => k = 0

\* Within one: before the reset of the count all that comes is lost, behind it
\* all that comes is cleared.
HandingOver ==
    /\ at \in {"copied", "measured"} => "reset" \notin touched /\ (touched = {} => sent = 0)
    /\ at = "reset" /\ sent < ReceiveMax =>
           /\ receive_count <= sent
           /\ receive_count > 0 <=> "reset" \in touched
           /\ touched = {} => receive_count = sent
    /\ at = "copied" /\ "copied" \notin touched => receive_count = Len(line)
    /\ at \in {"idle", "quiet"} => touched = {}

\* usart_state is 0 only after a hand-over, which forgets the count, or a wrap.
Polling == usart_state = 0 /\ ~ forgotten => usart_tmp = 0

UsartInv == UsartTypeOK /\ Filling /\ HandingOver /\ Polling /\ LineAsSent

LEMMA UsartConstants == ReceiveMax \in Nat /\ ReceiveMax > 0 /\ StateMod \in Nat /\ StateMod > 1
  BY UsartAssumption

\* What a byte does to the count.
LEMMA CountWraps ==
    ASSUME NEW c \in Cells
    PROVE  (c + 1) % ReceiveMax = IF c + 1 < ReceiveMax THEN c + 1 ELSE 0
<1>1. CASE c + 1 < ReceiveMax
  BY <1>1, UsartConstants DEF Cells
<1>2. CASE c + 1 = ReceiveMax
  BY <1>2, UsartConstants DEF Cells
<1> QED
  BY <1>1, <1>2, UsartConstants DEF Cells

\* A poll counts modulo the width of its counter.
LEMMA NextState ==
    ASSUME NEW s \in 0 .. StateMod - 1
    PROVE  (s + 1) % StateMod \in 0 .. StateMod - 1
<1>1. CASE s + 1 < StateMod
  BY <1>1, UsartConstants
<1>2. CASE s + 1 = StateMod
  BY <1>2, UsartConstants
<1> QED
  BY <1>1, <1>2, UsartConstants

LEMMA EmptyCells == Empty \in [Cells -> Places \cup {NUL}]
  BY DEF Empty

LEMMA UsartInitInv == UsartInit => UsartInv
<1> SUFFICES ASSUME UsartInit PROVE UsartInv
  OBVIOUS
<1>1. Len(line) = 0 /\ DOMAIN line = 1 .. 0
  BY DEF UsartInit
<1>2. UsartTypeOK
  <2>1. cells \in [Cells -> Places \cup {NUL}]
    BY EmptyCells DEF UsartInit
  <2>2. 0 \in Cells /\ 0 \in 0 .. StateMod - 1
    BY UsartConstants DEF Cells
  <2>3. Len(line) < ReceiveMax
    BY <1>1, UsartConstants
  <2> QED
    BY <1>1, <2>1, <2>2, <2>3 DEF UsartInit, UsartTypeOK
<1>3. Held(0, 0)
  BY DEF UsartInit, Held, Empty
<1>4. Filling
  BY <1>3 DEF UsartInit, Filling
<1>5. HandingOver /\ Polling /\ LineAsSent
  BY DEF UsartInit, HandingOver, Polling, LineAsSent, Steps
<1> QED
  BY <1>2, <1>4, <1>5 DEF UsartInv

LEMMA ReceiveInv == UsartInv /\ ReceiveByte => UsartInv'
<1> SUFFICES ASSUME UsartInv, ReceiveByte PROVE UsartInv'
  OBVIOUS
<1> USE DEF ReceiveByte
<1>0. /\ receive_count \in 0 .. ReceiveMax - 1 /\ sent \in 0 .. ReceiveMax
      /\ cells \in [Cells -> Places \cup {NUL}] /\ Cells = 0 .. ReceiveMax - 1
      /\ ReceiveMax \in Nat /\ ReceiveMax > 0
  BY UsartConstants DEF UsartInv, UsartTypeOK, Cells, Places
<1>1. sent' = IF sent < ReceiveMax THEN sent + 1 ELSE sent
  BY DEF NextPlace
<1>2. receive_count' = IF receive_count + 1 < ReceiveMax THEN receive_count + 1 ELSE 0
  BY <1>0, CountWraps
<1>3. cells' = [cells EXCEPT ![receive_count] = sent'] /\ sent' \in 1 .. ReceiveMax
  BY <1>0, <1>1
<1>4. UsartTypeOK'
  <2>1. cells' \in [Cells -> Places \cup {NUL}]
    BY <1>0, <1>3 DEF Places
  <2>2. receive_count' \in Cells
    BY <1>0, <1>2
  <2> QED
    BY <1>3, <2>1, <2>2 DEF UsartInv, UsartTypeOK, Places
<1>5. Filling'
  <2> SUFFICES ASSUME at \in {"idle", "quiet"}, sent' < ReceiveMax
               PROVE  \E k, z \in Nat : /\ Held(k, z)'
                                        /\ z > 0 <=> "reset" \in holed
                                        /\ holed = {} => k = 0
    BY DEF Filling
  <2>1. PICK k, z \in Nat : /\ Held(k, z)
                            /\ z > 0 <=> "reset" \in holed
                            /\ holed = {} => k = 0
    BY <1>0, <1>1 DEF UsartInv, Filling
  <2>2. sent' = sent + 1 /\ sent < ReceiveMax
    BY <1>0, <1>1
  <2>3. receive_count = sent - k /\ z <= receive_count
    BY <2>1 DEF Held
  <2>4. receive_count' = receive_count + 1
    BY <1>0, <1>1, <1>2, <2>2, <2>3
  <2>5. ASSUME NEW c \in 0 .. receive_count' - 1
        PROVE  cells'[c] = IF c < z THEN NUL ELSE k + c + 1
    <3>1. CASE c = receive_count
      BY <3>1, <1>0, <1>3, <2>2, <2>3
    <3>2. CASE c # receive_count
      <4>1. c \in 0 .. receive_count - 1 /\ c \in Cells
        BY <3>2, <1>0, <2>4
      <4>2. cells'[c] = cells[c]
        BY <3>2, <4>1, <1>0, <1>3
      <4> QED
        BY <4>1, <4>2, <2>1 DEF Held
    <3> QED
      BY <3>1, <3>2
  <2>6. receive_count' = sent' - k /\ z <= receive_count'
    BY <1>0, <2>2, <2>3, <2>4
  <2>7. ASSUME NEW c \in Cells, c >= receive_count'
        PROVE  cells'[c] = NUL
    <3>1. c >= receive_count /\ c # receive_count
      BY <2>4, <2>7, <1>0
    <3>2. cells'[c] = cells[c]
      BY <3>1, <1>0, <1>3
    <3> QED
      BY <2>1, <3>1, <3>2 DEF Held
  <2>8. Held(k, z)'
    BY <2>5, <2>6, <2>7 DEF Held
  <2> QED
    BY <2>1, <2>8
<1>6. HandingOver'
  <2>1. touched' = IF at \in Steps THEN touched \cup {at} ELSE touched
    OBVIOUS
  <2>2. at = "reset" /\ sent' < ReceiveMax =>
            receive_count' = receive_count + 1 /\ sent' = sent + 1
    BY <1>0, <1>1, <1>2 DEF UsartInv, HandingOver
  <2> QED
    BY <1>0, <2>1, <2>2 DEF UsartInv, HandingOver, Steps
<1>7. Polling' /\ LineAsSent'
  BY DEF UsartInv, Polling, LineAsSent, Steps
<1> QED
  BY <1>4, <1>5, <1>6, <1>7 DEF UsartInv

LEMMA PollsInv == UsartInv /\ (Poll \/ PollQuiet) => UsartInv'
<1> SUFFICES ASSUME UsartInv, Poll \/ PollQuiet PROVE UsartInv'
  OBVIOUS
<1> USE DEF Poll, PollQuiet, history
<1>1. UsartTypeOK'
  <2>1. usart_state' \in 0 .. StateMod - 1
    BY UsartConstants, NextState DEF UsartInv, UsartTypeOK
  <2>2. forgotten' \in BOOLEAN
    BY Zenon DEF UsartInv, UsartTypeOK
  <2>3. at' \in Steps \cup {"idle", "quiet"} /\ usart_tmp' \in Cells
    BY DEF UsartInv, UsartTypeOK
  <2> QED
    BY <2>1, <2>2, <2>3 DEF UsartInv, UsartTypeOK
<1>2. Filling'
  <2>1. \A k, z \in Nat : Held(k, z)' = Held(k, z)
    BY DEF Held
  <2> QED
    BY <2>1 DEF UsartInv, Filling
<1>3. HandingOver'
  BY DEF UsartInv, HandingOver
<1>4. Polling' /\ LineAsSent'
  BY DEF UsartInv, Polling, LineAsSent, Steps
<1> QED
  BY <1>1, <1>2, <1>3, <1>4 DEF UsartInv

LEMMA CopyInv == UsartInv /\ Copy => UsartInv'
<1> SUFFICES ASSUME UsartInv, Copy PROVE UsartInv'
  OBVIOUS
<1> USE DEF Copy
<1>0. /\ receive_count \in 0 .. ReceiveMax - 1 /\ sent \in 0 .. ReceiveMax
      /\ cells \in [Cells -> Places \cup {NUL}] /\ Cells = 0 .. ReceiveMax - 1
  BY UsartConstants DEF UsartInv, UsartTypeOK, Cells, Places
<1>1. /\ DOMAIN line' = 1 .. receive_count /\ Len(line') = receive_count
      /\ \A i \in 1 .. receive_count : line'[i] = cells[i - 1]
  <2>1. line' \in [1 .. receive_count -> Places \cup {NUL}]
    <3>1. \A i \in 1 .. receive_count : cells[i - 1] \in Places \cup {NUL}
      <4>1. \A i \in 1 .. receive_count : i - 1 \in Cells
        BY <1>0, UsartConstants
      <4> QED
        BY <4>1, <1>0
    <3> QED
      BY <3>1
  <2>2. receive_count \in Nat
    BY <1>0
  <2>3. line' \in Seq(Places \cup {NUL})
    BY <2>1, <2>2, SeqDef
  <2>4. DOMAIN line' = 1 .. receive_count
    BY <2>1
  <2>5. Len(line') = receive_count
    BY <2>2, <2>3, <2>4, LenProperties
  <2> QED
    BY <2>4, <2>5
<1>2. UsartTypeOK'
  <2>1. DOMAIN line' = 1 .. Len(line') /\ Len(line') < ReceiveMax
    BY <1>0, <1>1, UsartConstants
  <2>2. \A i \in DOMAIN line' : line'[i] \in Places \cup {NUL}
    <3>1. \A i \in 1 .. receive_count : i - 1 \in Cells
      BY <1>0, UsartConstants
    <3> QED
      BY <3>1, <1>0, <1>1
  <2>3. at' \in Steps \cup {"idle", "quiet"}
    BY DEF Steps
  <2>4. due' \in {0} \cup Places /\ sent' \in {0} \cup Places
    BY DEF UsartInv, UsartTypeOK
  <2> QED
    BY <2>1, <2>2, <2>3, <2>4 DEF UsartInv, UsartTypeOK
<1>3. Filling' /\ HandingOver' /\ Polling'
  BY <1>1 DEF UsartInv, Filling, HandingOver, Polling
<1>4. LineAsSent'
  <2> SUFFICES ASSUME sent < ReceiveMax
               PROVE  /\ holed = {} => line' = [i \in 1 .. sent |-> i]
                      /\ "reset" \notin holed =>
                             \E k \in 0 .. sent : line' = [i \in 1 .. sent - k |-> k + i]
                      /\ "reset" \in holed => line'[1] = NUL
    BY DEF LineAsSent
  <2>1. PICK k, z \in Nat : /\ Held(k, z)
                            /\ z > 0 <=> "reset" \in holed
                            /\ holed = {} => k = 0
    BY DEF UsartInv, Filling
  <2>2. receive_count = sent - k /\ k \in 0 .. sent
    BY <1>0, <2>1 DEF Held
  <2>3. ASSUME "reset" \notin holed PROVE line' = [i \in 1 .. sent - k |-> k + i]
    <3>1. ASSUME NEW i \in 1 .. receive_count PROVE cells[i - 1] = k + i
      <4>1. z = 0
        BY <2>1, <2>3
      <4>2. i - 1 \in 0 .. receive_count - 1 /\ ~ (i - 1 < z) /\ k + (i - 1) + 1 = k + i
        BY <1>0, <4>1
      <4> QED
        BY <2>1, <4>2 DEF Held
    <3> QED
      BY <2>2, <3>1
  <2>4. ASSUME "reset" \in holed PROVE line'[1] = NUL
    <3>1. z > 0 /\ z <= receive_count
      BY <2>1, <2>4 DEF Held
    <3>2. 0 \in 0 .. receive_count - 1 /\ 0 < z /\ 1 \in 1 .. receive_count
      BY <1>0, <3>1
    <3>3. cells[0] = NUL
      BY <2>1, <3>2 DEF Held
    <3> QED
      BY <1>1, <3>2, <3>3
  <2>5. ASSUME holed = {} PROVE line' = [i \in 1 .. sent |-> i]
    <3>1. k = 0 /\ "reset" \notin holed
      BY <2>1, <2>5
    <3>2. line' = [i \in 1 .. sent - k |-> k + i]
      BY <2>3, <3>1
    <3>3. sent - k = sent /\ \A i \in 1 .. sent : k + i = i
      BY <1>0, <3>1
    <3> QED
      BY <3>2, <3>3
  <2> QED
    BY <2>2, <2>3, <2>4, <2>5
<1> QED
  BY <1>2, <1>3, <1>4 DEF UsartInv

LEMMA MeasureInv == UsartInv /\ Measure => UsartInv'
<1> SUFFICES ASSUME UsartInv, Measure PROVE UsartInv'
  OBVIOUS
<1> USE DEF Measure, history
<1>1. UsartTypeOK'
  BY DEF UsartInv, UsartTypeOK, Steps
<1>2. Filling' /\ HandingOver' /\ Polling'
  BY DEF UsartInv, Filling, HandingOver, Polling
<1>3. LineAsSent'
  BY DEF UsartInv, HandingOver, LineAsSent, Steps
<1> QED
  BY <1>1, <1>2, <1>3 DEF UsartInv

LEMMA ResetCountInv == UsartInv /\ ResetCount => UsartInv'
<1> SUFFICES ASSUME UsartInv, ResetCount PROVE UsartInv'
  OBVIOUS
<1> USE DEF ResetCount, history
<1>1. UsartTypeOK'
  BY UsartConstants DEF UsartInv, UsartTypeOK, Steps, Cells
<1>2. Filling' /\ HandingOver' /\ Polling'
  BY UsartConstants DEF UsartInv, UsartTypeOK, Places, Filling, HandingOver, Polling
<1>3. LineAsSent'
  BY DEF UsartInv, LineAsSent, Steps
<1> QED
  BY <1>1, <1>2, <1>3 DEF UsartInv

LEMMA HandOverInv == UsartInv /\ HandOver => UsartInv'
<1> SUFFICES ASSUME UsartInv, HandOver PROVE UsartInv'
  OBVIOUS
<1> USE DEF HandOver
<1>0. /\ receive_count \in 0 .. ReceiveMax - 1 /\ sent \in 0 .. ReceiveMax
      /\ ReceiveMax \in Nat /\ ReceiveMax > 0
  BY UsartConstants DEF UsartInv, UsartTypeOK, Cells, Places
<1>1. Len(line') = 0 /\ DOMAIN line' = 1 .. 0
  OBVIOUS
<1>2. UsartTypeOK'
  <2>1. cells' \in [Cells -> Places \cup {NUL}]
    BY EmptyCells
  <2>2. 0 \in Cells /\ 0 \in 0 .. StateMod - 1
    BY UsartConstants DEF Cells
  <2>3. Len(line') < ReceiveMax
    BY <1>0, <1>1
  <2> QED
    BY <1>1, <2>1, <2>2, <2>3 DEF UsartInv, UsartTypeOK
<1>3. Filling'
  <2> SUFFICES ASSUME sent < ReceiveMax
               PROVE  \E k, z \in Nat : /\ Held(k, z)'
                                        /\ z > 0 <=> "reset" \in touched
                                        /\ touched = {} => k = 0
    BY DEF Filling
  <2>1. /\ receive_count <= sent
        /\ receive_count > 0 <=> "reset" \in touched
        /\ touched = {} => receive_count = sent
    BY DEF UsartInv, HandingOver
  <2>2. sent - receive_count \in Nat /\ receive_count \in Nat
    BY <1>0, <2>1
  <2>3. Held(sent - receive_count, receive_count)'
    BY <1>0 DEF Held, Empty, Cells
  <2> QED
    BY <1>0, <2>1, <2>2, <2>3
<1>4. HandingOver' /\ Polling' /\ LineAsSent'
  BY DEF HandingOver, Polling, LineAsSent, Steps
<1> QED
  BY <1>2, <1>3, <1>4 DEF UsartInv

LEMMA UsartStill == UsartInv /\ UNCHANGED usart => UsartInv'
<1> SUFFICES ASSUME UsartInv, UNCHANGED usart PROVE UsartInv'
  OBVIOUS
<1>0. UNCHANGED <<cells, receive_count, sent>>
  BY DEF usart, history
<1>1. \A k, z \in Nat : Held(k, z)' = Held(k, z)
  BY <1>0 DEF Held
<1>2. /\ UNCHANGED <<cells, receive_count, usart_tmp, usart_state, at, line, len>>
      /\ UNCHANGED <<sent, due, forgotten, touched, holed>>
  BY DEF usart, history
<1>3. UsartTypeOK'
  BY <1>2 DEF UsartInv, UsartTypeOK
<1>4. Filling'
  BY <1>1, <1>2 DEF UsartInv, Filling
<1>5. HandingOver' /\ Polling'
  BY <1>2 DEF UsartInv, HandingOver, Polling
<1>6. LineAsSent'
  BY <1>2 DEF UsartInv, LineAsSent
<1> QED
  BY <1>3, <1>4, <1>5, <1>6 DEF UsartInv

-----------------------------------------------------------------------------
(* The theorems *)

ConsoleInv == UsartInv /\ TableInv /\ PTP_MODE \in Modes

LEMMA InitInv == Init => ConsoleInv
  BY UsartInitInv, TableInit DEF Init, ConsoleInv, Modes

LEMMA StepInv == ConsoleInv /\ [Next]_vars => ConsoleInv'
<1> SUFFICES ASSUME ConsoleInv, [Next]_vars PROVE ConsoleInv'
  OBVIOUS
<1> USE DEF ConsoleInv
<1>1. CASE Interrupt
  BY <1>1, ReceiveInv, TableStill DEF Interrupt
<1>2. CASE USART_CallBack
  <2>1. CASE Receiving
    BY <2>1, PollsInv, CopyInv, MeasureInv, ResetCountInv, TableStill DEF Receiving
  <2>2. ASSUME NEW mode \in Modes, SetRole(mode) PROVE ConsoleInv'
    BY <2>2, HandOverInv, ClearInv DEF SetRole
  <2>3. CASE OtherLine
    BY <2>3, HandOverInv, TableStill DEF OtherLine
  <2> QED
    BY <1>2, <2>1, <2>2, <2>3 DEF USART_CallBack
<1>3. ASSUME NEW r \in Reports, HandleManagement(r) PROVE ConsoleInv'
  BY <1>3, EnterInv, ReplaceInv, UsartStill DEF HandleManagement, ptp_unpack_control
<1>4. CASE UNCHANGED vars
  BY <1>4, UsartStill, TableStill DEF vars
<1> QED
  BY <1>1, <1>2, <1>3, <1>4 DEF Next

LEMMA Always == Spec => []ConsoleInv
  BY InitInv, StepInv, PTL DEF Spec

\* The serial port's and the table's variables keep their types.
THEOREM ConsoleTypeCorrect == Spec => []TypeOK
<1>1. ConsoleInv => TypeOK
  BY DEF ConsoleInv, UsartInv, TableInv, TypeOK
<1> QED
  BY <1>1, Always, PTL

\* A line that fits is handed over as it was sent, but for what came during the
\* hand-over before.
THEOREM LineCorrect == Spec => []LineAsSent
<1>1. ConsoleInv => LineAsSent
  BY DEF ConsoleInv, UsartInv
<1> QED
  BY <1>1, Always, PTL

\* Bytes are left in the cells only after a wrap of usart_state, or when as many
\* came as there are cells.
THEOREM NothingLeftCorrect == Spec => []NothingLeftBehind
<1>1. ConsoleInv => NothingLeftBehind
  <2> SUFFICES ASSUME UsartInv, at = "idle", receive_count = usart_tmp, usart_state = 0,
                      ~ forgotten, sent # ReceiveMax
               PROVE  cells = Empty
    BY DEF ConsoleInv, NothingLeftBehind
  <2>1. receive_count = 0 /\ cells \in [Cells -> Places \cup {NUL}]
    BY DEF UsartInv, UsartTypeOK, Polling
  <2>2. sent < ReceiveMax
    BY UsartConstants DEF UsartInv, UsartTypeOK, Places
  <2>3. \A c \in Cells : cells[c] = NUL
    <3>1. PICK k, z \in Nat : Held(k, z)
      BY <2>2 DEF UsartInv, Filling
    <3>2. \A c \in Cells : c >= receive_count
      BY <2>1, UsartConstants DEF Cells
    <3> QED
      BY <3>1, <3>2 DEF Held
  <2> QED
    BY <2>1, <2>3 DEF Empty
<1> QED
  BY <1>1, Always, PTL

\* No clock has two entries, and each shows its last report.
THEOREM EntriesCorrect == Spec => []EntriesAreLastReports
<1>1. ConsoleInv => EntriesAreLastReports
  BY DEF ConsoleInv, TableInv
<1> QED
  BY <1>1, Always, PTL

\* The memory behind the table is written only once more clocks reported than
\* it has entries.
THEOREM OutsideCorrect == Spec => []OutsideNeedsOneTooMany
<1>1. ConsoleInv => OutsideNeedsOneTooMany
  BY DEF ConsoleInv, TableInv
<1> QED
  BY <1>1, Always, PTL
=============================================================================
