--------------------------- MODULE ForeignMasters ---------------------------
(***************************************************************************)
(* The foreign master table and the best master clock algorithm of         *)
(* ptpd-2.0.0/src/bmc.c, with the calls protocol.c makes of them.          *)
(*                                                                         *)
(* An announce is a data set: its sender, the grandmaster it names, the    *)
(* grandmaster's rank (priority1, class, accuracy, variance and priority2, *)
(* compared in that order: one number, lower is better) and stepsRemoved.  *)
(* Identities are numbers, ordered as memcmp orders them.  The zero data   *)
(* set is what a record holds before it is first used.                     *)
(***************************************************************************)
EXTENDS Integers, FiniteSets

CONSTANTS
    Announces,      \* the data sets that other clocks announce
    Own,            \* the data set of copyD0
    Capacity,       \* foreignMasterDS.capacity
    Classes         \* the clock classes rtOpts may give: below 128 ("low"),
                    \* "default" (248) or "slaveOnly" (255)

DataSets == [src : Nat, gm : Nat, rank : Nat, steps : Nat]

Zero == [src |-> 0, gm |-> 0, rank |-> 0, steps |-> 0]

ASSUME ForeignMastersAssumption ==
    /\ Announces \subseteq {d \in DataSets : d.src # 0 /\ d.src # Own.src}
    /\ Own \in DataSets /\ Own.src # 0
    /\ Capacity \in Nat \ {0}
    /\ Classes \subseteq {"low", "default", "slaveOnly"}

VARIABLES
    records, count, i, best,  \* foreignMasterDS
    role,      \* portState, as far as the table is concerned
    parentDS,  \* the data set last copied by m1 or s1
    pending,   \* STATE_DECISION_EVENT
    class,     \* defaultDS.clockQuality.clockClass
    disturbed  \* whether, since the table was last emptied by a timeout, doInit
               \* ran or an announce was handled with a decision pending

table == <<records, count, i, best>>
vars == <<table, role, parentDS, pending, class, disturbed>>

Slots == 0 .. Capacity - 1

\* PRE_MASTER and MASTER are "SERVING", UNCALIBRATED and SLAVE "FOLLOWING".
Roles == {"LISTENING", "SERVING", "FOLLOWING", "PASSIVE"}

-----------------------------------------------------------------------------
(* bmcDataSetComparison: 1 if a is better, -1 if b is, 0 if they are equal *)

\* Figure 27, for two different grandmasters.
BetterGrandmaster(a, b) == a.rank < b.rank \/ (a.rank = b.rank /\ a.gm < b.gm)

\* Figure 28, by distance and by the identity of the sender; 0 is ERROR_1 or
\* ERROR_2.
BetterTopology(a, b) ==
    \/ a.steps + 1 < b.steps
    \/ a.steps + 1 = b.steps /\ b.src # Own.src
    \/ a.steps = b.steps /\ a.src < b.src

Compare(a, b) ==
    IF a.gm # b.gm
    THEN IF BetterGrandmaster(a, b) THEN 1 ELSE -1
    ELSE IF BetterTopology(a, b) THEN 1
    ELSE IF BetterTopology(b, a) THEN -1
    ELSE 0

\* The loop of bmc: "best" after the records below k were compared.
Best[k \in 0 .. Capacity] ==
    IF k <= 1 THEN 0
    ELSE IF Compare(records[k - 1], records[Best[k - 1]]) < 0 THEN k - 1
    ELSE Best[k - 1]

Elected == Best[count]

-----------------------------------------------------------------------------
(* addForeign *)

\* The record looked at in the n-th turn of the loop: from best on, modulo count.
Scanned(n) == IF n = 0 THEN best ELSE (best + n) % count

\* A bug for the mutation runs: the search starts behind the best record.
KnownAtNext(m) == {k \in Slots : \E n \in 1 .. count - 1 :
                      k = Scanned(n) /\ records[k].src = m}

\* Where the search may find m.
KnownAt(m) == {k \in Slots : \E n \in 0 .. count - 1 :
                      k = Scanned(n) /\ records[k].src = m}

\* The first turn that finds m ends the loop.
Found(m) == LET turn(k) == CHOOSE n \in 0 .. count - 1 : Scanned(n) = k
            IN  CHOOSE k \in KnownAt(m) : \A l \in KnownAt(m) : turn(k) <= turn(l)

\* A bug: the index is advanced before the record is written.
AddNewAdvanced(d) ==
    /\ i' = (i + 1) % Capacity
    /\ records' = [records EXCEPT ![i'] = d]
    /\ count' = IF count < Capacity THEN count + 1 ELSE count

\* A bug: the new record is not counted.
AddNewUncounted(d) ==
    /\ records' = [records EXCEPT ![i] = d]
    /\ count' = IF count = 0 THEN 1 ELSE count
    /\ i' = (i + 1) % Capacity

\* A bug: the count is not held at the capacity.
AddNewUnbounded(d) ==
    /\ records' = [records EXCEPT ![i] = d]
    /\ count' = IF count <= Capacity THEN count + 1 ELSE count
    /\ i' = (i + 1) % Capacity

\* The oldest record is replaced when the table is full.
AddNew(d) ==
    /\ records' = [records EXCEPT ![i] = d]
    /\ count' = IF count < Capacity THEN count + 1 ELSE count
    /\ i' = (i + 1) % Capacity

addForeign(d) ==
    /\ IF KnownAt(d.src) # {}
       THEN /\ records' = [records EXCEPT ![Found(d.src)] = d]
            /\ UNCHANGED <<count, i>>
       ELSE AddNew(d)
    /\ UNCHANGED best

-----------------------------------------------------------------------------
(* The steps of the port *)

FromParent(d) == role = "FOLLOWING" /\ d.src = parentDS.src

\* handleAnnounce.  bmc() runs at the start of the next pass; a second announce
\* before it comes in a pass that calls handle() twice.
Announce(d) ==
    /\ IF FromParent(d)
       THEN parentDS' = d /\ UNCHANGED table
       ELSE addForeign(d) /\ UNCHANGED parentDS
    /\ pending' = TRUE
    /\ disturbed' = (disturbed \/ pending)
    /\ UNCHANGED <<role, class>>

\* bmcStateDecision, with the record that bmc found best, and the second switch
\* of doState.
StateDecision(e) ==
    IF count = 0 /\ role = "LISTENING"
    THEN UNCHANGED <<role, parentDS>>
    ELSE IF Compare(Own, e) = 1
    THEN /\ parentDS' = Own
         /\ role' = IF class = "slaveOnly" THEN "LISTENING" ELSE "SERVING"
    ELSE IF class = "low"
    THEN role' = "PASSIVE" /\ UNCHANGED parentDS
    ELSE /\ parentDS' = e
         /\ role' = "FOLLOWING"

\* STATE_DECISION_EVENT in doState: bmc().
Decide ==
    /\ pending
    /\ pending' = FALSE
    /\ best' = Elected
    /\ StateDecision(records[Elected])
    /\ UNCHANGED <<records, count, i, class, disturbed>>

\* A bug: the timeout resets the write index but not the count.
ReceiptTimeoutCounted ==
    /\ role \in {"LISTENING", "FOLLOWING", "PASSIVE"}
    /\ i' = 0
    /\ disturbed' = FALSE
    /\ IF class = "slaveOnly"
       THEN role' = "LISTENING" /\ UNCHANGED parentDS
       ELSE role' = "SERVING" /\ parentDS' = Own
    /\ UNCHANGED <<records, count, best, pending, class>>

\* ANNOUNCE_RECEIPT_TIMEOUT_EXPIRES in doState.
ReceiptTimeout ==
    /\ role \in {"LISTENING", "FOLLOWING", "PASSIVE"}
    /\ count' = 0 /\ i' = 0
    /\ disturbed' = FALSE
    /\ IF class = "slaveOnly"
       THEN role' = "LISTENING" /\ UNCHANGED parentDS
       ELSE role' = "SERVING" /\ parentDS' = Own
    /\ UNCHANGED <<records, best, pending, class>>

\* doInit, after a fault, a command or a link interrupt: initData and m1.
Reinit ==
    /\ count' = 0
    /\ disturbed' = TRUE
    /\ role' = "LISTENING"
    /\ parentDS' = Own
    /\ class' \in Classes
    /\ UNCHANGED <<records, i, best, pending>>

Init ==
    /\ records = [k \in Slots |-> Zero]
    /\ count = 0 /\ i = 0 /\ best = 0
    /\ role = "LISTENING" /\ parentDS = Own /\ pending = FALSE
    /\ class \in Classes /\ disturbed = FALSE

Next == (\E d \in Announces : Announce(d)) \/ Decide \/ ReceiptTimeout \/ Reinit

Spec == Init /\ [][Next]_vars

-----------------------------------------------------------------------------
\* The table indices stay in the array, which holds announced data sets only.
TypeOK ==
    /\ records \in [Slots -> Announces \cup {Zero}]
    /\ count \in 0 .. Capacity /\ i \in Slots /\ best \in Slots
    /\ role \in Roles
    /\ parentDS \in Announces \cup {Own, Zero}
    /\ pending \in BOOLEAN /\ class \in Classes /\ disturbed \in BOOLEAN

\* bmc() compares and elects filled records only, although the count and the
\* write index are reset separately, and although it also reads record 0 when
\* the count is 0: no port ever follows the all-zero identity.
NoEmptyRecordUsed ==
    /\ \A k \in Slots : k < count => records[k] # Zero
    /\ pending => records[0] # Zero
    /\ parentDS # Zero

\* Undisturbed, no master has two records in the election: the search from
\* "best" modulo the count visits all of them, even when "best" is older than
\* the table it points into.
DistinctSenders ==
    ~disturbed => \A k, l \in Slots :
                      (k < l /\ l < count) => records[k].src # records[l].src

\* A master whose announce was handled takes part in the next election, with
\* what it announced, unless the table was disturbed: "header and announce field
\* of each Foreign Master are usefull to run Best Master Clock Algorithm".
AnnouncedTakesPart ==
    [][\A d \in Announces : (Announce(d) /\ ~FromParent(d) /\ ~disturbed') =>
          \E k \in Slots : k < count' /\ records'[k] = d]_vars

\* bmc() elects a record that no other one is better than.
ElectsBest ==
    [][(Decide /\ count > 0) =>
          \A k \in Slots : k < count => Compare(records[k], records[best']) <= 0]_vars

-----------------------------------------------------------------------------
\* The senders of the records that were ever filled.
Recorded == {records[k].src : k \in Slots} \ {Zero.src}

Choice == INSTANCE MasterChoice WITH
    Masters <- {d.src : d \in Announces}, Self <- Own.src,
    known <- count > 0, heard <- Recorded, parent <- parentDS.src

\* Seen through the senders of its records, the table is what the state machine
\* takes it for: an election finds a clock that was heard and is still recorded,
\* whatever the indices point to, decides once for each time it was asked, and
\* nothing but elections, timeouts and restarts changes the parent.
ChoosesAsPromised == Choice!Spec
=============================================================================
