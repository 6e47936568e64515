---------------------------- MODULE MasterChoice ----------------------------
(***************************************************************************)
(* What the port state machine and the foreign master table promise each   *)
(* other: whose announces are kept, when bmc() may decide, what it may     *)
(* decide, and what becomes of the parent when the announces stop, when    *)
(* the port fails and when it is initialised.  ForeignMasters implements   *)
(* this with a table, PtpPort with the state machine around it.            *)
(***************************************************************************)

CONSTANTS Masters, Self

VARIABLES
    role,    \* "STOPPED" until the port is initialised, or what it then does
    class,   \* the clock class of the port
    known,   \* whether the table has records
    heard,   \* the clocks an election may find
    parent,  \* the parent data set
    pending  \* STATE_DECISION_EVENT

vars == <<role, class, known, heard, parent, pending>>

AnyClass == {"low", "default", "slaveOnly"}

Init ==
    /\ role \in {"STOPPED", "LISTENING"} /\ class \in AnyClass
    /\ known = FALSE /\ heard = {} /\ parent = Self /\ pending = FALSE

\* handleAnnounce.  A new clock may take the place of others; the parent's
\* announces bypass the table.
Hear(m) ==
    /\ role # "STOPPED"
    /\ pending' = TRUE
    /\ IF role = "FOLLOWING" /\ m = parent
       THEN UNCHANGED <<known, heard>>
       ELSE known' = TRUE /\ m \in heard' /\ heard' \subseteq heard \cup {m}
    /\ UNCHANGED <<role, class, parent>>

\* What bmcStateDecision makes of the best record, whichever that is.
Serve ==
    /\ parent' = Self
    /\ role' = IF class = "slaveOnly" THEN "LISTENING" ELSE "SERVING"

BePassive == class = "low" /\ role' = "PASSIVE" /\ UNCHANGED parent

Follow == class # "low" /\ role' = "FOLLOWING" /\ parent' \in heard

\* bmc(): once for each time it was asked for.
Choose ==
    /\ role # "STOPPED" /\ pending
    /\ pending' = FALSE
    /\ IF ~known /\ role = "LISTENING"
       THEN UNCHANGED <<role, parent>>
       ELSE Serve \/ BePassive \/ Follow
    /\ UNCHANGED <<class, known, heard>>

\* The announce receipt timeout empties the table.
Abandon ==
    /\ role # "SERVING"
    /\ known' = FALSE
    /\ IF class = "slaveOnly"
       THEN role' = "LISTENING" /\ UNCHANGED parent
       ELSE Serve
    /\ UNCHANGED <<class, heard, pending>>

\* A fault, a command or a link interrupt; then doInit.
Stop ==
    /\ role' = "STOPPED"
    /\ UNCHANGED <<class, known, heard, parent, pending>>

Reinit ==
    /\ known' = FALSE
    /\ role' = "LISTENING" /\ parent' = Self
    /\ class' \in AnyClass
    /\ UNCHANGED <<heard, pending>>

\* doState goes on with an old recommendation, without doInit.
Resume ==
    /\ role = "STOPPED"
    /\ \/ role' = "LISTENING"
       \/ role' = "SERVING" /\ parent = Self /\ class # "slaveOnly"
       \/ role' = "PASSIVE" /\ class # "slaveOnly"
       \/ role' = "FOLLOWING" /\ parent \in heard
    /\ UNCHANGED <<class, known, heard, parent, pending>>

Next == (\E m \in Masters : Hear(m)) \/ Choose \/ Abandon \/ Stop \/ Reinit \/ Resume

Spec == Init /\ [][Next]_vars
=============================================================================
