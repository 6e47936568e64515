----------------------------- MODULE LinkRestart -----------------------------
(***************************************************************************)
(* PtpPort with a link interrupt that comes inside a step of the main loop *)
(* and not between two of them.  The interrupt itself is PtpPort's LinkUp: *)
(* toState(LISTENING), then ptpdStartup, that is toState(INITIALIZING).    *)
(* Inside toState(s) of the main loop it does the same, but then toState   *)
(* goes on with what it had left to do: the timers of s, the assignment of *)
(* s to portState, that of recommendedState.  Inside bmc() the restart     *)
(* comes before the recommendation is assigned.                            *)
(*                                                                         *)
(* The step of the main loop that calls toState is taken first, and its    *)
(* outcome is then corrected to that of the interrupted call: nothing the  *)
(* main loop does in the rest of such a step depends on what the interrupt *)
(* changes, but for netSelect, which sees the queue the interrupt emptied. *)
(***************************************************************************)
EXTENDS PtpPort

VARIABLES
    left,  \* the state the port was in before the last step
    torn,  \* history: the restart was overwritten by an interrupted toState,
           \* and no state that starts all its timers has been entered since
    stray  \* history: MANAGEMENT was started after the restart had stopped it

linkVars == <<vars, left, torn, stray>>

-----------------------------------------------------------------------------
\* The timers ETH_link_callback leaves stopped when it comes in state s.
StoppedByLink(s) ==
    {"ANNOUNCE_RECEIPT"}
    \cup (CASE s = "MASTER" -> {"SYNC", "ANNOUNCE_INTERVAL", "PDELAYREQ"}
            [] s \in Following -> {"MANAGEMENT", DelayTimer}
            [] s = "PASSIVE" -> {"PDELAYREQ"}
            [] s = "PRE_MASTER" -> {"QUALIFICATION"}
            [] OTHER -> {})

\* What the interrupt does wherever it comes: initClock, timerStop, and the
\* event queue empty when ptpd_Periodic_Handle looks at it.
Interrupted ==
    /\ expire' = expire \ {"ANNOUNCE_RECEIPT"} /\ announced' = Self
    /\ waiting' = FALSE
    /\ queued' \in {queued, FALSE}
    /\ pc' = IF pc = "decide" /\ ~queued' THEN "idle" ELSE pc
    /\ UNCHANGED <<elapsed, known, heard, sync, role>>

LinkInit == Init /\ left = portState /\ torn = FALSE /\ stray = FALSE

\* A step that is not interrupted.
Step ==
    /\ Next
    /\ left' = IF LinkUp THEN portState' ELSE portState
    /\ torn' = (torn /\ portState' \in {portState, "SLAVE"})
    /\ stray' = (stray /\ ~ (portState \in Following /\ portState' \notin Following))

\* The prefixes of the timers toState(s) starts before portState is assigned.
StartedSoFar(s) ==
    CASE s = "SLAVE" -> {{}}
      [] s \in {"PASSIVE", "UNCALIBRATED"} -> {{}, {"ANNOUNCE_RECEIPT"}, Started(s)}
      [] OTHER -> {{}, Started(s)}

\* A bug: the interrupt stops the timers of the state being entered as well.
InsideToStateStopsAll ==
    /\ left # portState
    /\ running' = running \ (StoppedByLink(left) \cup StoppedByLink(portState))
    /\ recommendedState' =
           IF portState \in {"INITIALIZING", "LISTENING"} THEN portState ELSE "INITIALIZING"
    /\ torn' = TRUE /\ left' = portState
    /\ Interrupted
    /\ UNCHANGED <<portState, events, parent, offsetFrom, stray>>

\* The interrupt comes before toState assigns portState: it finds the port in
\* the state it was leaving, stops that state's timers, those toState has
\* started already among them, and its restart is overwritten.
InsideToState ==
    /\ left # portState
    /\ \E soFar \in StartedSoFar(portState) :
          LET lost == soFar \cap StoppedByLink(left) IN
          running' = running \ ((StoppedByLink(left) \ Started(portState)) \cup lost)
    /\ recommendedState' =
           IF portState \in {"INITIALIZING", "LISTENING"} THEN portState ELSE "INITIALIZING"
    /\ torn' = TRUE /\ left' = portState
    /\ Interrupted
    /\ UNCHANGED <<portState, events, parent, offsetFrom, stray>>

\* It comes after the assignment of portState, with one more to be made: that
\* of recommendedState, so that the port will leave INITIALIZING without being
\* initialised, or the start of MANAGEMENT.
AfterAssignment ==
    /\ left # portState /\ portState \in {"LISTENING", "SLAVE"}
    /\ portState' = "INITIALIZING" /\ left' = portState'
    /\ recommendedState' = IF portState = "LISTENING" THEN "LISTENING" ELSE "INITIALIZING"
    /\ running' = (running \ StoppedByLink(portState))
                  \cup ({"MANAGEMENT"} \cap Started(portState))
    /\ stray' = (stray \/ portState = "SLAVE")
    /\ torn' = FALSE
    /\ Interrupted
    /\ UNCHANGED <<events, parent, offsetFrom>>

\* The state the second switch of doState goes to from INITIALIZING.
FromInitializing(rec) ==
    CASE rec = "MASTER" -> "PRE_MASTER"
      [] rec = "SLAVE" -> "UNCALIBRATED"
      [] OTHER -> rec

\* It comes inside bmc(), behind its look at the port state: the recommendation
\* is assigned over the restart and followed from INITIALIZING.
InsideDecision ==
    /\ pc = "decide" /\ portState \in Operational /\ "STATE_DECISION" \in events
    /\ \E d \in Decisions, draw \in {0, 1} :
          LET s == FromInitializing(d.rec) IN
          /\ portState' = s
          /\ recommendedState' = d.rec
          /\ parent' = d.parent /\ offsetFrom' = d.offset /\ events' = d.events
          /\ running' = (running \ StoppedByLink(portState)) \cup Armed(Started(s), draw)
          /\ expire' = expire \ ({"ANNOUNCE_RECEIPT"} \cup Started(s))
    /\ left' = "INITIALIZING"
    /\ torn' = FALSE
    /\ stray' = (stray /\ portState \notin Following)
    /\ pc' = "act" /\ waiting' = FALSE /\ queued' \in {queued, FALSE}
    /\ announced' = Self
    /\ UNCHANGED <<elapsed, known, heard, sync, role>>

LinkNext == Step \/ InsideToState \/ AfterAssignment \/ InsideDecision

LinkSpec == LinkInit /\ [][LinkNext]_linkVars

-----------------------------------------------------------------------------
\* What an overwritten restart can break, and what nothing else does: the
\* announce receipt timer stands still in a state that needs it, so that a
\* silent master is never given up, or PRE_MASTER has lost its recommendation,
\* the only way out of that state.  No other timer is lost, and none but
\* MANAGEMENT runs that the state the port ends up in does not have.
OnlyTornRestartStrands ==
    /\ ~torn => /\ "ANNOUNCE_RECEIPT" \in running
                       <=> portState \in {"LISTENING", "UNCALIBRATED", "SLAVE", "PASSIVE"}
                /\ portState = "PRE_MASTER" => recommendedState = "MASTER"
    /\ "ANNOUNCE_RECEIPT" \in running =>
           portState \in {"LISTENING", "UNCALIBRATED", "SLAVE", "PASSIVE"}
    /\ "SYNC" \in running <=> portState = "MASTER"
    /\ "ANNOUNCE_INTERVAL" \in running <=> portState = "MASTER"
    /\ "QUALIFICATION" \in running <=> portState = "PRE_MASTER"
    /\ "MANAGEMENT" \in running => portState \in Following \/ stray
=============================================================================
