------------------------------ MODULE TimerSet -------------------------------
(***************************************************************************)
(* What the interval timers promise the port state machine: sets of timers *)
(* that run and that have expired, and whether time has passed since a     *)
(* timer was last asked for.  PtpPort is written in these terms; Superloop *)
(* implements them with milliseconds.                                      *)
(***************************************************************************)

CONSTANT Timers

VARIABLES
    running,  \* timers with an interval
    expire,   \* timers whose expiry has not been asked for yet
    elapsed   \* elapsed_ms is not 0

vars == <<running, expire, elapsed>>

Init == running = {} /\ expire = {} /\ elapsed = FALSE

\* catchAlarm
Pass == elapsed' \in {elapsed, TRUE} /\ UNCHANGED <<running, expire>>

\* timerExpired(t): any of the running timers may expire, if time has passed.
Ask(t) ==
    /\ \E due \in SUBSET running :
          /\ due # {} => elapsed
          /\ expire' = (expire \cup due) \ {t}
    /\ elapsed' = FALSE
    /\ UNCHANGED running

\* timerStart(t, i); with an i of 0 it does not run.
Start(t) ==
    /\ running' \in {running \cup {t}, running \ {t}}
    /\ expire' = expire \ {t}
    /\ UNCHANGED elapsed

\* timerStop(t) leaves an expiry that was not asked for.
Stop(t) == running' = running \ {t} /\ UNCHANGED <<expire, elapsed>>

\* initTimer
Clear == running = {} /\ elapsed' = FALSE /\ UNCHANGED <<running, expire>>

\* The watchdog resets the processor.
Reset == Init'

Next == Pass \/ (\E t \in Timers : Ask(t) \/ Start(t) \/ Stop(t)) \/ Clear \/ Reset

Spec == Init /\ [][Next]_vars
=============================================================================
