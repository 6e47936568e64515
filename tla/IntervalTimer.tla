---------------------------- MODULE IntervalTimer ----------------------------
(***************************************************************************)
(* The interval timers of ptpd-2.0.0/src/dep/timer.c and the way time      *)
(* reaches them: SysTick advances LocalTime, ptpd_Periodic_Handle adds     *)
(* what passed since its last call to elapsed_ms (catchAlarm), and the     *)
(* next timerExpired of any timer takes elapsed_ms off all of them.        *)
(***************************************************************************)
EXTENDS Integers

CONSTANTS
    Timers,     \* the timers of itimer[]
    Intervals,  \* what timerStart is called with, for each timer
    Wrap        \* LocalTime is below this (2^32)

ASSUME TimerAssumption ==
    /\ Intervals \in [Timers -> SUBSET Nat]
    /\ Wrap \in Nat /\ Wrap > 1

VARIABLES
    LocalTime, old_localtime,
    elapsed_ms,
    interval, left, expire,  \* itimer[], by timer
    due,    \* history: ms until a running timer should expire, counted from
            \* its start or, if later, from its last expiry
    slack   \* history: ms not yet taken off the timers at that moment

itimer == <<interval, left, expire>>
timing == <<LocalTime, old_localtime, elapsed_ms, itimer, due, slack>>

-----------------------------------------------------------------------------
\* Unsigned subtraction.
Since(then) == (LocalTime - then) % Wrap

\* Time that has passed and is not yet taken off the timers.
Pending == elapsed_ms + Since(old_localtime)

Running == {t \in Timers : interval[t] > 0}

TimerInit ==
    /\ LocalTime = 0 /\ old_localtime = 0
    /\ elapsed_ms = 0
    /\ interval = [t \in Timers |-> 0]
    /\ left = [t \in Timers |-> 0]
    /\ expire = [t \in Timers |-> FALSE]
    /\ due = [t \in Timers |-> 0]
    /\ slack = [t \in Timers |-> 0]

\* The same after a reset.
TimerReset ==
    /\ LocalTime' = 0 /\ old_localtime' = 0
    /\ elapsed_ms' = 0
    /\ interval' = [t \in Timers |-> 0]
    /\ left' = [t \in Timers |-> 0]
    /\ expire' = [t \in Timers |-> FALSE]
    /\ due' = [t \in Timers |-> 0]
    /\ slack' = [t \in Timers |-> 0]

-----------------------------------------------------------------------------
\* A bug: the time does not wrap.
Time_UpdateNoWrap ==
    /\ LocalTime' = LocalTime + 1
    /\ due' = [t \in Timers |-> IF t \in Running THEN due[t] - 1 ELSE due[t]]
    /\ UNCHANGED <<old_localtime, elapsed_ms, itimer, slack>>

\* SysTick_Handler, Time_Update.
Time_Update ==
    /\ LocalTime' = (LocalTime + 1) % Wrap
    /\ due' = [t \in Timers |-> IF t \in Running THEN due[t] - 1 ELSE due[t]]
    /\ UNCHANGED <<old_localtime, elapsed_ms, itimer, slack>>

\* A bug: old_localtime is left behind.
catchAlarmAgain ==
    /\ elapsed_ms' = elapsed_ms + Since(old_localtime)
    /\ UNCHANGED <<LocalTime, old_localtime, itimer, due, slack>>

\* ptpd_Periodic_Handle up to doState.
catchAlarm ==
    /\ elapsed_ms' = elapsed_ms + Since(old_localtime)
    /\ old_localtime' = LocalTime
    /\ UNCHANGED <<LocalTime, itimer, due, slack>>

\* A bug: timers that were stopped expire as well.
ExpiringStopped == {t \in Timers : left[t] <= elapsed_ms}

\* timerUpdate: the timers that expire.
Expiring == {t \in Running : left[t] <= elapsed_ms}

Updated(t) ==
    IF t \in Expiring THEN interval[t]
    ELSE IF t \in Running THEN left[t] - elapsed_ms
    ELSE left[t]

\* A bug: only the timer that is asked for gets the time.
timerExpiredAlone(t) ==
    /\ elapsed_ms' = 0
    /\ left' = [left EXCEPT ![t] = Updated(t)]
    /\ expire' = [u \in Timers |-> u # t /\ expire[u]]
    /\ due' = [u \in Timers |-> IF u = t /\ u \in Expiring THEN interval[u] ELSE due[u]]
    /\ slack' = [u \in Timers |-> IF u = t /\ u \in Expiring THEN Since(old_localtime)
                                  ELSE slack[u]]
    /\ UNCHANGED <<LocalTime, old_localtime, interval>>

\* timerExpired(t), which takes the flag of t back, whether it was set or not.
timerExpired(t) ==
    /\ elapsed_ms' = 0
    /\ left' = [u \in Timers |-> Updated(u)]
    /\ expire' = [u \in Timers |-> u # t /\ (expire[u] \/ u \in Expiring)]
    /\ due' = [u \in Timers |-> IF u \in Expiring THEN interval[u] ELSE due[u]]
    /\ slack' = [u \in Timers |-> IF u \in Expiring THEN Since(old_localtime)
                                  ELSE slack[u]]
    /\ UNCHANGED <<LocalTime, old_localtime, interval>>

\* timerStart(t, i): what is pending is not taken off first.
timerStart(t, i) ==
    /\ interval' = [interval EXCEPT ![t] = i]
    /\ left' = [left EXCEPT ![t] = i]
    /\ expire' = [expire EXCEPT ![t] = FALSE]
    /\ due' = [due EXCEPT ![t] = i]
    /\ slack' = [slack EXCEPT ![t] = IF i = 0 THEN 0 ELSE Pending]
    /\ UNCHANGED <<LocalTime, old_localtime, elapsed_ms>>

\* timerStop(t) leaves the flag.
timerStop(t) ==
    /\ interval' = [interval EXCEPT ![t] = 0]
    /\ due' = [due EXCEPT ![t] = 0]
    /\ slack' = [slack EXCEPT ![t] = 0]
    /\ UNCHANGED <<LocalTime, old_localtime, elapsed_ms, left, expire>>

\* initTimer, called by doInit in a state in which no timer runs.
initTimer ==
    /\ Running = {}
    /\ elapsed_ms' = 0
    /\ UNCHANGED <<LocalTime, old_localtime, itimer, due, slack>>

-----------------------------------------------------------------------------
TimerTypeOK ==
    /\ LocalTime \in 0 .. Wrap - 1 /\ old_localtime \in 0 .. Wrap - 1
    /\ elapsed_ms \in Nat
    /\ interval \in [Timers -> Nat]
    /\ \A t \in Timers : interval[t] \in Intervals[t] \cup {0}
    /\ left \in [Timers -> Int]
    /\ expire \in [Timers -> BOOLEAN]
    /\ due \in [Timers -> Int]
    /\ slack \in [Timers -> Nat]

\* No time is lost or counted twice between SysTick and the timers, across the
\* wrap of LocalTime, whichever timer is asked for and whenever: what is left
\* of a running timer is what is due but for what was pending when it began.
Reckoning ==
    \A t \in Running : left[t] > 0 /\ left[t] = due[t] - slack[t] + Pending

\* A timer expires before its time by no more than what was pending when it
\* began.  (timerStart does not call timerUpdate first.)
ExpiresNotEarly ==
    [][\A t \in Timers : expire'[t] /\ ~ expire[t] => due[t] <= slack[t]]_timing
=============================================================================
