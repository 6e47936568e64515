----------------------------- MODULE Superloop ------------------------------
(***************************************************************************)
(* The superloop of src/Main/task.c with its task table, the timers of     *)
(* ptpd, and the watchdog, which one of the tasks feeds.  Time passes      *)
(* between any two steps of the loop.                                      *)
(***************************************************************************)
EXTENDS IntervalTimer, FiniteSets, Sequences

CONSTANTS
    List,           \* the task table: the order in which the tasks are polled
    LED_CallBack,   \* the task that feeds the watchdog
    Period,         \* of each task
    WatchdogLimit,  \* ms the watchdog waits (IWDG_Init)
    StepMax,        \* ms a step of the loop lasts at most
    PassMax,        \* calls of doState in a pass, unless packets keep coming
    PendingMax      \* ms after which a port has asked for a timer

ASSUME SuperloopAssumption ==
    /\ LED_CallBack \in {List[i] : i \in DOMAIN List}
    /\ {WatchdogLimit, StepMax, PassMax, PendingMax} \subseteq Nat

VARIABLES
    Count,    \* of each task: when it last ran
    time,     \* Task_Poll's parameter
    next,     \* where run_task is: the task to poll next, or behind the last
    packets,  \* netSelect(): whether packets wait
    spent,    \* ms since the loop's last step
    hunger,   \* ms since the watchdog was fed
    passes    \* calls of doState since ptpd_Periodic_Handle was called

loop == <<Count, time, next, packets>>
measure == <<spent, hunger, passes>>
vars == <<timing, loop, measure>>

-----------------------------------------------------------------------------
Tasks == {List[i] : i \in DOMAIN List}

\* Where the loop is when the tasks have been polled.
AtPtp == Len(List) + 1
AtState == Len(List) + 2

Init ==
    /\ TimerInit
    /\ Count = [k \in Tasks |-> 0]
    /\ time = 0
    /\ next = 1
    /\ packets = FALSE
    /\ spent = 0 /\ hunger = 0 /\ passes = 0

-----------------------------------------------------------------------------
\* A bug: the subtraction is signed.
IsDueSigned(k) == time - Count[k] >= Period[k]

IsDue(k) == (time - Count[k]) % Wrap >= Period[k]

\* A bug: the task is counted as run when it is not.
Task_PollCounted ==
    /\ next \in DOMAIN List
    /\ LET k == List[next] IN
       /\ Count' = [Count EXCEPT ![k] = time]
       /\ hunger' = IF k = LED_CallBack /\ IsDue(k) THEN 0 ELSE hunger
    /\ next' = next + 1
    /\ spent' = 0
    /\ UNCHANGED <<timing, time, packets, passes>>

\* One turn of Task_Poll, whose parameter is the same for all tasks.
Task_Poll ==
    /\ next \in DOMAIN List
    /\ LET k == List[next] IN
       /\ Count' = IF IsDue(k) THEN [Count EXCEPT ![k] = time] ELSE Count
       /\ hunger' = IF k = LED_CallBack /\ IsDue(k) THEN 0 ELSE hunger
    /\ next' = next + 1
    /\ spent' = 0
    /\ UNCHANGED <<timing, time, packets, passes>>

\* LwIP_Periodic_Handle and the beginning of ptpd_Periodic_Handle.
ptpd_Periodic_Handle ==
    /\ next = AtPtp
    /\ catchAlarm
    /\ next' = AtState
    /\ passes' = 0
    /\ spent' = 0
    /\ UNCHANGED <<Count, time, packets, hunger>>

\* What a call of doState does to the timers: it asks for one, changes the
\* state of the port without asking, or initialises it.
AsksTimer == \E t \in Timers : timerExpired(t)

SetsTimer ==
    /\ Pending <= PendingMax
    /\ \E t \in Timers : timerStop(t) \/ \E i \in Intervals[t] : timerStart(t, i)

LeavesTimers == Running = {} /\ Pending <= PendingMax /\ UNCHANGED timing

\* doState, and again while packets wait.
doState ==
    /\ next = AtState
    /\ AsksTimer \/ SetsTimer \/ LeavesTimers \/ initTimer
    /\ packets' \in {packets, FALSE}
    /\ IF packets' THEN UNCHANGED <<next, time>> ELSE next' = 1 /\ time' = LocalTime
    /\ passes' = IF passes > PassMax THEN passes ELSE passes + 1
    /\ spent' = 0
    /\ UNCHANGED <<Count, hunger>>

Arrive ==
    /\ packets' = TRUE
    /\ UNCHANGED <<timing, Count, time, next, measure>>

\* SysTick.  The watchdog counts with it.
Tick ==
    /\ spent < StepMax /\ hunger < WatchdogLimit
    /\ Time_Update
    /\ spent' = spent + 1 /\ hunger' = hunger + 1
    /\ UNCHANGED <<loop, passes>>

\* The watchdog resets the processor.
Reset ==
    /\ hunger = WatchdogLimit
    /\ TimerReset
    /\ Count' = [k \in Tasks |-> 0]
    /\ time' = 0
    /\ next' = 1
    /\ packets' = FALSE
    /\ spent' = 0 /\ hunger' = 0 /\ passes' = 0

Loop == hunger < WatchdogLimit /\ (Task_Poll \/ ptpd_Periodic_Handle \/ doState)

Next == Loop \/ Arrive \/ Tick \/ Reset

Spec == Init /\ [][Next]_vars

\* The processor and SysTick run on.
FairSpec == Spec /\ WF_vars(Loop) /\ WF_vars(Tick)

-----------------------------------------------------------------------------
\* ptpd_Periodic_Handle has called doState more often than in an ordinary pass:
\* packets keep coming, or one waits that a port in PRE_MASTER never reads.
Flooded == passes > PassMax

TypeOK ==
    /\ TimerTypeOK
    /\ Count \in [Tasks -> 0 .. Wrap - 1] /\ time \in 0 .. Wrap - 1
    /\ next \in 1 .. AtState
    /\ packets \in BOOLEAN
    /\ spent \in 0 .. StepMax
    /\ hunger \in 0 .. WatchdogLimit
    /\ passes \in 0 .. PassMax + 1

\* The watchdog resets the processor only in a flood of packets that keeps
\* ptpd_Periodic_Handle in its loop: neither the wrap of LocalTime nor a pass
\* of ordinary length makes it bite.
BitesOnlyInFlood == hunger = WatchdogLimit => Flooded

\* Every task runs again and again, unless floods come again and again.
EveryTaskRuns ==
    \A k \in Tasks : []<><<next \in DOMAIN List /\ List[next] = k /\ IsDue(k)>>_Count
                    \/ []<>Flooded

Promised == INSTANCE TimerSet WITH
    running <- Running, expire <- {t \in Timers : expire[t]}, elapsed <- elapsed_ms > 0

\* The timers are what the state machine is modelled with: none but a running
\* timer expires, and none unless time has passed since one was last asked for,
\* although each call of timerExpired takes the time off all of them and
\* LocalTime wraps in between.
TimersAsPromised == Promised!Spec
=============================================================================
