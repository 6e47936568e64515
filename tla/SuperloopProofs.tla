--------------------------- MODULE SuperloopProofs --------------------------
(***************************************************************************)
(* The reckoning of the interval timers in the superloop, for any timers,  *)
(* any intervals and any task table.  The watchdog is what bounds the time *)
(* between two calls of catchAlarm: with it the theorems need LocalTime to *)
(* count twice as far as the watchdog waits, and nothing else.  Then the   *)
(* watchdog itself: how long a step of the loop may last for it not to     *)
(* bite.                                                                   *)
(***************************************************************************)
EXTENDS Superloop, TLAPS

\* The watchdog's 5 s in a count of 2^32 ms; each task is in the table once.
WideEnough ==
    /\ Wrap > 2 * WatchdogLimit
    /\ List \in Seq(Tasks)
    /\ \A i, j \in DOMAIN List : List[i] = List[j] => i = j

\* The watchdog was fed since the last catchAlarm.
FedSince == next # AtState /\ \E i \in DOMAIN List : i < next /\ List[i] = LED_CallBack

\* The time since the last catchAlarm is at most what the watchdog has waited,
\* and what it waited before it was fed.
CaughtUp ==
    /\ Since(old_localtime) <= hunger + WatchdogLimit
    /\ ~ FedSince => Since(old_localtime) <= hunger

LoopTypeOK == hunger \in 0 .. WatchdogLimit /\ next \in 1 .. AtState

IInv == TimerTypeOK /\ LoopTypeOK /\ CaughtUp /\ Reckoning

-----------------------------------------------------------------------------
(* Unsigned subtraction *)

LEMMA SinceValue ==
    ASSUME NEW now \in 0 .. Wrap - 1, NEW then \in 0 .. Wrap - 1
    PROVE  (now - then) % Wrap = IF now >= then THEN now - then ELSE now - then + Wrap
<1>1. Wrap \in Nat /\ Wrap > 1
  BY TimerAssumption
<1>2. CASE now >= then
  BY <1>1, <1>2
<1>3. CASE now < then
  BY <1>1, <1>3
<1> QED
  BY <1>2, <1>3, <1>1

LEMMA SinceType == TimerTypeOK => Since(old_localtime) \in 0 .. Wrap - 1
  BY SinceValue, TimerAssumption DEF TimerTypeOK, Since

\* Between two ticks nothing but catchAlarm changes it; a tick adds 1.
LEMMA SinceTick ==
    ASSUME TimerTypeOK, Time_Update, Since(old_localtime) < Wrap - 1
    PROVE  Since(old_localtime)' = Since(old_localtime) + 1
<1>1. Wrap \in Nat /\ Wrap > 1 /\ LocalTime \in 0 .. Wrap - 1 /\ old_localtime \in 0 .. Wrap - 1
  BY TimerAssumption DEF TimerTypeOK
<1>2. LocalTime' = IF LocalTime = Wrap - 1 THEN 0 ELSE LocalTime + 1
  <2>1. CASE LocalTime = Wrap - 1
    BY <1>1, <2>1 DEF Time_Update
  <2>2. CASE LocalTime # Wrap - 1
    BY <1>1, <2>2 DEF Time_Update
  <2> QED
    BY <2>1, <2>2
<1>3. old_localtime' = old_localtime
  BY DEF Time_Update
<1>4. LocalTime' \in 0 .. Wrap - 1
  BY <1>1, <1>2
<1>5. Since(old_localtime)' = IF LocalTime' >= old_localtime THEN LocalTime' - old_localtime
                              ELSE LocalTime' - old_localtime + Wrap
  BY <1>1, <1>3, <1>4, SinceValue DEF Since
<1>6. Since(old_localtime) = IF LocalTime >= old_localtime THEN LocalTime - old_localtime
                             ELSE LocalTime - old_localtime + Wrap
  BY <1>1, SinceValue DEF Since
<1> QED
  BY <1>1, <1>2, <1>5, <1>6

-----------------------------------------------------------------------------
(* Types and reckoning of each operation of the timers *)

LEMMA StartTypes == TimerInit => TimerTypeOK /\ Reckoning
  BY TimerAssumption DEF TimerInit, TimerTypeOK, Reckoning, Running

LEMMA ResetTypes == TimerReset => TimerTypeOK' /\ Reckoning' /\ Since(old_localtime)' = 0
<1> SUFFICES ASSUME TimerReset PROVE TimerTypeOK' /\ Reckoning' /\ Since(old_localtime)' = 0
  OBVIOUS
<1>1. TimerTypeOK' /\ Reckoning'
  BY TimerAssumption DEF TimerReset, TimerTypeOK, Reckoning, Running
<1>2. Since(old_localtime)' = 0
  <2>1. 0 \in 0 .. Wrap - 1
    BY TimerAssumption
  <2> QED
    BY <2>1, SinceValue DEF TimerReset, Since
<1> QED
  BY <1>1, <1>2

LEMMA TickReckons ==
    ASSUME TimerTypeOK, Reckoning, Time_Update, Since(old_localtime) < Wrap - 1
    PROVE  TimerTypeOK' /\ Reckoning'
<1>1. LocalTime' \in 0 .. Wrap - 1
  BY TimerAssumption DEF Time_Update, TimerTypeOK
<1>2. TimerTypeOK'
  BY <1>1 DEF Time_Update, TimerTypeOK, itimer
<1>3. Since(old_localtime)' = Since(old_localtime) + 1 /\ Since(old_localtime) \in Nat
  BY SinceTick, SinceType
<1>4. Running' = Running /\ Pending' = Pending + 1 /\ Pending \in Nat
  BY <1>3 DEF Time_Update, Running, itimer, Pending, TimerTypeOK
<1>5. ASSUME NEW t \in Running'
      PROVE  left'[t] > 0 /\ left'[t] = due'[t] - slack'[t] + Pending'
  <2>1. t \in Timers /\ t \in Running
    BY <1>4, <1>5 DEF Running
  <2>2. due'[t] = due[t] - 1 /\ left' = left /\ slack' = slack
    BY <2>1 DEF Time_Update, itimer
  <2> QED
    BY <1>4, <2>1, <2>2 DEF Reckoning, TimerTypeOK
<1> QED
  BY <1>2, <1>5 DEF Reckoning

LEMMA CatchReckons ==
    ASSUME TimerTypeOK, Reckoning, catchAlarm
    PROVE  TimerTypeOK' /\ Reckoning' /\ Since(old_localtime)' = 0
<1>1. Since(old_localtime) \in Nat /\ elapsed_ms \in Nat
  BY SinceType DEF TimerTypeOK
<1>2. Since(old_localtime)' = 0
  <2>1. LocalTime \in 0 .. Wrap - 1 /\ LocalTime' = LocalTime /\ old_localtime' = LocalTime
    BY DEF catchAlarm, TimerTypeOK
  <2> QED
    BY <2>1, SinceValue DEF Since
<1>3. TimerTypeOK'
  BY <1>1 DEF catchAlarm, TimerTypeOK, itimer
<1>4. Pending' = Pending /\ Running' = Running
  BY <1>1, <1>2 DEF catchAlarm, Pending, Running, itimer
<1> QED
  BY <1>2, <1>3, <1>4 DEF catchAlarm, Reckoning, itimer

LEMMA ExpiredReckons ==
    ASSUME TimerTypeOK, Reckoning, NEW t \in Timers, timerExpired(t)
    PROVE  /\ TimerTypeOK' /\ Reckoning'
           /\ Since(old_localtime)' = Since(old_localtime)
           /\ \A u \in Timers : expire'[u] /\ ~ expire[u] => due[u] <= slack[u]
<1>1. /\ Since(old_localtime) \in Nat /\ elapsed_ms \in Nat
      /\ Since(old_localtime)' = Since(old_localtime)
  BY SinceType DEF TimerTypeOK, timerExpired, Since
<1>2. Running' = Running /\ Pending' = Since(old_localtime)
  BY <1>1 DEF timerExpired, Running, Pending
<1>3. ASSUME NEW u \in Running
      PROVE  /\ u \in Timers /\ interval[u] \in Nat /\ interval[u] > 0
             /\ left[u] \in Int /\ due[u] \in Int /\ slack[u] \in Nat
             /\ left[u] = due[u] - slack[u] + elapsed_ms + Since(old_localtime)
  <2>1. u \in Timers /\ interval[u] \in Nat /\ interval[u] > 0
    BY DEF Running, TimerTypeOK
  <2>2. left[u] \in Int /\ due[u] \in Int /\ slack[u] \in Nat
    BY <2>1 DEF TimerTypeOK
  <2> QED
    BY <1>1, <2>1, <2>2 DEF Reckoning, Pending
<1>4. TimerTypeOK'
  <2>1. \A u \in Timers : Updated(u) \in Int
    BY <1>1 DEF Updated, Expiring, TimerTypeOK
  <2> QED
    BY <1>1, <2>1 DEF timerExpired, TimerTypeOK
<1>5. ASSUME NEW u \in Running'
      PROVE  left'[u] > 0 /\ left'[u] = due'[u] - slack'[u] + Pending'
  <2>1. u \in Running /\ u \in Timers
    BY <1>2, <1>3
  <2>2. CASE u \in Expiring
    <3>1. /\ left'[u] = interval[u] /\ due'[u] = interval[u]
          /\ slack'[u] = Since(old_localtime)
      BY <2>1, <2>2 DEF timerExpired, Updated
    <3> QED
      BY <1>1, <1>2, <1>3, <2>1, <3>1
  <2>3. CASE u \notin Expiring
    <3>1. left'[u] = left[u] - elapsed_ms /\ due'[u] = due[u] /\ slack'[u] = slack[u]
      BY <2>1, <2>3 DEF timerExpired, Updated
    <3>2. ~ (left[u] <= elapsed_ms)
      BY <2>1, <2>3 DEF Expiring
    <3> QED
      BY <1>1, <1>2, <1>3, <2>1, <3>1, <3>2
  <2> QED
    BY <2>2, <2>3
<1>6. ASSUME NEW u \in Timers, expire'[u], ~ expire[u]
      PROVE  due[u] <= slack[u]
  <2>1. u \in Running /\ left[u] <= elapsed_ms
    BY <1>6 DEF timerExpired, Expiring
  <2> QED
    BY <1>1, <1>3, <2>1
<1> QED
  BY <1>1, <1>4, <1>5, <1>6 DEF Reckoning

\* The operations that set or stop a timer leave the time alone.
LEMMA SetReckons ==
    ASSUME TimerTypeOK, Reckoning,
           \/ \E t \in Timers : timerStop(t)
           \/ \E t \in Timers : \E i \in Intervals[t] : timerStart(t, i)
    PROVE  /\ TimerTypeOK' /\ Reckoning'
           /\ Since(old_localtime)' = Since(old_localtime)
           /\ \A u \in Timers : expire'[u] => expire[u]
<1>1. /\ Since(old_localtime) \in Nat /\ elapsed_ms \in Nat /\ Pending \in Nat
  BY SinceType DEF TimerTypeOK, Pending
<1>2. ASSUME NEW t \in Timers, timerStop(t)
      PROVE  /\ TimerTypeOK' /\ Reckoning'
             /\ Since(old_localtime)' = Since(old_localtime)
             /\ \A u \in Timers : expire'[u] => expire[u]
  <2>1. Since(old_localtime)' = Since(old_localtime) /\ Pending' = Pending
    BY <1>2 DEF timerStop, Since, Pending
  <2>2. TimerTypeOK'
    BY <1>2 DEF timerStop, TimerTypeOK
  <2>3. ASSUME NEW u \in Running'
        PROVE  /\ u \in Running
               /\ left'[u] = left[u] /\ due'[u] = due[u] /\ slack'[u] = slack[u]
    BY <1>2 DEF timerStop, Running, TimerTypeOK
  <2> QED
    BY <1>2, <2>1, <2>2, <2>3 DEF Reckoning, timerStop
<1>3. ASSUME NEW t \in Timers, NEW i \in Intervals[t], timerStart(t, i)
      PROVE  /\ TimerTypeOK' /\ Reckoning'
             /\ Since(old_localtime)' = Since(old_localtime)
             /\ \A u \in Timers : expire'[u] => expire[u]
  <2>1. Since(old_localtime)' = Since(old_localtime) /\ Pending' = Pending
    BY <1>3 DEF timerStart, Since, Pending
  <2>2. i \in Nat
    BY TimerAssumption
  <2>3. TimerTypeOK'
    BY <1>1, <1>3, <2>2 DEF timerStart, TimerTypeOK
  <2>4. ASSUME NEW u \in Running'
        PROVE  left'[u] > 0 /\ left'[u] = due'[u] - slack'[u] + Pending'
    <3>1. CASE u = t
      <4>1. interval'[t] = i /\ left'[t] = i /\ due'[t] = i
            /\ slack'[t] = IF i = 0 THEN 0 ELSE Pending
        BY <1>3 DEF timerStart, TimerTypeOK
      <4>2. i > 0
        BY <2>2, <2>4, <3>1, <4>1 DEF Running
      <4> QED
        BY <1>1, <2>1, <2>2, <3>1, <4>1, <4>2
    <3>2. CASE u # t
      <4>1. /\ u \in Running
            /\ left'[u] = left[u] /\ due'[u] = due[u] /\ slack'[u] = slack[u]
        BY <1>3, <3>2 DEF timerStart, Running, TimerTypeOK
      <4> QED
        BY <2>1, <4>1 DEF Reckoning
    <3> QED
      BY <3>1, <3>2
  <2>5. \A u \in Timers : expire'[u] => expire[u]
    BY <1>3 DEF timerStart, TimerTypeOK
  <2> QED
    BY <2>1, <2>3, <2>4, <2>5 DEF Reckoning
<1> QED
  BY <1>2, <1>3

LEMMA IdleReckons ==
    ASSUME TimerTypeOK, Reckoning, initTimer \/ UNCHANGED timing
    PROVE  /\ TimerTypeOK' /\ Reckoning'
           /\ Since(old_localtime)' = Since(old_localtime)
           /\ expire' = expire
<1>1. CASE initTimer
  BY <1>1 DEF initTimer, TimerTypeOK, Reckoning, Running, Since, itimer
<1>2. CASE UNCHANGED timing
  BY <1>2 DEF timing, TimerTypeOK, Reckoning, Running, Since, Pending, itimer
<1> QED
  BY <1>1, <1>2

-----------------------------------------------------------------------------
(* The superloop *)

\* No timer expires more than what was pending early in this step.
NotEarly == \A t \in Timers : expire'[t] /\ ~ expire[t] => due[t] <= slack[t]

LEMMA InitInv == Init => IInv
<1> SUFFICES ASSUME Init PROVE IInv
  OBVIOUS
<1>1. TimerTypeOK /\ Reckoning
  BY StartTypes DEF Init
<1>2. Since(old_localtime) = 0
  <2>1. 0 \in 0 .. Wrap - 1
    BY TimerAssumption
  <2> QED
    BY <2>1, SinceValue DEF Init, TimerInit, Since
<1>3. LoopTypeOK
  BY SuperloopAssumption DEF Init, LoopTypeOK, AtState
<1>4. CaughtUp
  BY <1>2, SuperloopAssumption DEF Init, CaughtUp
<1> QED
  BY <1>1, <1>3, <1>4 DEF IInv

\* A turn of Task_Poll, which may feed the watchdog.
LEMMA PollInv ==
    ASSUME WideEnough, IInv, Task_Poll, hunger < WatchdogLimit
    PROVE  IInv' /\ expire' = expire
<1>1. TimerTypeOK' /\ Reckoning' /\ Since(old_localtime)' = Since(old_localtime)
      /\ expire' = expire
  BY IdleReckons DEF IInv, Task_Poll
<1>2. next \in 1 .. Len(List) /\ DOMAIN List = 1 .. Len(List) /\ Len(List) \in Nat
      /\ next' = next + 1
  BY DEF WideEnough, Task_Poll
<1>3. WatchdogLimit \in Nat /\ Since(old_localtime) \in Nat
  BY SuperloopAssumption, SinceType DEF IInv
<1>4. LoopTypeOK'
  BY <1>2, <1>3 DEF IInv, LoopTypeOK, Task_Poll, AtState
<1>5. FedSince => FedSince'
  BY <1>2 DEF FedSince, AtState
<1>6. CaughtUp'
  <2>1. CASE hunger' = hunger
    BY <1>1, <1>3, <1>5, <2>1 DEF IInv, CaughtUp
  <2>2. CASE hunger' # hunger
    <3>1. hunger' = 0 /\ List[next] = LED_CallBack
      BY <2>2 DEF Task_Poll
    <3>2. ~ FedSince
      BY <1>2, <3>1 DEF FedSince, WideEnough
    <3>3. FedSince'
      BY <1>2, <3>1 DEF FedSince, AtState
    <3> QED
      BY <1>1, <1>3, <3>1, <3>2, <3>3 DEF IInv, CaughtUp, LoopTypeOK
  <2> QED
    BY <2>1, <2>2
<1> QED
  BY <1>1, <1>4, <1>6 DEF IInv

LEMMA PeriodicInv ==
    ASSUME WideEnough, IInv, ptpd_Periodic_Handle
    PROVE  IInv' /\ expire' = expire
<1>1. TimerTypeOK' /\ Reckoning' /\ Since(old_localtime)' = 0
  BY CatchReckons DEF IInv, ptpd_Periodic_Handle
<1>2. LoopTypeOK'
  BY DEF IInv, LoopTypeOK, ptpd_Periodic_Handle, AtState, WideEnough
<1>3. CaughtUp'
  BY <1>1, <1>2, SuperloopAssumption DEF CaughtUp, LoopTypeOK
<1> QED
  BY <1>1, <1>2, <1>3 DEF IInv, ptpd_Periodic_Handle, catchAlarm, itimer

LEMMA StateInv ==
    ASSUME WideEnough, IInv, doState
    PROVE  IInv' /\ NotEarly
<1>1. /\ TimerTypeOK' /\ Reckoning' /\ Since(old_localtime)' = Since(old_localtime)
      /\ NotEarly
  <2>1. CASE AsksTimer
    BY <2>1, ExpiredReckons DEF IInv, AsksTimer, NotEarly
  <2>2. CASE SetsTimer
    BY <2>2, SetReckons DEF IInv, SetsTimer, NotEarly
  <2>3. CASE LeavesTimers \/ initTimer
    BY <2>3, IdleReckons DEF IInv, LeavesTimers, NotEarly
  <2> QED
    BY <2>1, <2>2, <2>3 DEF doState
<1>2. next' \in {next, 1} /\ next = AtState /\ hunger' = hunger
  BY DEF doState
<1>3. LoopTypeOK'
  BY <1>2 DEF IInv, LoopTypeOK, AtState, WideEnough
<1>4. ~ FedSince /\ ~ FedSince'
  BY <1>2 DEF FedSince, WideEnough
<1>5. CaughtUp'
  BY <1>1, <1>2, <1>4 DEF IInv, CaughtUp
<1> QED
  BY <1>1, <1>3, <1>5 DEF IInv

LEMMA TickInv ==
    ASSUME WideEnough, IInv, Tick
    PROVE  IInv' /\ expire' = expire
<1>1. /\ WatchdogLimit \in Nat /\ Wrap \in Nat /\ Since(old_localtime) \in Nat
      /\ hunger \in Nat /\ hunger < WatchdogLimit /\ Wrap > 2 * WatchdogLimit
  BY SuperloopAssumption, TimerAssumption, SinceType DEF IInv, LoopTypeOK, Tick, WideEnough
<1>2. /\ Since(old_localtime) <= hunger + WatchdogLimit
      /\ ~ FedSince => Since(old_localtime) <= hunger
  BY DEF IInv, CaughtUp
<1>3. Since(old_localtime) < Wrap - 1
  BY <1>1, <1>2
<1>4. TimerTypeOK' /\ Reckoning' /\ Since(old_localtime)' = Since(old_localtime) + 1
  BY <1>3, TickReckons, SinceTick DEF IInv, Tick
<1>5. hunger' = hunger + 1 /\ FedSince' = FedSince /\ next' = next
  BY DEF Tick, loop, FedSince
<1>6. LoopTypeOK'
  BY <1>1, <1>5 DEF IInv, LoopTypeOK
<1>7. CaughtUp'
  BY <1>1, <1>2, <1>4, <1>5 DEF CaughtUp
<1> QED
  BY <1>4, <1>6, <1>7 DEF IInv, Tick, Time_Update, itimer

LEMMA ResetInv ==
    ASSUME WideEnough, IInv, Reset
    PROVE  IInv' /\ NotEarly
<1>1. TimerTypeOK' /\ Reckoning' /\ Since(old_localtime)' = 0
  BY ResetTypes DEF Reset
<1>2. LoopTypeOK'
  BY SuperloopAssumption DEF Reset, LoopTypeOK, AtState, WideEnough
<1>3. CaughtUp'
  BY <1>1, <1>2, SuperloopAssumption DEF CaughtUp, LoopTypeOK
<1> QED
  BY <1>1, <1>2, <1>3 DEF IInv, NotEarly, Reset, TimerReset

LEMMA StillInv ==
    ASSUME IInv, UNCHANGED <<timing, next, hunger>>
    PROVE  IInv' /\ expire' = expire
<1>1. /\ TimerTypeOK' /\ Reckoning' /\ Since(old_localtime)' = Since(old_localtime)
      /\ expire' = expire
  BY IdleReckons DEF IInv
<1> QED
  BY <1>1 DEF IInv, LoopTypeOK, CaughtUp, FedSince

LEMMA StepInv == WideEnough /\ IInv /\ [Next]_vars => IInv' /\ NotEarly
<1> SUFFICES ASSUME WideEnough, IInv, [Next]_vars PROVE IInv' /\ NotEarly
  OBVIOUS
<1>1. expire' = expire => NotEarly
  BY DEF NotEarly
<1>2. CASE Loop
  BY <1>1, <1>2, PollInv, PeriodicInv, StateInv DEF Loop
<1>3. CASE Tick
  BY <1>1, <1>3, TickInv
<1>4. CASE Reset
  BY <1>4, ResetInv
<1>5. CASE Arrive \/ UNCHANGED vars
  BY <1>1, <1>5, StillInv DEF Arrive, vars, loop, measure
<1> QED
  BY <1>2, <1>3, <1>4, <1>5 DEF Next

-----------------------------------------------------------------------------
(* Types *)

LEMMA TypesInit == Init => TypeOK
<1> SUFFICES ASSUME Init PROVE TypeOK
  OBVIOUS
<1>1. TimerTypeOK /\ LoopTypeOK
  BY InitInv DEF IInv
<1>2. 0 \in 0 .. Wrap - 1 /\ 0 \in 0 .. StepMax /\ 0 \in 0 .. PassMax + 1
  BY TimerAssumption, SuperloopAssumption
<1> QED
  BY <1>1, <1>2 DEF Init, TypeOK, LoopTypeOK

LEMMA TypesStep == TypeOK /\ TimerTypeOK' /\ LoopTypeOK' /\ [Next]_vars => TypeOK'
<1> SUFFICES ASSUME TypeOK, TimerTypeOK', LoopTypeOK', [Next]_vars PROVE TypeOK'
  OBVIOUS
<1>0. 0 \in 0 .. Wrap - 1 /\ 0 \in 0 .. StepMax /\ 0 \in 0 .. PassMax + 1
  BY TimerAssumption, SuperloopAssumption
<1>1. ASSUME Task_Poll PROVE TypeOK'
  <2>1. Count' \in [Tasks -> 0 .. Wrap - 1]
    BY <1>1 DEF Task_Poll, TypeOK
  <2> QED
    BY <1>0, <1>1, <2>1 DEF Task_Poll, TypeOK, LoopTypeOK
<1>2. ASSUME ptpd_Periodic_Handle PROVE TypeOK'
  BY <1>0, <1>2 DEF ptpd_Periodic_Handle, TypeOK, LoopTypeOK
<1>3. ASSUME doState PROVE TypeOK'
  <2>1. time' \in 0 .. Wrap - 1
    BY <1>3 DEF doState, TypeOK, TimerTypeOK
  <2>2. passes' \in 0 .. PassMax + 1
    BY <1>3, SuperloopAssumption DEF doState, TypeOK
  <2>3. packets' \in BOOLEAN /\ Count' = Count /\ spent' = 0
    BY <1>3 DEF doState, TypeOK
  <2> QED
    BY <1>0, <2>1, <2>2, <2>3 DEF TypeOK, LoopTypeOK
<1>4. ASSUME Tick PROVE TypeOK'
  <2>1. spent' \in 0 .. StepMax
    BY <1>4, SuperloopAssumption DEF Tick, TypeOK
  <2> QED
    BY <1>4, <2>1 DEF Tick, loop, TypeOK, LoopTypeOK
<1>5. ASSUME Reset PROVE TypeOK'
  BY <1>0, <1>5 DEF Reset, TypeOK, LoopTypeOK
<1>6. ASSUME Arrive \/ UNCHANGED vars PROVE TypeOK'
  BY <1>6 DEF Arrive, vars, loop, measure, TypeOK, LoopTypeOK
<1> QED
  BY <1>1, <1>2, <1>3, <1>4, <1>5, <1>6 DEF Next, Loop

-----------------------------------------------------------------------------
(* The theorems *)

\* The timers, the task table and the watchdog keep their types.
THEOREM SuperloopTypeCorrect == WideEnough => (Spec => []TypeOK)
<1>1. SUFFICES ASSUME WideEnough PROVE Spec => []TypeOK
  OBVIOUS
<1>2. IInv /\ [Next]_vars => IInv' /\ TimerTypeOK' /\ LoopTypeOK'
  BY <1>1, StepInv DEF IInv
<1> QED
  BY <1>2, InitInv, TypesInit, TypesStep, PTL DEF Spec

\* The time SysTick counts reaches every timer, whole and once, whichever
\* timers doState asks for and however long a pass lasts.
THEOREM ReckoningCorrect == WideEnough => (Spec => []Reckoning)
<1>1. IInv => Reckoning
  BY DEF IInv
<1>2. SUFFICES ASSUME WideEnough PROVE Spec => []Reckoning
  OBVIOUS
<1>3. IInv /\ [Next]_vars => IInv'
  BY <1>2, StepInv
<1> QED
  BY <1>1, <1>3, InitInv, PTL DEF Spec

\* A timer expires before its time by no more than what was pending when it
\* began.
THEOREM NotEarlyCorrect == WideEnough => (Spec => ExpiresNotEarly)
<1>1. SUFFICES ASSUME WideEnough PROVE Spec => ExpiresNotEarly
  OBVIOUS
<1>2. IInv /\ [Next]_vars => IInv' /\ [NotEarly]_timing
  BY <1>1, StepInv
<1> QED
  BY <1>2, InitInv, PTL DEF Spec, ExpiresNotEarly, NotEarly

-----------------------------------------------------------------------------
(* The timers implement TimerSet *)

\* The timers whose expiry has not been asked for.
Expired == {t \in Timers : expire[t]}

LEMMA SamePromise ==
    ASSUME UNCHANGED itimer, UNCHANGED elapsed_ms
    PROVE  UNCHANGED Promised!vars
BY DEF itimer, Promised!vars, Running

\* Time reaches the timers.
LEMMA CatchPromised ==
    ASSUME TimerTypeOK, catchAlarm
    PROVE  Promised!Pass
<1>1. Since(old_localtime) \in Nat /\ elapsed_ms \in Nat
  BY SinceType DEF TimerTypeOK
<1>2. elapsed_ms' = elapsed_ms + Since(old_localtime) /\ UNCHANGED <<interval, expire>>
  BY DEF catchAlarm, itimer
<1>3. (elapsed_ms > 0)' \in {elapsed_ms > 0, TRUE}
  <2>1. elapsed_ms > 0 => elapsed_ms' > 0
    BY <1>1, <1>2
  <2>2. CASE elapsed_ms' > 0
    <3>1. (elapsed_ms > 0)' = TRUE
      BY <2>2
    <3> QED
      BY <3>1
  <2>3. CASE ~ (elapsed_ms' > 0)
    <3>1. (elapsed_ms > 0)' = FALSE /\ (elapsed_ms > 0) = FALSE
      BY <2>1, <2>3
    <3> QED
      BY <3>1
  <2> QED
    BY <2>2, <2>3
<1>4. Running' = Running /\ Expired' = Expired
  BY <1>2 DEF Running, Expired
<1> QED
  BY <1>3, <1>4 DEF Promised!Pass, Expired

\* A timer is asked for: whatever expires was running, and only because time has
\* passed, since each running timer has some left.
LEMMA ExpiredPromised ==
    ASSUME TimerTypeOK, Reckoning, NEW t \in Timers, timerExpired(t)
    PROVE  Promised!Ask(t)
<1>1. Running' = Running
  BY DEF timerExpired, Running
<1>2. (elapsed_ms > 0)' = FALSE
  BY DEF timerExpired
<1>3. Expiring \in SUBSET Running
  BY DEF Expiring
<1>4. ASSUME NEW u \in Expiring PROVE elapsed_ms > 0
  <2>1. u \in Running /\ u \in Timers /\ left[u] <= elapsed_ms
    BY DEF Expiring, Running
  <2>2. left[u] > 0 /\ left[u] \in Int /\ elapsed_ms \in Nat
    BY <2>1 DEF Reckoning, TimerTypeOK
  <2> QED
    BY <2>1, <2>2
<1>5. Expired' = (Expired \cup Expiring) \ {t}
  BY <1>3 DEF timerExpired, Expired, Running
<1> QED
  BY <1>1, <1>2, <1>3, <1>4, <1>5 DEF Promised!Ask, Expired

LEMMA StartPromised ==
    ASSUME TimerTypeOK, NEW t \in Timers, NEW i \in Intervals[t], timerStart(t, i)
    PROVE  Promised!Start(t)
<1>1. i \in Nat /\ elapsed_ms' = elapsed_ms
  BY TimerAssumption DEF timerStart
<1>2. /\ interval' = [interval EXCEPT ![t] = i] /\ expire' = [expire EXCEPT ![t] = FALSE]
      /\ interval \in [Timers -> Nat] /\ expire \in [Timers -> BOOLEAN]
  BY DEF timerStart, TimerTypeOK
<1>3. CASE i = 0
  <2>1. Running' = Running \ {t}
    BY <1>2, <1>3 DEF Running
  <2>2. Expired' = Expired \ {t}
    BY <1>2 DEF Expired
  <2> QED
    BY <1>1, <2>1, <2>2 DEF Promised!Start, Expired
<1>4. CASE i > 0
  <2>1. Running' = Running \cup {t}
    BY <1>2, <1>4 DEF Running
  <2>2. Expired' = Expired \ {t}
    BY <1>2 DEF Expired
  <2> QED
    BY <1>1, <2>1, <2>2 DEF Promised!Start, Expired
<1> QED
  BY <1>1, <1>3, <1>4

LEMMA StopPromised ==
    ASSUME TimerTypeOK, NEW t \in Timers, timerStop(t)
    PROVE  Promised!Stop(t)
<1>1. /\ interval' = [interval EXCEPT ![t] = 0] /\ UNCHANGED <<expire, elapsed_ms>>
      /\ interval \in [Timers -> Nat]
  BY DEF timerStop, TimerTypeOK
<1>2. Running' = Running \ {t}
  BY <1>1 DEF Running
<1> QED
  BY <1>1, <1>2 DEF Promised!Stop

\* doInit empties what has passed; the reset empties everything.
LEMMA ClearPromised == initTimer => Promised!Clear
<1> SUFFICES ASSUME initTimer PROVE Promised!Clear
  OBVIOUS
<1>1. Running = {} /\ (elapsed_ms > 0)' = FALSE /\ UNCHANGED <<interval, expire>>
  BY DEF initTimer, itimer
<1>2. Running' = Running
  BY <1>1 DEF Running
<1> QED
  BY <1>1, <1>2 DEF Promised!Clear

LEMMA InitPromised == TimerInit => Promised!Init
  BY DEF TimerInit, Promised!Init, Running

LEMMA ResetPromised == TimerReset => Promised!Reset
  BY DEF TimerReset, Promised!Reset, Promised!Init, Running

LEMMA StatePromised == IInv /\ doState => [Promised!Next]_(Promised!vars)
<1> SUFFICES ASSUME IInv, doState PROVE [Promised!Next]_(Promised!vars)
  OBVIOUS
<1>1. TimerTypeOK /\ Reckoning
  BY DEF IInv
<1>2. CASE AsksTimer
  BY <1>1, <1>2, ExpiredPromised DEF AsksTimer, Promised!Next
<1>3. CASE SetsTimer
  BY <1>1, <1>3, StartPromised, StopPromised DEF SetsTimer, Promised!Next
<1>4. CASE LeavesTimers
  BY <1>4, SamePromise DEF LeavesTimers, timing
<1>5. CASE initTimer
  BY <1>5, ClearPromised DEF Promised!Next
<1> QED
  BY <1>2, <1>3, <1>4, <1>5 DEF doState

LEMMA StepPromised == IInv /\ [Next]_vars => [Promised!Next]_(Promised!vars)
<1> SUFFICES ASSUME IInv, [Next]_vars PROVE [Promised!Next]_(Promised!vars)
  OBVIOUS
<1>1. CASE Task_Poll \/ Arrive \/ UNCHANGED vars
  BY <1>1, SamePromise DEF Task_Poll, Arrive, vars, timing
<1>2. CASE ptpd_Periodic_Handle
  BY <1>2, CatchPromised DEF IInv, ptpd_Periodic_Handle, Promised!Next
<1>3. CASE doState
  BY <1>3, StatePromised
<1>4. CASE Tick
  BY <1>4, SamePromise DEF Tick, Time_Update
<1>5. CASE Reset
  BY <1>5, ResetPromised DEF Reset, Promised!Next
<1> QED
  BY <1>1, <1>2, <1>3, <1>4, <1>5 DEF Next, Loop

\* For any timers, intervals and widths: what PtpPort takes the timers for is
\* what timer.c makes of the milliseconds.
THEOREM TimersPromisedCorrect == WideEnough => (Spec => TimersAsPromised)
<1>1. SUFFICES ASSUME WideEnough PROVE Spec => TimersAsPromised
  OBVIOUS
<1>2. IInv /\ [Next]_vars => IInv' /\ [Promised!Next]_(Promised!vars)
  BY <1>1, StepInv, StepPromised
<1>3. Init => Promised!Init
  BY InitPromised DEF Init
<1> QED
  BY <1>2, <1>3, InitInv, PTL DEF Spec, TimersAsPromised, Promised!Spec

-----------------------------------------------------------------------------
(* The watchdog *)

\* What so many steps of the loop last at most.
Steps(n) == n * StepMax

\* The task that feeds the watchdog, every 500 ms, is polled in time for its 5 s
\* however two passes of the loop fall: the period, a pass, the turns of Task_Poll
\* before the one that feeds.  LocalTime counts further than that.
FedInTime ==
    /\ List \in Seq(Tasks)
    /\ Period[LED_CallBack] \in Nat \ {0}
    /\ Period[LED_CallBack] + Steps(2 * Len(List) + 1 + PassMax) <= WatchdogLimit
    /\ Wrap > WatchdogLimit + Steps(Len(List))

\* What passed since Task_Poll's parameter was read, and, by that parameter, since
\* the watchdog's task last ran.
Lag == (LocalTime - time) % Wrap
Age == (time - Count[LED_CallBack]) % Wrap

\* The watchdog's task has been polled in this pass.
Polled == \E i \in DOMAIN List : i < next /\ List[i] = LED_CallBack

WatchTypeOK ==
    /\ LocalTime \in 0 .. Wrap - 1 /\ time \in 0 .. Wrap - 1
    /\ Count \in [Tasks -> 0 .. Wrap - 1]
    /\ next \in 1 .. AtState
    /\ spent \in 0 .. StepMax
    /\ hunger \in 0 .. WatchdogLimit
    /\ passes \in 0 .. PassMax + 1

\* The task counts from when its pass began, the watchdog from when it was fed.
BothCounts ==
    /\ hunger <= Age + Lag
    /\ Age + Lag <= hunger + Steps(Len(List))

\* How old the parameter is, by where the loop is.
Prompt ==
    /\ next # AtState => Lag <= Steps(next - 1) + spent
    /\ next = AtState /\ ~ Flooded => Lag <= Steps(Len(List) + 1 + passes) + spent

\* The task is not due when it has been polled, and not overdue by more than the
\* last pass when it has not.
NotOverdue ==
    /\ Polled => Age < Period[LED_CallBack]
    /\ ~ Polled /\ ~ Flooded => Age < Period[LED_CallBack] + Steps(Len(List) + 1 + passes)

WatchInv == WatchTypeOK /\ BothCounts /\ Prompt /\ NotOverdue

LEMMA StepsSum ==
    /\ Steps(0) = 0 /\ Steps(1) = StepMax
    /\ \A m, n \in Nat : Steps(m) \in Nat /\ Steps(m + n) = Steps(m) + Steps(n)
BY SuperloopAssumption DEF Steps

LEMMA StepsGrow ==
    ASSUME NEW m \in Nat, NEW n \in Nat, m <= n
    PROVE  Steps(m) <= Steps(n) /\ Steps(m) \in Nat /\ Steps(n) \in Nat
<1>1. n - m \in Nat /\ m + (n - m) = n
  OBVIOUS
<1>2. Steps(m) \in Nat /\ Steps(n - m) \in Nat /\ Steps(m + (n - m)) = Steps(m) + Steps(n - m)
  BY <1>1, StepsSum
<1> QED
  BY <1>1, <1>2

LEMMA StepsNext ==
    ASSUME NEW n \in Nat
    PROVE  Steps(n) \in Nat /\ Steps(n + 1) = Steps(n) + StepMax
BY StepsSum

\* Unsigned differences add up while they stay below the wrap.
LEMMA SinceSum ==
    ASSUME NEW a \in 0 .. Wrap - 1, NEW b \in 0 .. Wrap - 1, NEW c \in 0 .. Wrap - 1,
           ((a - b) % Wrap) + ((b - c) % Wrap) < Wrap
    PROVE  (a - c) % Wrap = ((a - b) % Wrap) + ((b - c) % Wrap)
<1>1. Wrap \in Nat /\ Wrap > 1
  BY TimerAssumption
<1>2. (a - b) % Wrap = IF a >= b THEN a - b ELSE a - b + Wrap
  BY SinceValue
<1>3. (b - c) % Wrap = IF b >= c THEN b - c ELSE b - c + Wrap
  BY SinceValue
<1>4. (a - c) % Wrap = IF a >= c THEN a - c ELSE a - c + Wrap
  BY SinceValue
<1> QED
  BY <1>1, <1>2, <1>3, <1>4

\* A tick adds 1 to an unsigned difference that has not reached the wrap.
LEMMA SinceNext ==
    ASSUME NEW a \in 0 .. Wrap - 1, NEW b \in 0 .. Wrap - 1, (a - b) % Wrap < Wrap - 1
    PROVE  /\ (a + 1) % Wrap \in 0 .. Wrap - 1
           /\ (((a + 1) % Wrap) - b) % Wrap = ((a - b) % Wrap) + 1
<1>1. Wrap \in Nat /\ Wrap > 1
  BY TimerAssumption
<1>2. (a + 1) % Wrap = IF a = Wrap - 1 THEN 0 ELSE a + 1
  <2>1. CASE a = Wrap - 1
    BY <1>1, <2>1
  <2>2. CASE a # Wrap - 1
    BY <1>1, <2>2
  <2> QED
    BY <2>1, <2>2
<1>3. (a + 1) % Wrap \in 0 .. Wrap - 1
  BY <1>1, <1>2
<1>4. (((a + 1) % Wrap) - b) % Wrap = IF (a + 1) % Wrap >= b THEN ((a + 1) % Wrap) - b
                                      ELSE ((a + 1) % Wrap) - b + Wrap
  BY <1>3, SinceValue
<1>5. (a - b) % Wrap = IF a >= b THEN a - b ELSE a - b + Wrap
  BY SinceValue
<1> QED
  BY <1>1, <1>2, <1>3, <1>4, <1>5

\* What the watchdog's lemmas have in common.
LEMMA WatchFacts ==
    ASSUME FedInTime, WatchTypeOK
    PROVE  /\ Len(List) \in Nat /\ DOMAIN List = 1 .. Len(List)
           /\ LED_CallBack \in Tasks /\ Count[LED_CallBack] \in 0 .. Wrap - 1
           /\ Lag \in Nat /\ Age \in Nat /\ Wrap \in Nat /\ Wrap > 1
           /\ WatchdogLimit \in Nat /\ StepMax \in Nat /\ PassMax \in Nat
           /\ Steps(Len(List)) \in Nat
<1>1. Len(List) \in Nat /\ DOMAIN List = 1 .. Len(List)
  BY DEF FedInTime
<1>2. LED_CallBack \in Tasks /\ Count[LED_CallBack] \in 0 .. Wrap - 1
  BY SuperloopAssumption DEF Tasks, WatchTypeOK
<1>3. Wrap \in Nat /\ Wrap > 1 /\ {WatchdogLimit, StepMax, PassMax} \subseteq Nat
  BY TimerAssumption, SuperloopAssumption
<1>4. Lag \in Nat /\ Age \in Nat
  BY <1>2, <1>3, SinceValue DEF Lag, Age, WatchTypeOK
<1> QED
  BY <1>1, <1>2, <1>3, <1>4, StepsSum

\* After a reset as at the start.
LEMMA WatchStart ==
    /\ FedInTime /\ Init => WatchInv
    /\ FedInTime /\ Reset => WatchInv'
<1>1. FedInTime => /\ 0 \in 0 .. Wrap - 1 /\ 0 \in 0 .. StepMax /\ 0 \in 0 .. WatchdogLimit
                   /\ 0 \in 0 .. PassMax + 1 /\ 1 \in 1 .. AtState /\ (0 - 0) % Wrap = 0
                   /\ Len(List) \in Nat /\ LED_CallBack \in Tasks /\ 1 # AtState
  <2> SUFFICES ASSUME FedInTime
               PROVE  /\ 0 \in 0 .. Wrap - 1 /\ 0 \in 0 .. StepMax /\ 0 \in 0 .. WatchdogLimit
                      /\ 0 \in 0 .. PassMax + 1 /\ 1 \in 1 .. AtState /\ (0 - 0) % Wrap = 0
                      /\ Len(List) \in Nat /\ LED_CallBack \in Tasks /\ 1 # AtState
    OBVIOUS
  <2>1. Len(List) \in Nat
    BY DEF FedInTime
  <2>2. 0 \in 0 .. Wrap - 1 /\ 0 \in 0 .. StepMax /\ 0 \in 0 .. WatchdogLimit
        /\ 0 \in 0 .. PassMax + 1
    BY TimerAssumption, SuperloopAssumption
  <2>3. (0 - 0) % Wrap = 0
    BY <2>2, SinceValue
  <2> QED
    BY <2>1, <2>2, <2>3, SuperloopAssumption DEF AtState, Tasks
<1>2. FedInTime => /\ Steps(1 - 1) = 0 /\ Steps(Len(List)) \in Nat
                   /\ Steps(Len(List) + 1 + 0) \in Nat
                   /\ Period[LED_CallBack] \in Nat \ {0}
  <2>1. Steps(0) = 0 /\ \A n \in Nat : Steps(n) \in Nat
    BY StepsSum
  <2> QED
    BY <1>1, <2>1 DEF FedInTime
<1>3. ASSUME FedInTime, Init PROVE WatchInv
  <2>1. /\ LocalTime = 0 /\ time = 0 /\ Count = [k \in Tasks |-> 0] /\ next = 1
        /\ spent = 0 /\ hunger = 0 /\ passes = 0
    BY <1>3 DEF Init, TimerInit
  <2>2. Lag = 0 /\ Age = 0
    BY <1>1, <1>3, <2>1 DEF Lag, Age
  <2> QED
    BY <1>1, <1>2, <1>3, <2>1, <2>2
       DEF WatchInv, WatchTypeOK, BothCounts, Prompt, NotOverdue
<1>4. ASSUME FedInTime, Reset PROVE WatchInv'
  <2>1. /\ LocalTime' = 0 /\ time' = 0 /\ Count' = [k \in Tasks |-> 0] /\ next' = 1
        /\ spent' = 0 /\ hunger' = 0 /\ passes' = 0
    BY <1>4 DEF Reset, TimerReset
  <2>2. Lag' = 0 /\ Age' = 0
    BY <1>1, <1>4, <2>1 DEF Lag, Age
  <2> QED
    BY <1>1, <1>2, <1>4, <2>1, <2>2
       DEF WatchInv, WatchTypeOK, BothCounts, Prompt, NotOverdue
<1> QED
  BY <1>3, <1>4

\* Outside a flood the watchdog has not waited as long as it would.
LEMMA WatchBites == FedInTime /\ WatchInv => BitesOnlyInFlood
<1> SUFFICES ASSUME FedInTime, WatchInv, ~ Flooded PROVE hunger # WatchdogLimit
  BY DEF BitesOnlyInFlood
<1>1. /\ Len(List) \in Nat /\ Lag \in Nat /\ Age \in Nat /\ DOMAIN List = 1 .. Len(List)
      /\ WatchdogLimit \in Nat /\ StepMax \in Nat /\ PassMax \in Nat
      /\ hunger \in Nat /\ spent \in 0 .. StepMax /\ passes \in 0 .. PassMax
      /\ next \in 1 .. Len(List) + 2 /\ hunger <= Age + Lag
      /\ Period[LED_CallBack] \in Nat
  <2>1. /\ WatchTypeOK /\ hunger <= Age + Lag /\ Period[LED_CallBack] \in Nat
        /\ next \in 1 .. Len(List) + 2
    BY DEF WatchInv, WatchTypeOK, BothCounts, FedInTime, AtState
  <2>2. /\ Len(List) \in Nat /\ Lag \in Nat /\ Age \in Nat /\ DOMAIN List = 1 .. Len(List)
        /\ WatchdogLimit \in Nat /\ StepMax \in Nat /\ PassMax \in Nat
    BY <2>1, WatchFacts
  <2>3. hunger \in Nat /\ spent \in 0 .. StepMax /\ passes \in 0 .. PassMax
    BY <2>1, <2>2 DEF WatchTypeOK, Flooded
  <2> QED
    BY <2>1, <2>2, <2>3
<1>2. PICK led \in 1 .. Len(List) : List[led] = LED_CallBack
  BY <1>1, SuperloopAssumption
<1>3. Steps(Len(List) + 1 + PassMax) + Steps(Len(List))
      = Steps(2 * Len(List) + 1 + PassMax)
  <2>1. Len(List) + 1 + PassMax \in Nat
        /\ (Len(List) + 1 + PassMax) + Len(List) = 2 * Len(List) + 1 + PassMax
    BY <1>1
  <2>2. Steps((Len(List) + 1 + PassMax) + Len(List))
        = Steps(Len(List) + 1 + PassMax) + Steps(Len(List))
    BY <1>1, <2>1, StepsSum
  <2> QED
    BY <2>1, <2>2
<1>4. Period[LED_CallBack] + (Steps(Len(List) + 1 + PassMax) + Steps(Len(List)))
      <= WatchdogLimit
  BY <1>3 DEF FedInTime
<1>5. /\ Steps(Len(List) + 1 + passes) <= Steps(Len(List) + 1 + PassMax)
      /\ Steps(Len(List) + 1 + passes) \in Nat /\ Steps(Len(List) + 1 + PassMax) \in Nat
      /\ Steps(Len(List)) \in Nat /\ StepMax <= Steps(Len(List))
      /\ Steps(Len(List) + 1) <= Steps(Len(List) + 1 + PassMax)
      /\ Steps(Len(List) + 1) \in Nat
      /\ Steps(Len(List) + 1) = Steps(Len(List)) + StepMax
  <2>1. /\ Len(List) + 1 + passes \in Nat /\ Len(List) + 1 + PassMax \in Nat
        /\ Len(List) + 1 \in Nat /\ 1 \in Nat
        /\ Len(List) + 1 + passes <= Len(List) + 1 + PassMax
        /\ Len(List) + 1 <= Len(List) + 1 + PassMax /\ 1 <= Len(List)
    BY <1>1, <1>2
  <2>2. /\ Steps(Len(List) + 1 + passes) <= Steps(Len(List) + 1 + PassMax)
        /\ Steps(Len(List) + 1 + passes) \in Nat /\ Steps(Len(List) + 1 + PassMax) \in Nat
    BY <2>1, StepsGrow
  <2>3. Steps(Len(List) + 1) <= Steps(Len(List) + 1 + PassMax) /\ Steps(Len(List) + 1) \in Nat
    BY <2>1, StepsGrow
  <2>4. Steps(1) <= Steps(Len(List)) /\ Steps(Len(List)) \in Nat /\ Steps(1) = StepMax
    BY <1>1, <2>1, StepsGrow, StepsSum
  <2>5. Steps(Len(List) + 1) = Steps(Len(List)) + StepMax
    BY <1>1, StepsNext
  <2> QED
    BY <2>2, <2>3, <2>4, <2>5
<1> DEFINE turns == Steps(Len(List))
           turn == Steps(Len(List) + 1)
           sofar == Steps(Len(List) + 1 + passes)
           pass == Steps(Len(List) + 1 + PassMax)
           period == Period[LED_CallBack]
<1>6. /\ turns \in Nat /\ turn \in Nat /\ sofar \in Nat /\ pass \in Nat /\ period \in Nat
      /\ StepMax \in Nat /\ spent \in Nat /\ Age \in Nat /\ Lag \in Nat
      /\ hunger \in Nat /\ WatchdogLimit \in Nat
  BY <1>1, <1>5
<1>7. /\ sofar <= pass /\ StepMax <= turns /\ turn <= pass /\ turn = turns + StepMax
      /\ spent <= StepMax
  BY <1>1, <1>5
<1>8. ASSUME NEW overdue \in Nat, NEW late \in Nat, overdue + late <= pass + turns,
             Age < period + overdue, Lag <= late
      PROVE  hunger # WatchdogLimit
  <2>1. hunger <= Age + Lag /\ period + (pass + turns) <= WatchdogLimit
    BY <1>1, <1>4
  <2> HIDE DEF turns, turn, sofar, pass, period
  <2>2. hunger < period + (overdue + late)
    BY <1>6, <1>8, <2>1
  <2>3. period + (overdue + late) <= WatchdogLimit
    BY <1>6, <1>8, <2>1
  <2> QED
    BY <1>6, <2>2, <2>3
<1>9. CASE next = AtState
  <2>1. Polled
    BY <1>1, <1>2, <1>9 DEF Polled, AtState
  <2>2. Age < period /\ Lag <= sofar + spent
    BY <1>9, <2>1 DEF WatchInv, NotOverdue, Prompt
  <2> HIDE DEF turns, turn, sofar, pass, period
  <2>3. Age < period + 0 /\ Lag <= pass + turns
    BY <1>6, <1>7, <2>2
  <2>4. pass + turns \in Nat /\ 0 + (pass + turns) <= pass + turns
    BY <1>6
  <2> QED
    BY <1>8, <2>3, <2>4
<1>10. CASE next # AtState /\ Polled
  <2>1. Age < period /\ Lag <= Steps(next - 1) + spent
    BY <1>10 DEF WatchInv, NotOverdue, Prompt
  <2>2. next - 1 \in Nat /\ next - 1 <= Len(List)
    BY <1>1, <1>10 DEF AtState
  <2>3. Steps(next - 1) <= turns /\ Steps(next - 1) \in Nat
    BY <1>1, <2>2, StepsGrow
  <2> HIDE DEF turns, turn, sofar, pass, period
  <2>4. Lag <= turns + StepMax
    BY <1>6, <1>7, <2>1, <2>3
  <2>5. Age < period + 0 /\ Lag <= pass /\ 0 + pass <= pass + turns
    BY <1>6, <1>7, <2>1, <2>4
  <2> QED
    BY <1>6, <1>8, <2>5
<1>11. CASE next # AtState /\ ~ Polled
  <2>1. Age < period + sofar /\ Lag <= Steps(next - 1) + spent
    BY <1>11 DEF WatchInv, NotOverdue, Prompt
  <2>2. next - 1 \in Nat /\ next <= Len(List) /\ next \in Nat /\ (next - 1) + 1 = next
    BY <1>1, <1>2, <1>11 DEF Polled
  <2>3. Steps((next - 1) + 1) = Steps(next - 1) + StepMax /\ Steps(next - 1) \in Nat
    BY <2>2, StepsNext
  <2>4. Steps(next) <= turns
    BY <1>1, <2>2, StepsGrow
  <2>5. Steps(next - 1) + StepMax <= turns
    BY <2>2, <2>3, <2>4
  <2> HIDE DEF turns, turn, sofar, pass, period
  <2>6. Lag <= turns
    BY <1>6, <1>7, <2>1, <2>3, <2>5
  <2>7. Age < period + pass
    BY <1>6, <1>7, <2>1
  <2>8. pass + turns <= pass + turns
    BY <1>6
  <2> QED
    BY <1>6, <1>8, <2>6, <2>7, <2>8
<1> QED
  BY <1>9, <1>10, <1>11

\* When all tasks have been polled, the watchdog's has.
LEMMA PolledAll == FedInTime /\ next \in Nat /\ next > Len(List) => Polled
<1> SUFFICES ASSUME FedInTime, next \in Nat, next > Len(List) PROVE Polled
  OBVIOUS
<1>1. Len(List) \in Nat /\ DOMAIN List = 1 .. Len(List)
  BY DEF FedInTime
<1>2. PICK led \in 1 .. Len(List) : List[led] = LED_CallBack
  BY <1>1, SuperloopAssumption
<1> QED
  BY <1>1, <1>2 DEF Polled

LEMMA WatchPoll ==
    ASSUME FedInTime, WatchInv, Task_Poll
    PROVE  WatchInv'
<1>1. /\ next \in 1 .. Len(List) /\ next' = next + 1 /\ spent' = 0
      /\ time' = time /\ LocalTime' = LocalTime /\ passes' = passes
      /\ Len(List) \in Nat /\ DOMAIN List = 1 .. Len(List)
      /\ hunger' = IF List[next] = LED_CallBack /\ IsDue(List[next]) THEN 0 ELSE hunger
  BY DEF FedInTime, Task_Poll, timing
<1>2. Count' = IF IsDue(List[next]) THEN [Count EXCEPT ![List[next]] = time] ELSE Count
  BY DEF Task_Poll
<1>3. /\ WatchTypeOK /\ BothCounts /\ Prompt /\ NotOverdue
      /\ Lag \in Nat /\ Age \in Nat /\ StepMax \in Nat /\ Steps(Len(List)) \in Nat
      /\ WatchdogLimit \in Nat /\ PassMax \in Nat /\ LED_CallBack \in Tasks
      /\ Period[LED_CallBack] \in Nat \ {0} /\ TimerAssumption
  BY WatchFacts, TimerAssumption DEF WatchInv, FedInTime
<1>4. hunger \in 0 .. WatchdogLimit /\ spent \in 0 .. StepMax /\ passes \in 0 .. PassMax + 1
      /\ time \in 0 .. Wrap - 1 /\ Count \in [Tasks -> 0 .. Wrap - 1]
  BY <1>3 DEF WatchTypeOK
<1>5. WatchTypeOK'
  <2>1. Count' \in [Tasks -> 0 .. Wrap - 1]
    BY <1>2, <1>4
  <2>2. next' \in 1 .. AtState
    BY <1>1 DEF AtState
  <2>3. hunger' \in 0 .. WatchdogLimit /\ spent' \in 0 .. StepMax
    BY <1>1, <1>3, <1>4
  <2> QED
    BY <1>1, <1>3, <2>1, <2>2, <2>3 DEF WatchTypeOK
<1>6. Lag' = Lag /\ Lag <= Steps(next) /\ Steps(next) <= Steps(Len(List)) /\ Steps(next) \in Nat
  <2>1. next - 1 \in Nat /\ next \in Nat /\ next <= Len(List) /\ (next - 1) + 1 = next
        /\ next # AtState
    BY <1>1 DEF AtState
  <2>2. Steps((next - 1) + 1) = Steps(next - 1) + StepMax /\ Steps(next - 1) \in Nat
    BY <2>1, StepsNext
  <2>3. Steps(next) <= Steps(Len(List)) /\ Steps(next) \in Nat
    BY <1>1, <2>1, StepsGrow
  <2>4. Lag <= Steps(next - 1) + spent
    BY <1>3, <2>1 DEF Prompt
  <2>5. Lag <= Steps(next)
    BY <1>3, <1>4, <2>1, <2>2, <2>3, <2>4
  <2> QED
    BY <1>1, <2>3, <2>5 DEF Lag
<1>7. Prompt'
  <2>1. next' # AtState' /\ next' - 1 = next
    BY <1>1 DEF AtState
  <2>2. Lag' <= Steps(next' - 1) + spent'
    BY <1>1, <1>3, <1>6, <2>1
  <2> QED
    BY <2>1, <2>2 DEF Prompt, AtState
<1>8. CASE List[next] = LED_CallBack /\ IsDue(LED_CallBack)
  <2>1. hunger' = 0 /\ Count'[LED_CallBack] = time
    BY <1>1, <1>2, <1>3, <1>4, <1>8
  <2>2. Age' = 0
    <3>1. (time - time) % Wrap = 0
      BY <1>4, SinceValue
    <3> QED
      BY <1>1, <2>1, <3>1 DEF Age
  <2>3. BothCounts'
    <3>1. 0 <= 0 + Lag /\ 0 + Lag <= 0 + Steps(Len(List))
      BY <1>3, <1>6
    <3> QED
      BY <1>6, <2>1, <2>2, <3>1 DEF BothCounts
  <2>4. Polled'
    BY <1>1, <1>8 DEF Polled
  <2>5. NotOverdue'
    BY <1>3, <2>2, <2>4 DEF NotOverdue
  <2> QED
    BY <1>5, <1>7, <2>3, <2>5 DEF WatchInv
<1>9. CASE ~ (List[next] = LED_CallBack /\ IsDue(LED_CallBack))
  <2>1. hunger' = hunger
    BY <1>1, <1>9
  <2>2. Count'[LED_CallBack] = Count[LED_CallBack]
    <3>1. CASE List[next] = LED_CallBack
      BY <1>2, <1>9, <3>1
    <3>2. CASE List[next] # LED_CallBack
      BY <1>2, <1>3, <1>4, <3>2
    <3> QED
      BY <3>1, <3>2
  <2>3. Age' = Age
    BY <1>1, <2>2 DEF Age
  <2>4. BothCounts'
    BY <1>3, <1>6, <2>1, <2>3 DEF BothCounts
  <2>5. CASE List[next] = LED_CallBack
    <3>1. Polled'
      BY <1>1, <2>5 DEF Polled
    <3>2. Age < Period[LED_CallBack]
      BY <1>3, <1>9, <2>5 DEF IsDue, Age
    <3>3. NotOverdue'
      BY <2>3, <3>1, <3>2 DEF NotOverdue
    <3> QED
      BY <1>5, <1>7, <2>4, <3>3 DEF WatchInv
  <2>6. CASE List[next] # LED_CallBack
    <3>1. Polled' <=> Polled
      BY <1>1, <2>6 DEF Polled
    <3>2. NotOverdue'
      BY <1>1, <1>3, <2>3, <3>1 DEF NotOverdue, Flooded
    <3> QED
      BY <1>5, <1>7, <2>4, <3>2 DEF WatchInv
  <2> QED
    BY <2>5, <2>6
<1> QED
  BY <1>8, <1>9

LEMMA WatchPeriodic ==
    ASSUME FedInTime, WatchInv, ptpd_Periodic_Handle
    PROVE  WatchInv'
<1>1. /\ next = Len(List) + 1 /\ next' = Len(List) + 2 /\ spent' = 0 /\ passes' = 0
      /\ UNCHANGED <<LocalTime, time, Count, hunger>>
  BY DEF ptpd_Periodic_Handle, catchAlarm, AtPtp, AtState
<1>2. /\ WatchTypeOK /\ BothCounts /\ Prompt /\ NotOverdue /\ Len(List) \in Nat
      /\ Lag \in Nat /\ Age \in Nat /\ StepMax \in Nat /\ PassMax \in Nat
      /\ spent \in 0 .. StepMax
  <2>1. WatchTypeOK /\ BothCounts /\ Prompt /\ NotOverdue
    BY DEF WatchInv
  <2> QED
    BY <2>1, WatchFacts DEF WatchTypeOK
<1>3. WatchTypeOK'
  BY <1>1, <1>2 DEF WatchTypeOK, AtState
<1>4. Lag' = Lag /\ Age' = Age
  BY <1>1 DEF Lag, Age
<1>5. Polled
  BY <1>1, <1>2, PolledAll
<1>6. Polled'
  <2>1. PICK i \in 1 .. Len(List) : i < next /\ List[i] = LED_CallBack
    BY <1>5 DEF Polled, FedInTime
  <2>2. i < next' /\ i \in DOMAIN List
    BY <1>1, <1>2, <2>1 DEF FedInTime
  <2> QED
    BY <2>1, <2>2 DEF Polled
<1>7. NotOverdue'
  BY <1>2, <1>4, <1>5, <1>6 DEF NotOverdue
<1>8. Lag <= Steps(Len(List) + 1 + 0) + 0
  <2>1. next # AtState /\ next - 1 = Len(List) /\ Len(List) + 1 + 0 = Len(List) + 1
    BY <1>1, <1>2 DEF AtState
  <2>2. Lag <= Steps(Len(List)) + spent
    BY <1>2, <2>1 DEF Prompt
  <2>3. Steps(Len(List) + 1) = Steps(Len(List)) + StepMax /\ Steps(Len(List)) \in Nat
    BY <1>2, StepsNext
  <2> QED
    BY <1>2, <2>1, <2>2, <2>3
<1>9. Prompt'
  BY <1>1, <1>4, <1>8 DEF Prompt, AtState
<1>10. BothCounts'
  BY <1>1, <1>2, <1>4 DEF BothCounts
<1> QED
  BY <1>3, <1>7, <1>9, <1>10 DEF WatchInv

\* Whatever doState does to the timers, it leaves LocalTime alone.
LEMMA StateTime == doState => LocalTime' = LocalTime
<1> SUFFICES ASSUME doState PROVE LocalTime' = LocalTime
  OBVIOUS
<1>1. AsksTimer => LocalTime' = LocalTime
  BY DEF AsksTimer, timerExpired
<1>2. SetsTimer => LocalTime' = LocalTime
  BY DEF SetsTimer, timerStop, timerStart
<1>3. LeavesTimers \/ initTimer => LocalTime' = LocalTime
  BY DEF LeavesTimers, timing, initTimer
<1> QED
  BY <1>1, <1>2, <1>3 DEF doState

LEMMA WatchState ==
    ASSUME FedInTime, WatchInv, doState
    PROVE  WatchInv'
<1>1. /\ next = Len(List) + 2 /\ spent' = 0 /\ LocalTime' = LocalTime
      /\ \/ next' = next /\ time' = time
         \/ next' = 1 /\ time' = LocalTime
      /\ passes' = IF passes > PassMax THEN passes ELSE passes + 1
      /\ UNCHANGED <<Count, hunger>>
  BY StateTime DEF doState, AtState
<1>2. WatchTypeOK /\ BothCounts /\ Prompt /\ NotOverdue
  BY DEF WatchInv
<1>3. /\ Len(List) \in Nat /\ Lag \in Nat /\ Age \in Nat /\ StepMax \in Nat
      /\ PassMax \in Nat /\ Wrap \in Nat /\ Wrap > 1 /\ WatchdogLimit \in Nat
      /\ Steps(Len(List)) \in Nat /\ Count[LED_CallBack] \in 0 .. Wrap - 1
      /\ Wrap > WatchdogLimit + Steps(Len(List)) /\ Period[LED_CallBack] \in Nat \ {0}
  BY <1>2, WatchFacts DEF FedInTime
<1>4. /\ spent \in 0 .. StepMax /\ hunger \in 0 .. WatchdogLimit
      /\ passes \in 0 .. PassMax + 1
      /\ LocalTime \in 0 .. Wrap - 1 /\ time \in 0 .. Wrap - 1
  BY <1>2 DEF WatchTypeOK
<1>5. WatchTypeOK'
  <2>1. passes' \in 0 .. PassMax + 1
    <3>1. CASE passes > PassMax
      BY <1>1, <1>4, <3>1
    <3>2. CASE ~ (passes > PassMax)
      BY <1>1, <1>3, <1>4, <3>2
    <3> QED
      BY <3>1, <3>2
  <2>2. next' \in 1 .. Len(List) + 2
    BY <1>1, <1>3
  <2>3. /\ LocalTime' \in 0 .. Wrap - 1 /\ time' \in 0 .. Wrap - 1
        /\ spent' \in 0 .. StepMax /\ hunger' \in 0 .. WatchdogLimit
    BY <1>1, <1>3, <1>4
  <2> QED
    BY <1>1, <1>2, <2>1, <2>2, <2>3 DEF WatchTypeOK, AtState
<1>6. Age < Period[LED_CallBack]
  <2>1. next \in Nat /\ next > Len(List)
    BY <1>1, <1>3
  <2> QED
    BY <1>2, <2>1, PolledAll DEF NotOverdue
<1>7. ASSUME ~ Flooded'
      PROVE  /\ Lag <= Steps(Len(List) + 1 + passes')
             /\ Steps(Len(List) + 1 + passes') \in Nat
  <2>1. passes' = passes + 1 /\ ~ Flooded
    BY <1>1, <1>3, <1>4, <1>7 DEF Flooded
  <2>2. Lag <= Steps(Len(List) + 1 + passes) + spent
    BY <1>1, <1>2, <2>1 DEF Prompt, AtState
  <2>3. Len(List) + 1 + passes \in Nat
        /\ (Len(List) + 1 + passes) + 1 = Len(List) + 1 + passes'
    BY <1>3, <1>4, <2>1
  <2>4. /\ Steps((Len(List) + 1 + passes) + 1) = Steps(Len(List) + 1 + passes) + StepMax
        /\ Steps(Len(List) + 1 + passes) \in Nat
    BY <2>3, StepsNext
  <2>5. Steps(Len(List) + 1 + passes') = Steps(Len(List) + 1 + passes) + StepMax
    BY <2>3, <2>4
  <2>6. Lag \in Nat /\ spent \in Nat /\ spent <= StepMax /\ StepMax \in Nat
    BY <1>3, <1>4
  <2> QED
    BY <2>2, <2>4, <2>5, <2>6
<1>8. CASE next' = next /\ time' = time
  <2>1. Lag' = Lag /\ Age' = Age /\ BothCounts'
    BY <1>1, <1>2, <1>8 DEF Lag, Age, BothCounts
  <2>2. Polled' /\ NotOverdue'
    <3>1. Polled
      BY <1>1, <1>3, PolledAll
    <3>2. Polled'
      BY <1>8, <3>1 DEF Polled
    <3> QED
      BY <1>6, <2>1, <3>2 DEF NotOverdue
  <2>3. Prompt'
    <3>1. ~ Flooded' => Lag' <= Steps(Len(List) + 1 + passes') + spent'
      BY <1>1, <1>3, <1>7, <2>1
    <3> QED
      BY <1>1, <1>8, <3>1 DEF Prompt, AtState
  <2> QED
    BY <1>5, <2>1, <2>2, <2>3 DEF WatchInv
<1>9. CASE next' = 1 /\ time' = LocalTime
  <2>1. Age + Lag < Wrap /\ hunger <= Age + Lag /\ Age + Lag <= hunger + Steps(Len(List))
    BY <1>2, <1>3, <1>4 DEF BothCounts
  <2>2. Lag' = 0
    <3>1. (LocalTime - LocalTime) % Wrap = 0
      BY <1>4, SinceValue
    <3> QED
      BY <1>1, <1>9, <3>1 DEF Lag
  <2>3. Age' = Lag + Age
    <3>1. Lag + Age < Wrap
      BY <1>3, <2>1
    <3>2. ((LocalTime - time) % Wrap) + ((time - Count[LED_CallBack]) % Wrap) < Wrap
      BY <3>1 DEF Lag, Age
    <3>3. (LocalTime - Count[LED_CallBack]) % Wrap = Lag + Age
      BY <1>3, <1>4, <3>2, SinceSum DEF Lag, Age
    <3> QED
      BY <1>1, <1>9, <3>3 DEF Age
  <2>4. BothCounts'
    <3>1. hunger <= (Lag + Age) + 0 /\ (Lag + Age) + 0 <= hunger + Steps(Len(List))
      BY <1>3, <2>1
    <3> QED
      BY <1>1, <2>2, <2>3, <3>1 DEF BothCounts
  <2>5. Prompt'
    <3>1. 0 <= Steps(1 - 1) + 0 /\ 1 # Len(List) + 2
      <4>1. 1 - 1 = 0 /\ 1 # Len(List) + 2 /\ 0 <= 0 + 0
        BY <1>3
      <4>2. Steps(1 - 1) = 0
        BY <4>1, StepsSum
      <4> QED
        BY <4>1, <4>2
    <3> QED
      BY <1>1, <1>9, <2>2, <3>1 DEF Prompt, AtState
  <2>6. ~ Polled'
    <3>1. \A i \in 1 .. Len(List) : ~ (i < 1)
      BY <1>3
    <3> QED
      BY <1>9, <3>1 DEF Polled, FedInTime
  <2>7. ~ Flooded' => Age' < Period[LED_CallBack] + Steps(Len(List) + 1 + passes')
    BY <1>3, <1>6, <1>7, <2>3
  <2>8. NotOverdue'
    BY <2>6, <2>7 DEF NotOverdue
  <2> QED
    BY <1>5, <2>4, <2>5, <2>8 DEF WatchInv
<1> QED
  BY <1>1, <1>8, <1>9

LEMMA WatchTick ==
    ASSUME FedInTime, WatchInv, Tick
    PROVE  WatchInv'
<1>1. /\ spent < StepMax /\ hunger < WatchdogLimit
      /\ LocalTime' = (LocalTime + 1) % Wrap
      /\ spent' = spent + 1 /\ hunger' = hunger + 1
      /\ UNCHANGED <<Count, time, next, passes>>
  BY DEF Tick, Time_Update, loop
<1>2. WatchTypeOK /\ BothCounts /\ Prompt /\ NotOverdue
  BY DEF WatchInv
<1>3. /\ Len(List) \in Nat /\ Lag \in Nat /\ Age \in Nat /\ StepMax \in Nat
      /\ PassMax \in Nat /\ Wrap \in Nat /\ Wrap > 1 /\ WatchdogLimit \in Nat
      /\ Steps(Len(List)) \in Nat /\ Wrap > WatchdogLimit + Steps(Len(List))
  BY <1>2, WatchFacts DEF FedInTime
<1>4. /\ spent \in 0 .. StepMax /\ hunger \in 0 .. WatchdogLimit
      /\ passes \in 0 .. PassMax + 1 /\ next \in 1 .. Len(List) + 2
      /\ LocalTime \in 0 .. Wrap - 1 /\ time \in 0 .. Wrap - 1
  BY <1>2 DEF WatchTypeOK, AtState
<1>5. hunger <= Age + Lag /\ Age + Lag <= hunger + Steps(Len(List))
  BY <1>2 DEF BothCounts
<1>6. Lag < Wrap - 1
  BY <1>1, <1>3, <1>4, <1>5
<1>7. LocalTime' \in 0 .. Wrap - 1 /\ Lag' = Lag + 1
  BY <1>1, <1>4, <1>6, SinceNext DEF Lag
<1>8. Age' = Age /\ (Polled' <=> Polled) /\ (Flooded' <=> Flooded)
  BY <1>1 DEF Age, Polled, Flooded
<1>9. WatchTypeOK'
  <2>1. spent' \in 0 .. StepMax /\ hunger' \in 0 .. WatchdogLimit
    BY <1>1, <1>3, <1>4
  <2> QED
    BY <1>1, <1>2, <1>7, <2>1 DEF WatchTypeOK
<1>10. BothCounts'
  BY <1>1, <1>3, <1>4, <1>5, <1>7, <1>8 DEF BothCounts
<1>11. Prompt'
  <2>1. \A n \in Nat : Steps(n) \in Nat
    BY StepsSum
  <2>2. next # AtState => Lag' <= Steps(next - 1) + spent'
    <3>1. next - 1 \in Nat
      BY <1>3, <1>4
    <3>2. Steps(next - 1) \in Nat
      BY <2>1, <3>1
    <3> QED
      BY <1>1, <1>2, <1>3, <1>4, <1>7, <3>2 DEF Prompt
  <2>3. next = AtState /\ ~ Flooded => Lag' <= Steps(Len(List) + 1 + passes) + spent'
    <3>1. Len(List) + 1 + passes \in Nat
      BY <1>3, <1>4
    <3>2. Steps(Len(List) + 1 + passes) \in Nat
      BY <2>1, <3>1
    <3> QED
      BY <1>1, <1>2, <1>3, <1>4, <1>7, <3>2 DEF Prompt
  <2> QED
    BY <1>1, <1>8, <2>2, <2>3 DEF Prompt, AtState
<1>12. NotOverdue'
  BY <1>1, <1>2, <1>8 DEF NotOverdue
<1> QED
  BY <1>9, <1>10, <1>11, <1>12 DEF WatchInv

LEMMA WatchStill ==
    ASSUME WatchInv, UNCHANGED <<LocalTime, Count, time, next, spent, hunger, passes>>
    PROVE  WatchInv'
<1>1. Lag' = Lag /\ Age' = Age /\ (Polled' <=> Polled) /\ (Flooded' <=> Flooded)
  BY DEF Lag, Age, Polled, Flooded
<1> QED
  BY <1>1 DEF WatchInv, WatchTypeOK, BothCounts, Prompt, NotOverdue, AtState

LEMMA WatchStep == FedInTime /\ WatchInv /\ [Next]_vars => WatchInv'
<1>1. Arrive \/ UNCHANGED vars
      => UNCHANGED <<LocalTime, Count, time, next, spent, hunger, passes>>
  BY DEF Arrive, vars, loop, measure, timing
<1> QED
  BY <1>1, WatchPoll, WatchPeriodic, WatchState, WatchTick, WatchStart, WatchStill
     DEF Next, Loop

\* The watchdog bites only in a flood of packets that keeps ptpd_Periodic_Handle
\* in its loop: when Task_Poll finds LED_CallBack not yet due by a parameter that
\* is a pass old, it still calls IWDG_Feed in time in the pass after (task.c:45-69).
THEOREM BitesCorrect == FedInTime => (Spec => []BitesOnlyInFlood)
<1>1. SUFFICES ASSUME FedInTime PROVE Spec => []BitesOnlyInFlood
  OBVIOUS
<1>2. Init => WatchInv
  BY <1>1, WatchStart
<1>3. WatchInv /\ [Next]_vars => WatchInv'
  BY <1>1, WatchStep
<1>4. WatchInv => BitesOnlyInFlood
  BY <1>1, WatchBites
<1> QED
  BY <1>2, <1>3, <1>4, PTL DEF Spec
=============================================================================
