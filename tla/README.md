# A verification project for the PTPv2 firmware

The repository is the firmware of an STM32F107 board that keeps time with PTPv2
(IEEE 1588-2008): a bare-metal port of ptpd 2.0.0 on lwIP 1.3.1, with serial
commands, GNSS, IRIG-B and an oscillator taming loop around it. This directory
holds TLA+ models of its core logic, the TLC runs that check them and the proofs
that TLAPS checks. The source is the reference: `PROJECT.json` names, for every
definition that models code, the lines it stands for.

Contents: [the system](#the-system), [modules](#modules-and-code),
[runs](#runs), [divergences](#what-the-code-does-otherwise),
[fairness](#fairness), [proofs](#proofs), [not modelled](#what-is-not-modelled),
[plan](#plan).

## The system

One processor, no operating system. `main` calls `system_init` and then
`run_task` for ever (src/Main/task.c): `Task_Poll` (a table of periodic tasks),
`LwIP_Periodic_Handle`, `ptpd_Periodic_Handle`. Three kinds of interrupt preempt
this loop:

- `ETH_IRQHandler` (priority 2) receives frames and runs lwIP's input path up to
  `netRecvEventCallback` and `netRecvGeneralCallback`, which put packets into the
  two queues of net.c;
- `EXTI4_IRQHandler` (priority 1, so it also preempts the former) handles the
  PHY; on link up it calls `toState(PTP_LISTENING)` and `ptpdStartup`;
- `SysTick` counts the milliseconds that `catchAlarm` later adds to `elapsed_ms`.

Nothing disables interrupts around shared data.

### Inventory

| Component | State it keeps | Operations | Hard behaviour | What makes it correct |
|---|---|---|---|---|
| Port state machine (protocol.c, ptpd.c, startup.c) | portState, recommendedState, events, timers, parentDS, waitingForFollowUp | doState (three switches), toState, doInit, handle, handleAnnounce, handleSync, handleFollowUp | timers set by hand per transition; a recommendation that outlives its decision; link interrupt in the middle of a pass; commands that change the role | the timers of the state run; parent and offset fit the role; a slave-only clock never serves; silent masters are given up |
| Best master clock algorithm (bmc.c) | foreignMasterDS: records, count, capacity, i, best | addForeign, bmc, bmcDataSetComparison, bmcStateDecision, m1, s1, p1, initData | count, i and best are reset at different times; a full table; decisions with an empty table | each master has one record, with its last announce, in the election; no unfilled record is used; the best record wins |
| Packet queues (dep/net.c) | BufQueue: pbuf[4], get, put, count | netQInit, netQPut, netQGet, netQEmpty, netQCheck | put from one interrupt, empty from another, get from the main loop, no lock | bounded FIFO; no packet lost, stranded or freed twice |
| Interval timers (dep/timer.c) | itimer[], elapsed_ms | timerStart, timerStop, timerExpired, timerUpdate, catchAlarm | interval 0 means stopped; counters wrap; time added only once per superloop pass | a started timer expires once, when its time is up |
| Servo and time arithmetic (dep/servo.c, arith.c, dep/sys_time.c) | offset and delay filters, drift, time registers | updateOffset, updateDelay, updatePeerDelay, updateClock, add/sub/normalizeTime | clock step while an exchange is under way; two registers read one after the other | normal form of times; bounded control output |
| Delay and peer delay exchange (protocol.c, dep/msg.c) | sequence ids, t1..t4, waitingForPDelayRespFollowUp, Tms | issue*, handleDelayReq/Resp, handlePDelayReq/Resp/RespFollowUp, updateDelay, updatePeerDelay | 16-bit sequence numbers compared in int; answers late, lost, repeated, from someone else; clock steps in between; sends that fail unseen | the times of a result belong to one exchange, or it is known when they do not |
| Monitor table (protocol.c, udp_echoserver.c) | ptpMonitorl[16], a static count | handleManagement, ptp_unpack_control, UDP report | table full; a count that outlives the clearing of the table | entries unique and up to date, index in range |
| Link restart (stm32f4x7_eth_bsp.c) | link status, the port's state | ETH_link_callback | runs toState inside toState | the port restarts completely |
| Ethernet driver (lwip-1.3.1/port) | DMA descriptors, PTP registers | low_level_input/output, time get/set/adjust | transmit from two contexts | each descriptor has one owner |
| Superloop, tasks, watchdog (task.c, main.c, iwdg.c) | task table, LocalTime | Task_Poll, run_task, SysTick, LED_CallBack | a handler that does not return; the wrap of LocalTime | every task runs, the watchdog is fed |
| Serial commands (cmd_handle.c, usart.c) | line buffers, receive counts, TS_FDS, rtOpts | receive interrupts, receive_str_manage, cmd_handle_usart5 | bytes that arrive while the line is copied, measured and cleared | a line is handled as it was sent |
| Oscillator tracking (tracking/) | RunStateLock, filters | Rubidium tasks | long lock sequence | phases in order |
| Flash configuration, NTP, netconf, drivers, vendored code | | | | see the notes in PROJECT.json |

They interact through shared C structures (`ptpClock`, `rtOpts`, the queues) and
direct calls; the only messages are packets.

## Modules and code

`PtpPort` models the port state machine. A pass of `ptpd_Periodic_Handle` is cut
where the switch statements of `doState` and its calls of `handle()` begin, and
`pc` says where the main loop is, so that the link interrupt (`LinkUp`) and the
arrival of packets (`Arrive`) come between any two of these steps.

| Action | Code |
|---|---|
| `Periodic` | ptpd_Periodic_Handle: catchAlarm and the first doState |
| `Decide` | first two switches of doState: bmc(), slave-only override, the state the recommendation leads to |
| `ActInitializing` .. `ActMaster` | the cases of the third switch, `Receipt` the announce receipt timeout reached by fall-through |
| `HandleNothing`, `HandleShort`, `HandleAnnounce`, `HandleSync`, `HandleFollowUp` | one call of handle(), with the messages that can be in the packet |
| `MasterDelayReq` | issueDelayReqTimerExpired at the end of the MASTER case |
| `Command` | "E1 Master" and "E1 Slave" |
| `LinkUp` | ETH_link_callback on link up |

`ToState(s, rec, exp)` is toState: it stops the timers of the state that is left,
starts those of the state that is entered, and calls initClock where the code
does. The data is abstracted to what the state machine tells apart; the head of
the module lists each abstraction. The environment is as free as the network is:
any packet may come at any time, and any running timer may expire whenever time
was added to elapsed_ms.

`BufQueue` is the packet queue of net.c with each call run to its end;
`PacketFifo` is what it promises, a bounded FIFO, and `IsFifo` says that the
former implements the latter with `Contents`, the slots between get and put, as
the queue. `BufQueueIsr` is the same queue as the processor runs it: netQGet is
cut at each access to the struct, `count--` and `count++` are a load and a
store, netQInit is three stores in the order of the source (`netQInit`,
`netQInitPut`, `netQInitCount`), the Ethernet interrupt (`netQPut`, `netQPutEnd`)
comes between any two steps of the main loop and the link interrupt (`netQEmpty`)
between any two steps of both. No packet is put during netQInit: netInit calls it
between netShutdown and udp_recv. But the link interrupt may come there: a
callback that finds the port in INITIALIZING restarts it twice, through
toState(PTP_LISTENING) and ptpdStartup, and leaving LISTENING calls initClock. `live`
and `inside` record which pbufs are allocated and which should be in the queue,
`lost` and `torn` whether one of the harmful interleavings happened.

`ForeignMasters` is the foreign master table and the election. An announce is a
data set of five numbers in the order in which bmcDataSetComparison looks at
them; the ranks priority1 to priority2, which it compares one after the other
with the same macro, are one number. `Best` is the loop of bmc() as a recursive
function. The module keeps the calls of protocol.c that change the table:
`Announce` (handleAnnounce), `Decide`, `ReceiptTimeout`, `Reinit` (doInit).
`disturbed` records whether the table was cut off from its index by a restart,
or extended twice between two elections, since it was last emptied in order.

`PtpPort` uses the table through `known` and `heard` only, so it allows more
elections than `ForeignMasters` does. What the two rely on in each other is a module
of its own, `MasterChoice`: whose announces are kept, when bmc() may decide and what
it may decide, what becomes of role and parent on a timeout, a stop, an
initialisation, and when doState goes on with an old recommendation. Both implement
it (`ChoosesAsPromised` in each):

| `MasterChoice` | in `PtpPort` | in `ForeignMasters` |
|---|---|---|
| role | `DutyIn(portState)`: PRE_MASTER and MASTER serve, UNCALIBRATED and SLAVE follow, INITIALIZING and FAULTY are stopped | role, never stopped |
| class | `ClockClass`, from slaveOnly and lowClockClass | class |
| known, heard | known, heard | count > 0, `Recorded` (the senders of the filled records) |
| parent | parent | the sender of parentDS |
| pending | STATE_DECISION_EVENT among the events | pending |

`Hear`, `Choose` and `Abandon` are joint: handleAnnounce, bmc() and the timeout. The
table keeps to them with records that are overwritten, the port with `heard`, from
which nothing is dropped; each is a case of what `MasterChoice` allows.

`LinkRestart` extends `PtpPort` by a link interrupt that comes inside a step. The
interrupted step is taken first; `InsideToState`, `AfterAssignment` and
`InsideDecision` then correct its outcome to the one it has when the interrupt
came before toState assigned portState, between that assignment and the next, or
inside bmc(). `torn` records that the restart was overwritten, `stray` that
MANAGEMENT was started behind the restart's back.

`DelayExchange` is the measurement of the path delay under both settings of
delayMechanism. A time stamp is kept as its origin: the number of the request it
belongs to and the clock that took it. `upset` records what has befallen the
exchange under way: the clock was set since the request, the request overtook an
answer, never left, or left in second 0 so that its stamp was not kept. `peerMean` and `pathMean` hold what the step just
taken computed a delay from.

| Action | Code |
|---|---|
| `SendRequest(outcome)` | issueDelayReqTimerExpired, issueDelayReq, issuePDelayReq with the three outcomes of netSend: sent, sent without a time stamp, not sent |
| `Respond` | handlePDelayReq or handleDelayReq of a peer: response and follow-up, one step, or part of it |
| `HandlePDelayResp`, `HandlePDelayRespFollowUp`, `HandleDelayResp` | the handlers of the answers, updatePeerDelay and updateDelay |
| `MoveTo`, `StepClock`, `TrackSync`, `ChangeParent` | toState, updateClock, updateOffset and s1 as far as they touch the exchange |

A message is delivered by an action that takes it from `net` (or leaves it there,
to be delivered once more), in any order; it is lost if no action takes it before
the next request. Answers to other clocks' requests come at any time.

`IntervalTimer` is dep/timer.c with its milliseconds, and `Superloop` puts it into
the loop of src/Main/task.c, with the task table, SysTick and the watchdog. A step
of the loop lasts up to `StepMax` milliseconds; what doState asks of the timers is
`AsksTimer`, `SetsTimer`, `LeavesTimers` or initTimer. `due` and `slack` are the
reckoning of someone with a watch. `TimerSet` is what `PtpPort` takes the timers for:
a set of timers that run, a set of those that expired, a bit for whether time has
passed; `Superloop` implements it (`TimersAsPromised`). A step of `PtpPort` makes
several of its steps at once, as one call of toState does.

`UsartReceive` is one serial port: the receive interrupt against receive_str_manage,
which is cut where the interrupt can change what it does next. A byte is the place
it was sent at, so that a line handed over shows what is missing. `MonitorTable`
is ptp_unpack_control, and `Console` puts the two into the superloop: a line may
set the role, which clears the table; management messages come between the polls.

The MC modules give the data for TLC; the modules named `...Proofs` hold the
theorems. Definitions whose comment says "a bug" are changed copies of the
definition next to them; nothing uses them, and each property of a passing run
fails when its bug is put in (`PROJECT.json`, "mutants").

## Runs

| Run | Question | Bounds |
|---|---|---|
| port_p2p | Do the timers, the recommendation and the awaited Follow_Up that toState, the decision and the handlers leave behind fit the port state, on every path? Is a silent master given up, does a listener decide? | two other clocks, one sequence number, a clock class below 128 (the only one with which PASSIVE is recommended) and one above |
| link | What can a link interrupt inside toState or bmc() break, and what not? Does the port keep to the choice of a master (`MasterChoice`), do role and parent agree, wherever it comes? With the end-to-end mechanism | the same |
| queue | Is the ring buffer a bounded FIFO? | the real size 4, three packets |
| isr | Which interleavings of the interrupts with the queue do harm? | size 3, four packets |
| foreign | Does the election see every master once, and filled records only? Is the table what the state machine takes it for? | capacity 3, five masters, six data sets, three clock classes |
| delay | Which stamps can a measured delay be made of, and is it measured again and again? | two peers, sequence numbers below 3, one straggler |
| console | What can a line lose, and what does the monitor table show? | three cells, polls counted modulo 2, two entries, three slaves, two offsets |
| superloop | Do the timers keep time and the tasks run, across every wrap? Are the timers what `PtpPort` is modelled with? | LocalTime modulo 12, watchdog at 9, two tasks, two timers of which one is started |
| port_fault, port_qualify, isr_freed, foreign_elect | The divergences below | the smallest instance that shows them |

Why the bounds are enough. Two other clocks are an old and a new master; the
code never relates more than the parent and one sender. With one sequence number
every Follow_Up that comes from the parent matches, which is the worst case for
the flag that says one is awaited. The clocks and the pbufs are symmetric in
`PtpPort` and `BufQueueIsr` (nothing orders them), so their
runs of safety properties alone use symmetry; port_p2p, which checks liveness as
well, and the `ForeignMasters` runs, where identities are compared, do not. A queue
of size 3 can be empty, full and in between with
wrap-around in each, and has one packet more than slots, which is what the
overtaking of put needs. `Floor` (in `BufQueueIsr`) stops following a count that
an interrupt made negative below -Size; main-loop calls are only refused there.
A table of three with five senders is replaced completely, has a stale best
index inside and outside the records in use, and an own identity between those of
its neighbours makes both outcomes of each comparison happen. In `DelayExchange` the second peer is the one that
answers when it should not, and the numbers wrap with every third request, so
that every number is now the current one and now an old one; one straggler is enough
to meet the exchange after its own, and a late message that finds two more
requests gone is refused by its number. A running clock is taken not to come back to
second 0, which takes it 2^31 seconds (`StampKept`): in P2P a stamp is dropped there
only while pdelay_t1 is cleared. Three cells can be empty, partly filled
and full; a counter modulo 2 wraps at the second changed poll; two entries and
three slaves fill the table and overrun it. In `Superloop` LocalTime wraps within
the time the watchdog waits, tighter than the board and than what the proofs
assume; each task's period is shorter than a wrap, as on the board. The theorems drop
these bounds for the properties listed under [Proofs](#proofs).

The invariants, and what they guard against:

- `TimersMatchState`: toState stops and starts timers by hand, per pair of
  states; a forgotten one leaves a port that never times out, and the failure
  would take a long chain of transitions to notice.
- `RecommendationSound`, `ParentMatchesRole`, `SlaveOnlyNeverServes`: the
  recommendation is stored and followed again after faults and restarts; it must
  still agree with parentDS, currentDS and the configured role.
- `FollowUpAwaitedOnlyWhileFollowing`: a Sync of an earlier life of the port is
  never completed.
- `NewMasterUncalibrates`: s1 changes the parent in the middle of doState; the
  flag it sets must reach the second switch before the port can go on as SLAVE.
- `IsFifo`: the redundant fields of the ring agree at every call, nothing is lost,
  doubled or reordered.
- `ChoosesAsPromised`: the port and the table were written apart and are reset
  apart; still every role and every parent comes from an election over records that
  were filled, decided once for each time it was asked for, from a timeout or from an
  initialisation, and an old recommendation that is followed again changes nothing
  in a running port.
- `TimersAsPromised`: a timer that was stopped, or that no time has reached, does not
  expire.
- `OnlyTheseWindowsHarm`: the exact list of interleavings that break the queue;
  closing these windows is enough.
- `CountNeverOverstates`: lost updates do not make the superloop spin.
- `OnlyTornRestartStrands`: a port whose restart was overwritten may wait for a
  master for ever, or sit in PRE_MASTER without a recommendation; nothing else
  leads there, and no other timer is lost.
- `StampOfTheRequest`, `MixedAnswersNeedOvertaking`, `MixedPeersNeedSecond`,
  `UnsentRequestNotMeasured`, `PathDelayOfOneMaster`: a delay is a sum of four
  stamps stored by different handlers; each property names the only event after
  which one of them may be of something else.
- `SilentMasterAbandoned`: a slave gives up a master whose announces stop, although
  other clocks' announces, Syncs, requests and commands keep coming. `announced`
  records whose announce restarted the timer; dropping the comparison with the parent
  in handleAnnounce violates the property. One way out is in the code and named in the
  property: Syncs of the silent master that raise SYNCHRONIZATION_FAULT again and
  again restart the timer through toState.
- `PeerDelayMeasuredAgain`: a number that cannot be answered, a lost answer or a
  clock step stops the measurement for one request and not for good.
- `Reckoning`, `ExpiresNotEarly`: time is neither lost nor counted twice on its
  way from SysTick to a timer, whichever timer is asked for.
- `BitesOnlyInFlood`, `EveryTaskRuns`: only doState run again and again for packets
  that wait keeps the loop from its tasks. That is a flood of packets, or a single
  one that waits in PRE_MASTER, where none is read (`port_qualify`); the watchdog
  ends both.
- `LineAsSent`, `NothingLeftBehind`: what reaches the command handler is what was
  sent, but for the windows of the hand-over and two wraps: that of the poll counter,
  and that of the receive count, which a full buffer between two polls takes back to
  the value it had, so that the line is not noticed.
- `EntriesAreLastReports`, `OutsideNeedsOneTooMany`: no stale or double entry; the
  entry behind the last is written only after more than 16 clocks reported.
- `NoEmptyRecordUsed`, `DistinctSenders`, `AnnouncedTakesPart`: count, i and best
  disagree about the live part of the table after timeouts and restarts; the
  election must still be over the masters heard.

### What the code does otherwise

Four runs are expected to fail; each checks one statement the sources make of
themselves, and TLC shows how the code departs from it.

- `port_fault`: FAULTY is left through the old recommendation, without the
  initialisation that the FAULTY case of doState provides.
- `port_qualify`: PRE_MASTER reads no packets, and ptpd_Periodic_Handle repeats
  doState while a packet waits without adding time: the qualification timeout
  never comes.
- `isr_freed`: after lost updates of count, put overtakes get and a freed pbuf is
  handed to netRecv. The run leaves the link interrupt out to show that the
  Ethernet interrupt alone is enough.
- `foreign_elect`: bmc() keeps the record for which bmcDataSetComparison answers
  "B better", the worse one; `ElectsWorstCorrect` says how bad that gets.

Other behaviour that a reader of the models will notice, and that no run asserts:
a random delay request interval of 0 stops that timer until the port changes its
state (`Armed`, `Drawn`); an
offset may be computed from the Sync of one master and the Follow_Up of another
(`offsetFrom`); MASTER_CLOCK_SELECTED of an old master may calibrate a port for a
new one (`Consumed`); after a restart, i is not 0 and a heard master may be
outside the records compared (`Reinit`, which is why `DistinctSenders` and
`AnnouncedTakesPart` except disturbed tables).

Of the delay exchange: the answer to request 65535 is never accepted, because the
number is compared as `sent - 1` in int (`IsCurrent`); after a clock step the
answer to the request under way is measured against t1 = 0, and the peer delay of
many seconds that results is kept until the next one; timestamp_delayReqSend is
not cleared by a step at all (`InitClock`); a request that leaves in second 0 is counted
and its stamp is not kept (`StampKept`), so that its answer is measured against a
cleared or an older one; a request whose time stamp the Ethernet DMA does not
deliver in time is measured with the time read before it was sent
(`SendOutcomes`); the follow-up of a response is taken
from any peer, whoever it was sent to. The peers here send a follow-up only when
the request asked for it (protocol.c:1070), while their response always announces
one (msg.c, msgPackHeader): the one without the other leaves `waiting` set, which
is how a later follow-up overtakes.

Of the serial port: a byte that arrives while the line is copied or measured is
lost; one that arrives after the count was reset is counted and then cleared, so
that the next line begins with a NUL and looks empty to strstr; a line of exactly
1024 bytes is handed over with length 0, and not at all if it comes between two
polls; usart_state, a u8, wraps after 256 polls
that saw bytes. Of the monitor table: a slave without an address takes a free
entry again and again; clearing the table leaves the count, so that the entry
behind the last (`outside`) may be the first one replaced.

Of the restart: inside toState it is overwritten, and a port that is then in
SLAVE without its announce receipt timer, or in PRE_MASTER with the
recommendation INITIALIZING, stays there until the next link-up, command or, in
the first case, announce of its parent.

## Fairness

`FairSpec` of `PtpPort` assumes four things, each a fact about the board:

- `WF(MainLoop)`: the superloop never stops;
- `SF(TimePasses)`: SysTick advances time, so that a superloop that keeps calling
  ptpd_Periodic_Handle keeps adding time to elapsed_ms;
- `SF(Drain)`: the network does not deliver packets for ever as fast as they are
  handled, so a pass that handles packets now and then takes the last one;
- `SF(TimeUp)`, unless the port changes state again and again (toState restarts the
  timer) or an announce restarts the announce receipt timer again and again
  (`announced`): a running timer that is left alone expires after enough time.

Nothing else excuses the timer: messages that do not restart it do not keep it from
expiring. `QualifyingSpec`, for `port_qualify`, adds `SF(QualificationUp)`, unless the
port changes state again and again: the same for the qualification timer.

`FairSpec` of `DelayExchange` assumes that the parent's Syncs go on, as whose
handlers ask for the timer, and that the timer expires while it runs
(`WF(SendRequest)`); and that the network, which knows nothing of the numbers,
lets some exchange numbered 0 through in full again and again (`SF` of `Issued`,
`Answered`, `ResponseUsed`, `FollowUpUsed`). It assumes nothing of clock steps or
of the other numbers. `PeerDelayMeasuredAgain` asks this of a port that stays
SLAVE with the timer running: one that drew the interval 0 sends no requests.

`FairSpec` of `Superloop` is weak fairness of the loop and of SysTick: the
processor and its clock run on. A flood of packets may last for ever, and nothing is
assumed of the watchdog.

In `PtpPort` no fairness is assumed of packets, commands or link interrupts. In the
counterexample of `port_qualify` the assumptions about timers hold for want of time:
it is a loop of doState in which no time is added at all.

## Proofs

The theorems hold for every value of the constants that the named assumptions
(`PortAssumption`, `BufQueueAssumption`, `BufQueueIsrAssumption`,
`ForeignMastersAssumption`, `DelayAssumption`, `TimerAssumption` and `SuperloopAssumption`, `UsartAssumption`,
`MonitorAssumption`) allow: any set of other clocks and sequence numbers, both
delay mechanisms, any queue size, any table capacity, any announces, any task
table and timers, any buffer.

*PtpPort.* `TypeCorrect` (TypeOK) and `TimersCorrect` (TimersMatchState) are
inductive as they stand: leaving and entering a state are complements of each
other in toState. The role is not: `ParentMatchesRole` alone does not survive a
fault, after which doState follows the stored recommendation. `RoleInv` adds
`RecommendationSound`, what the stored recommendation promises, and is inductive;
`SlaveOnlyCorrect`, `RecommendationCorrect`, `ParentCorrect` and `NewMasterCorrect`
follow from it. `FollowUpCorrect` rests on initClock being called on exactly the
transitions that leave a master. The proofs have one step per action; the choices
inside `Decide` and `Receipt` are named by a lemma first (`DecideWith`,
`ReceiptWith`). `PortChoosesCorrect` is the refinement of `MasterChoice`. It needs
`RoleInv` and one invariant more: `Agree` says that the stored recommendation is the
one that led to the state the port is in, or was withdrawn by a restart, so that
doState without a decision stutters; only from INITIALIZING and FAULTY does it lead
anywhere (`Resume`). A decision maps to `Choose` (`ElectionChooses`, `PortDecides`),
and each other action has a lemma or a case of `PortChooses`.

*LinkRestart.* A step that is not interrupted is a step of `PtpPort`, so `LinkInv`
(TypeOK and `RoleInv`) needs a proof for the three interrupted steps only, and
`RestartSlaveOnlyCorrect` and `RestartParentCorrect` follow: the role survives a
restart wherever it comes. So do `RestartFollowUpCorrect` and
`RestartNewMasterCorrect`, which no run of `LinkRestart` checks, and the refinement:
`RestartChoosesCorrect` maps a restart that is lost inside toState to a stutter, a
late one to `Stop`, one inside bmc() to the `Choose` of the decision that overwrites
it. TimersMatchState does not. What replaces it,
`OnlyTornRestartStrands`, is inductive as it stands (`RestartStrandsCorrect`):
toState, run to its end, restores what an overwritten restart took
(`ToStateStrands`), and each interrupted step has a lemma.

*BufQueue.* `RingCorrect` proves TypeOK and RingConsistent together
(`RingTypeCorrect` is its first half; RingConsistent says that the count is the
distance from get to put, and no run checks it, since a ring without it is no FIFO),
from a lemma on wrap-around (`Wrap`) that avoids reasoning about `%` anywhere else.
`BufQueueIsFifo` is the refinement: with that invariant each call maps to the
call of the FIFO on `Contents`.

*BufQueueIsr.* Three invariants make `IInv`, each with a lemma for its step.
`Registers` bounds the count by the decrements still to come, so that the type
holds (`IsrTypeCorrect`) even when the link interrupt tears a call. `Covered` says
what lost updates cannot spoil: the packets that are both allocated and in the
queue are at least as many as counted, with one to spare while the main loop is about to
free a packet that may be one of them (`Doubtful`). It does not survive without
the spare one: a packet freed twice would take the cover away. `IsrCountCorrect`
follows. `Ring` holds as long as no window was hit and netQInit is not under way: put is where get and the
count say, and every packet in the queue lies between them, or in ptr while get has
moved and the count has not (`Ahead`). `IsrWindowsCorrect` takes both together:
`Ring` bounds the packets in the queue from above by the cells of a window
(`WindowSize`), `Covered` from below, so they are equal and the packet handed out is
allocated. `IsrOrderCorrect` goes on from `Ring`: `Contents` is the queue as a
sequence at every step of the main loop, empty while netQInit runs, and each step
changes it as a FIFO would (`FifoStep`), which the invariants of the run do not say.

*ForeignMasters.* `CompareAntisymmetric` says that the comparison never
contradicts itself on any two data sets. `NoEmptyRecordUsedCorrect` needs to know
why records below count are filled although count, i and best are reset at
different times: `Filled` (count never passes the write index until the whole
table has been written once) is the inductive part of `TableInv`, from which
`TableTypeCorrect` follows too. That bmc's loop stays below count
(`ElectedInRange`) is shown for its recursive function by taking the least turn
that does not (`LeastNumber`). `DistinctSendersCorrect` and
`AnnouncedTakesPartCorrect` rest on `SearchInv`: while the table is undisturbed
the write index equals the count until the table is full, and best is below a
count that is not 0 unless a decision is pending; so the search from best modulo
the count visits exactly the records in use (`SearchComplete`). With `TableInv`,
`TableChoosesCorrect` shows that the table implements `MasterChoice`: bmc() decides on
record 0 or one below count, which was filled when a decision is pending, so that
its sender is in `Recorded`; adding a record changes `Recorded` as `Hear` allows
(`AddForeignRecorded`). `TableServesCorrect` is then a consequence of `MasterChoice`
alone (`ChoiceServesAsSelf`). `ElectsWorstCorrect` replaces the counterexample of
`foreign_elect` by a statement about every table: with pairwise different
grandmasters the comparison is an order (`CompareTransitive`), and the loop of bmc(),
again by the least turn that fails, ends at its worst element (`ElectedIsWorst`).

*DelayExchange.* The five properties look at one step, in which a delay is
computed; what they rest on is what the stored stamps can be between the steps.
That is `IInv`: t1 is of the last request, unless the clock was set since or the
request left in second 0 (`RequestStamp`); while a
follow-up is awaited t2 and t4 are of one answer, to the current request unless
`upset` says that it overtook (`AnswerStamps`); what is under way with the current
number belongs to a request that was sent (`Network`); Tms is the parent's unless
it changed since (`Filtered`). Each action has a lemma, with one step per conjunct it can disturb.

*Superloop.* `ReckoningCorrect` and `NotEarlyCorrect` are facts of `IntervalTimer`
proved in the loop, since they need to know how far LocalTime can get ahead of
old_localtime: no further than the watchdog lets it. So the theorems have the
assumption `WideEnough` on top of the module's: LocalTime wraps in more than twice
the watchdog's limit (2^32 ms against 5 s), and the task table lists each task
once. TLC's instance does without it, at one width. `TimersPromisedCorrect`, the
refinement of `TimerSet`, has the same assumption, since it rests on Reckoning: timerUpdate
returns early when no time has passed, and the model, which does not, agrees with it
because a running timer has some time left.

`BitesCorrect` asks less of the width and more of the steps. Task_Poll compares with
the time read at the start of the pass; a task that is not due by it waits a whole
pass more. So `FedInTime` asks that the period of LED_CallBack (500 ms), one pass
and the turns of the next Task_Poll fit into the watchdog's limit, and that
LocalTime wraps in more than this limit and one Task_Poll.
`WatchInv` measures
by two clocks: `Age`, the task's time by the parameter, and `Lag`, the age of the
parameter. Their sum is what the watchdog waited, give or take the turns of one
Task_Poll (`BothCounts`); the lag is bounded by where the loop is (`Prompt`); the
age is below the period once the task is polled, and exceeds it by at most the last
pass before that (`NotOverdue`), unless a flood makes that pass longer. TLC's
instance satisfies `FedInTime` with one millisecond to spare.

*Console.* `UsartInv` says what the cells hold at each step of the hand-over:
`Held(k, z)`, the bytes from place k+1 on, the first z of them cleared, where k
counts what was lost to the hand-over before. `LineCorrect` follows when the line
is copied. The claims about the table are inductive together (`TableInv`): a full
table of distinct clocks, each in `reports`, makes the next one a clock more than
it has entries (`FullTable`).

Only model-checked: the liveness properties (`SilentMasterAbandoned`,
`ListenerDecides`, `PeerDelayMeasuredAgain`, `EveryTaskRuns`), which
need fairness. Every invariant, action property and refinement of a passing run is
stated by a theorem. What a step of `PtpPort` does to the timers is several steps of
`TimerSet` at once, and this part of the link between the two is by reading.

## What is not modelled

Packing and unpacking of messages (fixed layouts, no state), logging, register
access, the PHY dialogue, floating-point filters, vendored code. DISABLED is left
out of the port states: nothing enters it. Messages of a foreign domain, of the
port itself and of types without effect on the modelled state are one action,
`HandleNothing`. `PtpPort` does not keep the milliseconds left in a timer,
`Superloop` does not keep what the port does with an expired one. A link interrupt
inside a message handler, between two of its assignments, is not modelled:
`LinkRestart` has those inside toState and bmc(). The values of the servo (filters,
PI controller, sums of times) are not modelled, only where they come from and
which flags they raise. After a send without a time stamp the driver keeps pointing
at the same transmit descriptor (ethernetif.c:711-714); what that does to later sends
is not modelled. The Ethernet driver's descriptors are shared with the DMA
controller, about which the sources say nothing. The flash page written by the
commands is never read back, so a write cut short changes nothing. Nine tenths of
the repository are vendor libraries, lwIP and nmealib, used as they come.
PROJECT.json lists each component with its status.

## Plan

Done: PtpPort, BufQueue with PacketFifo, BufQueueIsr, ForeignMasters,
LinkRestart, DelayExchange, IntervalTimer, Superloop, UsartReceive, MonitorTable
and Console, each with its run, MasterChoice and TimerSet between them, and the
proofs above. What is left, most important first:

1. `TimeArith`: normalizeTime, addTime, subTime, div2Time against their definition
   over bounded inputs, and the limits of the PI controller.
2. `PbufPool`: the pbufs that oversized packets and netQInit leak, and a promise to
   check them against.
3. A link interrupt inside a message handler, between two of its assignments.
