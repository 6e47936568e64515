------------------------------- MODULE PtpPort -------------------------------
(***************************************************************************)
(* The PTP port state machine of ptpd-2.0.0/src/protocol.c: doState,       *)
(* toState, doInit, handle and the announce, Sync and Follow_Up handlers,  *)
(* driven by the superloop (ptpd_Periodic_Handle), the serial "E1" command *)
(* and the link-up interrupt.                                              *)
(*                                                                         *)
(* One pass of doState is cut where its switch statements and its calls of *)
(* handle() begin, so that the link interrupt can come between them; pc    *)
(* says where the main loop is.  The network is the environment: a message *)
(* may arrive at any time (Arrive, the Ethernet interrupt) and handle()    *)
(* may find it to be any message.  The data is abstracted to what the      *)
(* state machine can tell apart:                                           *)
(*   - the two packet queues are "one of them is not empty" (queued): what  *)
(*     they hold and lose is the subject of BufQueue;                      *)
(*   - itimer[t].interval > 0 is "t \in running", itimer[t].expire is      *)
(*     "t \in expire"; how many milliseconds are left is not kept: when    *)
(*     elapsed_ms > 0 the next timerUpdate may let any running timers      *)
(*     expire;                                                             *)
(*   - the foreign master table is "count > 0" (known) and the masters     *)
(*     whose announce was ever stored (heard; records are never erased);   *)
(*     which record bmc() finds best is any of them (see ForeignMasters);  *)
(*   - currentDS.offsetFromMaster is the set of masters whose timestamps   *)
(*     it was computed from (offsetFrom).                                  *)
(***************************************************************************)
EXTENDS Naturals

CONSTANTS
    Masters,         \* port identities of the other clocks
    Self,            \* this port's own identity
    SeqIds,          \* sequence numbers a Sync may carry
    DelayMechanism,  \* "P2P" (DEFAULT_DELAY_MECHANISM) or "E2E"
    LowClockClasses  \* whether rtOpts.clockQuality.clockClass may be < 128, or not

ASSUME PortAssumption ==
    /\ Self \notin Masters
    /\ SeqIds # {}
    /\ DelayMechanism \in {"P2P", "E2E"}
    /\ LowClockClasses \subseteq BOOLEAN

VARIABLES
    pc,               \* where the main loop is
    portState,        \* portDS.portState
    recommendedState, \* recommendedState
    events,           \* the pending event flags
    running, expire,  \* the interval timers
    elapsed,          \* elapsed_ms > 0
    announced,        \* history: whose announce restarted ANNOUNCE_RECEIPT_TIMER
                      \* since timerUpdate last ran, Self for nobody's
    queued,           \* netSelect: the event or the general queue is not empty
    known,            \* foreignMasterDS.count > 0
    heard,            \* masters stored in foreignMasterDS.records
    parent,           \* parentDS.parentPortIdentity
    offsetFrom,       \* provenance of currentDS.offsetFromMaster
    waiting,          \* waitingForFollowUp
    sync,             \* last two-step Sync: its sender, recvSyncSequenceId
    slaveOnly,        \* defaultDS.slaveOnly || clockClass == 255
    optSlaveOnly,     \* rtOpts.slaveOnly
    lowClockClass     \* defaultDS.clockQuality.clockClass < 128

timers == <<running, expire, elapsed, announced>>
master == <<known, heard, parent>>
servo  == <<offsetFrom, waiting, sync>>
role   == <<slaveOnly, optSlaveOnly, lowClockClass>>
vars   == <<pc, portState, recommendedState, events, timers, queued, master, servo,
            role>>

-----------------------------------------------------------------------------
\* DISABLED is left out: nothing in the firmware ever enters it.
PortStates == {"INITIALIZING", "FAULTY", "LISTENING", "PRE_MASTER", "MASTER",
               "PASSIVE", "UNCALIBRATED", "SLAVE"}

\* The states in which doState looks at STATE_DECISION_EVENT.
Operational == PortStates \ {"INITIALIZING", "FAULTY"}

Following == {"UNCALIBRATED", "SLAVE"}

Flags == {"STATE_DECISION", "SYNC_FAULT", "MASTER_SELECTED", "MASTER_CHANGED"}

Timers == {"PDELAYREQ", "DELAYREQ", "SYNC", "ANNOUNCE_RECEIPT",
           "ANNOUNCE_INTERVAL", "MANAGEMENT", "QUALIFICATION"}

DelayTimer == IF DelayMechanism = "P2P" THEN "PDELAYREQ" ELSE "DELAYREQ"

Pcs == {"idle", "decide", "act", "manage", "receipt", "handle",
        "masterHandle", "delayReq"}

\* How far from its master updateOffset finds the clock: below 10 us, up to
\* 1 ms, above 1 ms, or so far that updateClock sets the clock instead.
Offsets == {"calibrated", "drifting", "uncalibrated", "jump"}

-----------------------------------------------------------------------------
(* toState *)

\* A bug for the mutation runs: no "break" when the port stays with its master.
StoppedNoBreak(s) ==
    CASE portState = "MASTER" -> {"SYNC", "ANNOUNCE_INTERVAL", "PDELAYREQ"}
      [] portState \in Following -> {"ANNOUNCE_RECEIPT", "MANAGEMENT", DelayTimer}
      [] portState = "PASSIVE" -> {"PDELAYREQ", "ANNOUNCE_RECEIPT"}
      [] portState = "LISTENING" -> {"ANNOUNCE_RECEIPT"}
      [] portState = "PRE_MASTER" -> {"QUALIFICATION"}
      [] OTHER -> {}

\* Timers stopped by the "leaving state tasks" when the port goes to s.
Stopped(s) ==
    CASE portState = "MASTER" -> {"SYNC", "ANNOUNCE_INTERVAL", "PDELAYREQ"}
      [] portState \in Following /\ s \notin Following ->
             {"ANNOUNCE_RECEIPT", "MANAGEMENT", DelayTimer}
      [] portState = "PASSIVE" -> {"PDELAYREQ", "ANNOUNCE_RECEIPT"}
      [] portState = "LISTENING" -> {"ANNOUNCE_RECEIPT"}
      [] portState = "PRE_MASTER" -> {"QUALIFICATION"}
      [] OTHER -> {}

\* A bug: initClock is not called when a port leaves its master.
ResetsClockNotFollowing(s) == portState \in Operational \ Following

\* Whether leaving the current state for s calls initClock, which forgets the
\* Sync being completed and empties the event queue (not the general one).
ResetsClock(s) ==
    /\ portState \in Operational
    /\ ~ (portState \in Following /\ s \in Following)

\* Timers set by the "entering state tasks" of s.
Started(s) ==
    CASE s = "LISTENING" -> {"ANNOUNCE_RECEIPT"}
      [] s = "PRE_MASTER" -> {"QUALIFICATION"}
      [] s = "MASTER" -> {"SYNC", "ANNOUNCE_INTERVAL"}
                         \cup ({"PDELAYREQ"} \cap {DelayTimer})
      [] s = "PASSIVE" -> {"ANNOUNCE_RECEIPT"} \cup ({"PDELAYREQ"} \cap {DelayTimer})
      [] s = "UNCALIBRATED" -> {"ANNOUNCE_RECEIPT", DelayTimer}
      [] s = "SLAVE" -> {"MANAGEMENT"}
      [] OTHER -> {}

\* getRand draws the delay request interval; a timer set to 0 does not run.
Armed(S, draw) == IF draw = 0 THEN S \ {DelayTimer} ELSE S

\* A bug: recommendedState follows every transition.
ToStateRecommends(s, rec, exp) ==
    /\ portState' = s
    /\ recommendedState' = s
    /\ running' = (running \ Stopped(s)) \cup Started(s)
    /\ expire' = exp \ Started(s) /\ announced' = Self
    /\ waiting' = (waiting /\ ~ ResetsClock(s))
    /\ queued' = queued

\* toState(s), called with recommended state rec and expired timers exp.
ToState(s, rec, exp) ==
    /\ portState' = s
    /\ recommendedState' = IF s \in {"INITIALIZING", "LISTENING"} THEN s ELSE rec
    /\ \E draw \in {0, 1} :
          running' = (running \ (Stopped(s) \cup Started(s)))
                     \cup Armed(Started(s), draw)
    /\ expire' = exp \ Started(s) /\ announced' = Self
    /\ waiting' = (waiting /\ ~ ResetsClock(s))
    /\ queued' \in {queued} \cup (IF ResetsClock(s) THEN {FALSE} ELSE {})

\* timerUpdate: the running timers that expire now, none if no time passed.
Due == IF elapsed THEN SUBSET running ELSE {{}}

\* End of doState: ptpd_Periodic_Handle runs it again while netSelect sees a
\* message, and returns to the superloop otherwise.
EndOfPass == pc' = IF queued' THEN "decide" ELSE "idle"

-----------------------------------------------------------------------------
(* doState, first and second switch *)

\* A bug: m1 forgets the parent data set.
M1NoParent == offsetFrom' = {} /\ UNCHANGED parent

\* m1: the port is its own master.
M1 == parent' = Self /\ offsetFrom' = {}

\* A bug: a slave-only clock accepts what bmc recommends.
AllowedAny(rec) == rec

\* doState overrules the recommendation of bmc for a slave-only clock.
Allowed(rec) ==
    IF rec \in {"MASTER", "PASSIVE"} /\ slaveOnly THEN "LISTENING" ELSE rec

\* A bug: s1 does not notice that the master is another one.
NewMasterSilent(m) == {}

\* The flag s1 sets when it makes m the parent.
NewMaster(m) == IF m = parent THEN {} ELSE {"MASTER_CHANGED"}

\* A bug: doState does not clear STATE_DECISION_EVENT.
DecisionPending(rec, p, fl, off) ==
    [rec |-> rec, parent |-> p, events |-> events \cup fl, offset |-> off]

\* What bmc() and bmcStateDecision() may recommend, and what s1, m1 and p1
\* leave in the parent data set, the flags and the offset.
Decision(rec, p, fl, off) ==
    [rec |-> rec, parent |-> p, events |-> fl, offset |-> off]

Decisions ==
    LET fl == events \ {"STATE_DECISION"} IN
    IF "STATE_DECISION" \notin events \/ portState \notin Operational
    THEN {Decision(recommendedState, parent, events, offsetFrom)}
    ELSE IF ~known /\ portState = "LISTENING"
    THEN {Decision("LISTENING", parent, fl, offsetFrom)}
    ELSE {Decision(Allowed("MASTER"), Self, fl, {})}
         \cup
         (IF lowClockClass /\ ~slaveOnly
          THEN {Decision(Allowed("PASSIVE"), parent, fl, offsetFrom)}
          ELSE {Decision("SLAVE", m, fl \cup NewMaster(m), offsetFrom) : m \in heard})

\* The state the second switch moves to, or the current one for none.
Target(d, qualified) ==
    CASE d.rec = "MASTER" /\ portState = "PRE_MASTER" ->
             IF qualified THEN "MASTER" ELSE "PRE_MASTER"
      [] d.rec = "MASTER" /\ portState = "MASTER" -> "MASTER"
      [] d.rec = "MASTER" /\ portState \notin {"PRE_MASTER", "MASTER"} -> "PRE_MASTER"
      [] d.rec = "SLAVE" /\ portState = "UNCALIBRATED" ->
             IF "MASTER_SELECTED" \in d.events THEN "SLAVE" ELSE "UNCALIBRATED"
      [] d.rec = "SLAVE" /\ portState = "SLAVE" ->
             IF d.events \cap {"SYNC_FAULT", "MASTER_CHANGED"} # {}
             THEN "UNCALIBRATED" ELSE "SLAVE"
      [] d.rec = "SLAVE" /\ portState \notin Following -> "UNCALIBRATED"
      [] d.rec = "INITIALIZING" -> portState
      [] d.rec \in {"PASSIVE", "LISTENING"} -> d.rec

\* Flags the second switch consumes.
Consumed(d) ==
    CASE d.rec = "SLAVE" /\ portState = "UNCALIBRATED" ->
             {"MASTER_SELECTED", "MASTER_CHANGED"}
      [] d.rec = "SLAVE" /\ portState = "SLAVE" -> {"SYNC_FAULT", "MASTER_CHANGED"}
      [] OTHER -> {}

\* The second switch reads the QUALIFICATION timer only in PRE_MASTER.
Qualifying(d) == d.rec = "MASTER" /\ portState = "PRE_MASTER"

Decide ==
    /\ pc = "decide"
    /\ pc' = "act"
    /\ \E d \in Decisions, due \in Due :
          LET exp == IF Qualifying(d) THEN expire \cup due ELSE expire
              rest == IF Qualifying(d) THEN exp \ {"QUALIFICATION"} ELSE exp
              s == Target(d, "QUALIFICATION" \in exp) IN
          /\ Qualifying(d) \/ due = {}
          /\ elapsed' = (elapsed /\ ~ Qualifying(d))
          /\ parent' = d.parent
          /\ offsetFrom' = d.offset
          /\ events' = d.events \ Consumed(d)
          /\ IF s = portState
             THEN /\ UNCHANGED <<portState, running, announced, waiting, queued>>
                  /\ recommendedState' = d.rec
                  /\ expire' = rest
             ELSE ToState(s, d.rec, rest)
    /\ UNCHANGED <<known, heard, sync, role>>

-----------------------------------------------------------------------------
(* doState, third switch *)

\* PTP_INITIALIZING: doInit, then LISTENING; FAULTY if netInit fails.
ActInitializing ==
    /\ pc = "act" /\ portState = "INITIALIZING"
    /\ \/ /\ slaveOnly' = optSlaveOnly
          /\ queued' = FALSE
          /\ known' = FALSE
          /\ elapsed' = FALSE /\ announced' = Self
          /\ M1
          /\ waiting' = FALSE
          /\ portState' = "LISTENING"
          /\ recommendedState' = "LISTENING"
          /\ running' = running \cup Started("LISTENING")
          /\ expire' = expire \ Started("LISTENING")
       \/ /\ ToState("FAULTY", recommendedState, expire)
          /\ UNCHANGED <<slaveOnly, known, elapsed, parent, offsetFrom>>
    /\ EndOfPass
    /\ UNCHANGED <<events, heard, sync, optSlaveOnly, lowClockClass>>

\* PTP_FAULTY: "imaginary troubleshooting", then INITIALIZING.
ActFaulty ==
    /\ pc = "act" /\ portState = "FAULTY"
    /\ ToState("INITIALIZING", recommendedState, expire)
    /\ EndOfPass
    /\ UNCHANGED <<events, elapsed, master, offsetFrom, sync, role>>

\* PTP_PRE_MASTER has no case of its own: no message is read.
ActPreMaster ==
    /\ pc = "act" /\ portState = "PRE_MASTER"
    /\ UNCHANGED <<portState, recommendedState, events, timers, queued, master,
                   servo, role>>
    /\ EndOfPass

\* A bug: the case does not fall through to the announce receipt timeout.
ActListenBreaks ==
    /\ pc = "act" /\ portState \in {"LISTENING", "UNCALIBRATED", "SLAVE"}
    /\ UNCHANGED <<portState, recommendedState, events, timers, queued, master,
                   servo, role>>
    /\ EndOfPass

\* PTP_LISTENING, PTP_UNCALIBRATED, PTP_SLAVE: the MANAGEMENT timer, whose
\* expiry sends a management message and makes a call of handle() of its own.
ActListen ==
    /\ pc = "act" /\ portState \in {"LISTENING", "UNCALIBRATED", "SLAVE"}
    /\ \E due \in Due :
          /\ pc' = IF "MANAGEMENT" \in expire \cup due THEN "manage" ELSE "receipt"
          /\ expire' = (expire \cup due) \ {"MANAGEMENT"}
    /\ elapsed' = FALSE /\ announced' = Self
    /\ UNCHANGED <<portState, recommendedState, events, running, queued, master,
                   servo, role>>

ActPassive ==
    /\ pc = "act" /\ portState = "PASSIVE"
    /\ pc' = "receipt"
    /\ UNCHANGED <<portState, recommendedState, events, timers, queued, master,
                   servo, role>>

\* PTP_MASTER: Sync and Announce are sent when their timers expired.
ActMaster ==
    /\ pc = "act" /\ portState = "MASTER"
    /\ pc' = "masterHandle"
    /\ \E due \in Due : expire' = (expire \cup due) \ {"SYNC", "ANNOUNCE_INTERVAL"}
    /\ elapsed' = FALSE /\ announced' = Self
    /\ UNCHANGED <<portState, recommendedState, events, running, queued, master,
                   servo, role>>

\* The announce receipt timeout, tested in whatever state the port is in by then.
Receipt ==
    /\ pc = "receipt"
    /\ \E due \in Due :
          LET rest == (expire \cup due) \ {"ANNOUNCE_RECEIPT"} IN
          IF "ANNOUNCE_RECEIPT" \notin expire \cup due
          THEN /\ pc' = "handle"
               /\ expire' = rest
               /\ UNCHANGED <<portState, recommendedState, running, queued, known,
                              parent, offsetFrom, waiting>>
          ELSE /\ known' = FALSE
               /\ IF ~slaveOnly
                  THEN /\ M1
                       /\ ToState("MASTER", "MASTER", rest)
                  ELSE /\ UNCHANGED <<parent, offsetFrom>>
                       /\ IF portState # "LISTENING"
                          THEN ToState("LISTENING", recommendedState, rest)
                          ELSE /\ expire' = rest
                               /\ UNCHANGED <<portState, recommendedState,
                                              running, queued, waiting>>
               /\ EndOfPass
    /\ elapsed' = FALSE /\ announced' = Self
    /\ UNCHANGED <<events, heard, sync, role>>

-----------------------------------------------------------------------------
(* handle and the message handlers *)

\* netRecv takes a packet, the event queue's first; more may be queued.
Take == queued /\ queued' \in BOOLEAN

\* Where a call of handle() returns to.
AfterHandle ==
    \/ pc = "manage" /\ pc' = "receipt"
    \/ pc = "handle" /\ EndOfPass
    \/ pc = "masterHandle" /\ pc' = "delayReq"

\* issueDelayReqTimerExpired: the delay request timer is restarted at once.
IssueDelayReqTimerExpired ==
    IF DelayMechanism = "E2E" /\ portState # "SLAVE"
    THEN UNCHANGED timers
    ELSE \E due \in Due, draw \in {0, 1} :
            /\ elapsed' = FALSE /\ announced' = Self
            /\ expire' = (expire \cup due) \ {DelayTimer}
            /\ running' = IF DelayTimer \in expire \cup due
                          THEN (running \ {DelayTimer}) \cup Armed({DelayTimer}, draw)
                          ELSE running

\* netSelect sees nothing, or the message is none of those below (a delay,
\* management or foreign-domain message, or one of the port's own).
HandleNothing ==
    /\ queued' \in IF queued THEN BOOLEAN ELSE {FALSE}
    /\ AfterHandle
    /\ UNCHANGED <<portState, recommendedState, events, timers, master, servo, role>>

\* A message shorter than its type requires, or than the header.
HandleShort ==
    /\ queued
    /\ ToState("FAULTY", recommendedState, expire)
    /\ AfterHandle
    /\ UNCHANGED <<events, elapsed, master, offsetFrom, sync, role>>

\* A bug: in UNCALIBRATED and SLAVE any clock's announce restarts the timeout.
HandleAnnounceAnyClock(m) ==
    /\ Take /\ AfterHandle
    /\ IF portState \notin Operational
       THEN UNCHANGED <<events, known, heard, running, expire, announced>>
       ELSE /\ events' = events \cup {"STATE_DECISION"}
            /\ IF portState \in Following /\ m = parent
               THEN UNCHANGED <<known, heard>>
               ELSE known' = TRUE /\ heard' = heard \cup {m}
            /\ IF portState \in Following \cup {"PASSIVE"}
               THEN /\ running' = running \cup {"ANNOUNCE_RECEIPT"}
                    /\ expire' = expire \ {"ANNOUNCE_RECEIPT"}
                    /\ announced' = m
               ELSE UNCHANGED <<running, expire, announced>>
    /\ UNCHANGED <<portState, recommendedState, elapsed, parent, servo, role>>

\* handleAnnounce, from another clock m.
HandleAnnounce(m) ==
    /\ Take /\ AfterHandle
    /\ IF portState \notin Operational
       THEN UNCHANGED <<events, known, heard, running, expire, announced>>
       ELSE /\ events' = events \cup {"STATE_DECISION"}
            /\ IF portState \in Following /\ m = parent
               THEN UNCHANGED <<known, heard>>
               ELSE known' = TRUE /\ heard' = heard \cup {m}
            /\ IF portState = "PASSIVE" \/ (portState \in Following /\ m = parent)
               THEN /\ running' = running \cup {"ANNOUNCE_RECEIPT"}
                    /\ expire' = expire \ {"ANNOUNCE_RECEIPT"}
                    /\ announced' = m
               ELSE UNCHANGED <<running, expire, announced>>
    /\ UNCHANGED <<portState, recommendedState, elapsed, parent, servo, role>>

\* Flags set by updateOffset for an offset of class o.
OffsetFlags(o) ==
    CASE o = "calibrated" /\ portState = "UNCALIBRATED" -> {"MASTER_SELECTED"}
      [] o \in {"uncalibrated", "jump"} /\ portState = "SLAVE" -> {"SYNC_FAULT"}
      [] OTHER -> {}

\* handleSync, twoStep being the flag in its header.
HandleSync(m, q, twoStep) ==
    /\ Take /\ AfterHandle
    /\ IF portState \in Following /\ m = parent
       THEN IF twoStep
            THEN /\ waiting' = TRUE
                 /\ sync' = [src |-> m, seq |-> q]
                 /\ UNCHANGED <<events, offsetFrom, timers>>
            ELSE /\ waiting' = FALSE
                 /\ offsetFrom' = {m}
                 /\ \E o \in Offsets : events' = events \cup OffsetFlags(o)
                 /\ IssueDelayReqTimerExpired
                 /\ UNCHANGED sync
       ELSE /\ IF portState = "PASSIVE"
               THEN IssueDelayReqTimerExpired
               ELSE UNCHANGED timers
            /\ UNCHANGED <<events, servo>>
    /\ UNCHANGED <<portState, recommendedState, master, role>>

\* handleFollowUp: only while waiting, from the parent, with the Sync's number.
FollowUpMatches(m, q) == waiting /\ m = parent /\ q = sync.seq

HandleFollowUp(m, q) ==
    /\ Take /\ AfterHandle
    /\ IF portState \in Following /\ FollowUpMatches(m, q)
       THEN /\ waiting' = FALSE
            /\ offsetFrom' = {sync.src, m}
            /\ \E o \in Offsets : events' = events \cup OffsetFlags(o)
            /\ IssueDelayReqTimerExpired
       ELSE /\ IF portState = "PASSIVE"
               THEN IssueDelayReqTimerExpired
               ELSE UNCHANGED timers
            /\ UNCHANGED <<events, waiting, offsetFrom>>
    /\ UNCHANGED <<portState, recommendedState, master, sync, role>>

Handle ==
    \/ HandleNothing
    \/ HandleShort
    \/ \E m \in Masters : HandleAnnounce(m)
    \/ \E m \in Masters, q \in SeqIds, twoStep \in BOOLEAN : HandleSync(m, q, twoStep)
    \/ \E m \in Masters, q \in SeqIds : HandleFollowUp(m, q)

\* The MASTER case of doState ends with issueDelayReqTimerExpired.
MasterDelayReq ==
    /\ pc = "delayReq"
    /\ IssueDelayReqTimerExpired
    /\ UNCHANGED <<portState, recommendedState, events, queued, master, servo, role>>
    /\ EndOfPass

-----------------------------------------------------------------------------
(* The superloop, the serial command and the link interrupt *)

\* ptpd_Periodic_Handle: catchAlarm, then the first doState.
Periodic ==
    /\ pc = "idle"
    /\ pc' = "decide"
    /\ elapsed' \in {elapsed, TRUE}
    /\ UNCHANGED <<portState, recommendedState, events, running, expire, announced,
                   queued, master, servo, role>>

\* The Ethernet interrupt queues a packet (netRecvEventCallback and
\* netRecvGeneralCallback).
Arrive ==
    /\ queued' = TRUE
    /\ UNCHANGED <<pc, portState, recommendedState, events, timers, master, servo,
                   role>>

\* "E1 Master" and "E1 Slave": PTPd_Init and ptpdStartup with a new role.
Command ==
    /\ pc = "idle"
    /\ optSlaveOnly' \in BOOLEAN
    /\ ToState("INITIALIZING", recommendedState, expire)
    /\ UNCHANGED <<pc, events, elapsed, master, offsetFrom, sync, slaveOnly,
                   lowClockClass>>

\* ETH_link_callback on link up, from the EXTI4 interrupt: toState(LISTENING),
\* then ptpdStartup, that is toState(INITIALIZING).
LinkUp ==
    /\ portState' = "INITIALIZING"
    /\ recommendedState' = "INITIALIZING"
    /\ running' = running \ (Stopped("LISTENING") \cup {"ANNOUNCE_RECEIPT"})
    /\ expire' = expire \ {"ANNOUNCE_RECEIPT"} /\ announced' = Self
    /\ waiting' = FALSE
    /\ queued' \in {queued, FALSE}
    /\ UNCHANGED <<pc, events, elapsed, master, offsetFrom, sync, role>>

-----------------------------------------------------------------------------
Init ==
    /\ pc = "idle"
    /\ portState = "INITIALIZING" /\ recommendedState = "INITIALIZING"
    /\ events = {} /\ running = {} /\ expire = {} /\ elapsed = FALSE /\ queued = FALSE
    /\ announced = Self
    /\ known = FALSE /\ heard = {} /\ parent = Self
    /\ offsetFrom = {} /\ waiting = FALSE
    /\ sync \in [src : {Self}, seq : SeqIds]
    /\ slaveOnly = FALSE /\ optSlaveOnly = TRUE
    /\ lowClockClass \in LowClockClasses

Act == \/ ActInitializing \/ ActFaulty \/ ActPreMaster
       \/ ActListen \/ ActPassive \/ ActMaster

MainLoop == Periodic \/ Decide \/ Act \/ Receipt \/ Handle \/ MasterDelayReq

Next == MainLoop \/ Arrive \/ Command \/ LinkUp

Spec == Init /\ [][Next]_vars

-----------------------------------------------------------------------------
(* Fairness.  The superloop never stops (MainLoop); SysTick advances         *)
(* LocalTime, so ptpd_Periodic_Handle keeps adding time to elapsed_ms        *)
(* (TimePasses); the network does not deliver packets for ever as fast as    *)
(* they are handled, so a pass that takes packets now and then takes the     *)
(* last one (Drain); the announce receipt timer, unless transitions or       *)
(* announces restart it again and again, expires when enough time has passed *)
(* (TimeUp).  QualifyingSpec says the same of the qualification timer of a   *)
(* port that stays in PRE_MASTER (QualificationUp).                          *)
TimePasses == Periodic /\ elapsed'

Drain == Handle /\ pc = "handle" /\ ~queued'

TimeUp == \/ Act /\ "ANNOUNCE_RECEIPT" \in expire' \ expire
          \/ Receipt /\ pc' # "handle"

QualificationUp == Decide /\ portState = "PRE_MASTER" /\ portState' # "PRE_MASTER"

FairSpec ==
    /\ Spec
    /\ WF_vars(MainLoop)
    /\ SF_vars(TimePasses)
    /\ SF_vars(Drain)
    /\ \/ []<><<portState' # portState>>_vars
       \/ []<>(announced # Self)
       \/ SF_vars(TimeUp)

QualifyingSpec ==
    /\ FairSpec
    /\ []<><<portState' # portState>>_vars \/ SF_vars(QualificationUp)

-----------------------------------------------------------------------------
(* Properties *)

\* Every variable holds a value of the kind its C counterpart holds.
TypeOK ==
    /\ pc \in Pcs
    /\ portState \in PortStates
    /\ recommendedState \in PortStates \ {"FAULTY", "PRE_MASTER", "UNCALIBRATED"}
    /\ events \in SUBSET Flags
    /\ running \in SUBSET Timers /\ expire \in SUBSET Timers
    /\ elapsed \in BOOLEAN /\ queued \in BOOLEAN
    /\ announced \in Masters \cup {Self}
    /\ known \in BOOLEAN /\ heard \in SUBSET Masters
    /\ parent \in Masters \cup {Self}
    /\ offsetFrom \in SUBSET (Masters \cup {Self})
    /\ waiting \in BOOLEAN
    /\ sync \in [src : Masters \cup {Self}, seq : SeqIds]
    /\ slaveOnly \in BOOLEAN /\ optSlaveOnly \in BOOLEAN
    /\ lowClockClass \in BOOLEAN

\* Whatever path the port took, through faults, restarts and the link
\* interrupt, exactly the timers of its state run: the announce receipt timeout
\* in LISTENING, UNCALIBRATED, SLAVE and PASSIVE (else a silent master would
\* never be noticed), the Sync and announce intervals only in MASTER, the
\* qualification timeout only in PRE_MASTER (its only way out).
TimersMatchState ==
    /\ "ANNOUNCE_RECEIPT" \in running
           <=> portState \in {"LISTENING", "UNCALIBRATED", "SLAVE", "PASSIVE"}
    /\ "SYNC" \in running <=> portState = "MASTER"
    /\ "ANNOUNCE_INTERVAL" \in running <=> portState = "MASTER"
    /\ "QUALIFICATION" \in running <=> portState = "PRE_MASTER"
    /\ "MANAGEMENT" \in running => portState \in Following

\* The recommendation outlives the decision that made it, and doState follows it
\* again after a fault: it always agrees with the data sets that m1 or s1 left,
\* and is never one that a slave-only clock must refuse.
RecommendationSound ==
    /\ recommendedState = "MASTER" => parent = Self /\ offsetFrom = {}
    /\ recommendedState = "SLAVE" => parent \in heard
    /\ slaveOnly => recommendedState \notin {"MASTER", "PASSIVE"}

\* A clock configured slave-only (clockClass 255) never serves time and never
\* goes passive, although bmc() recommends MASTER to it and the role can be
\* changed by a command at any time.
SlaveOnlyNeverServes ==
    slaveOnly => portState \notin {"PRE_MASTER", "MASTER", "PASSIVE"}

\* The data sets follow the role: a port that serves announces itself as the
\* parent and has no offset from a master left over from following one, a port
\* that follows has another clock as its parent, one whose announce it received.
ParentMatchesRole ==
    /\ portState \in {"PRE_MASTER", "MASTER"} => parent = Self /\ offsetFrom = {}
    /\ portState \in Following => parent \in heard

\* A Follow_Up is awaited only while the port follows a master: no Sync
\* received in an earlier life of the port can be completed later.
FollowUpAwaitedOnlyWhileFollowing == waiting => portState \in Following

\* A calibrated port never takes another master and stays calibrated: the
\* decision that replaces the parent also sends the port back to UNCALIBRATED.
NewMasterUncalibrates ==
    [][portState = "SLAVE" /\ portState' = "SLAVE" => parent' = parent]_vars

\* A master whose announces stop is given up, however many announces other
\* clocks send and whatever else is queued: the announce receipt timeout runs,
\* only the parent's own announce restarts it, and its expiry is acted on.  One
\* thing defeats it: Syncs of that master whose offset sends a SLAVE back to
\* UNCALIBRATED again and again, a transition that restarts the timer.
SilentMasterAbandoned ==
    \A m \in Masters :
        \/ []<>(portState \notin Following \/ parent # m)
        \/ []<>(announced = m)
        \/ []<>(portState = "SLAVE" /\ "SYNC_FAULT" \in events)

\* A port that may serve does not listen for ever: it hears a clock and
\* decides, or hears none and becomes master.
ListenerDecides == (portState = "LISTENING" /\ ~slaveOnly) ~> portState # "LISTENING"

\* A fault is cleared by troubleshooting and a new initialisation:
\* a FAULTY port goes to INITIALIZING and nowhere else.
FaultyOnlyReinitialised ==
    [][portState = "FAULTY" => portState' \in {"FAULTY", "INITIALIZING"}]_vars

\* The qualification of a port that is to become master comes to an end.
QualificationEnds == portState = "PRE_MASTER" ~> portState # "PRE_MASTER"
-----------------------------------------------------------------------------
(* The master the port chooses *)

DutyIn(s) ==
    CASE s \in {"INITIALIZING", "FAULTY"} -> "STOPPED"
      [] s \in {"PRE_MASTER", "MASTER"} -> "SERVING"
      [] s \in Following -> "FOLLOWING"
      [] OTHER -> s

ClockClass ==
    IF slaveOnly THEN "slaveOnly" ELSE IF lowClockClass THEN "low" ELSE "default"

Choice == INSTANCE MasterChoice WITH
    role <- DutyIn(portState), class <- ClockClass,
    pending <- "STATE_DECISION" \in events

\* The port takes a new role or parent only when an election, a timeout of the
\* announces or an initialisation gives it one, or when it goes on after a fault
\* with one that still agrees with its data sets: no timer, flag, message or old
\* recommendation does, whatever interrupts the pass.
ChoosesAsPromised == Choice!Spec
=============================================================================
