---------------------------- MODULE PtpPortProofs ----------------------------
(***************************************************************************)
(* Proofs about PtpPort, for any set of masters, any sequence numbers,     *)
(* either delay mechanism and either clock class.                          *)
(***************************************************************************)
EXTENDS PtpPort, TLAPS

\* The states a recommendation names.
Recommendations == PortStates \ {"FAULTY", "PRE_MASTER", "UNCALIBRATED"}

-----------------------------------------------------------------------------
(* The state decision *)

\* What Decide does, with the state it moves to named s.
DecideWith(d, due, exp, rest, s) ==
    /\ d \in Decisions /\ due \in Due
    /\ exp = IF Qualifying(d) THEN expire \cup due ELSE expire
    /\ rest = IF Qualifying(d) THEN exp \ {"QUALIFICATION"} ELSE exp
    /\ s = Target(d, "QUALIFICATION" \in exp)
    /\ elapsed' = (elapsed /\ ~ Qualifying(d))
    /\ parent' = d.parent
    /\ offsetFrom' = d.offset
    /\ events' = d.events \ Consumed(d)
    /\ IF s = portState
       THEN /\ UNCHANGED <<portState, running, announced, waiting, queued>>
            /\ recommendedState' = d.rec
            /\ expire' = rest
       ELSE ToState(s, d.rec, rest)
    /\ UNCHANGED <<known, heard, sync, role>>
    /\ pc = "decide" /\ pc' = "act"

\* Decide, with its choices named.
LEMMA DecideChoices ==
    ASSUME Decide
    PROVE  \E d, due, exp, rest, s : DecideWith(d, due, exp, rest, s)
<1>1. PICK d \in Decisions, due \in Due :
          LET exp == IF Qualifying(d) THEN expire \cup due ELSE expire
              rest == IF Qualifying(d) THEN exp \ {"QUALIFICATION"} ELSE exp
              s == Target(d, "QUALIFICATION" \in exp) IN
          /\ Qualifying(d) \/ due = {}
          /\ elapsed' = (elapsed /\ ~ Qualifying(d))
          /\ parent' = d.parent
          /\ offsetFrom' = d.offset
          /\ events' = d.events \ Consumed(d)
          /\ IF s = portState
             THEN /\ UNCHANGED <<portState, running, announced, waiting, queued>>
                  /\ recommendedState' = d.rec
                  /\ expire' = rest
             ELSE ToState(s, d.rec, rest)
  BY DEF Decide
<1> DEFINE exp == IF Qualifying(d) THEN expire \cup due ELSE expire
<1> DEFINE rest == IF Qualifying(d) THEN exp \ {"QUALIFICATION"} ELSE exp
<1> DEFINE s == Target(d, "QUALIFICATION" \in exp)
<1>2. DecideWith(d, due, exp, rest, s)
  BY <1>1 DEF Decide, DecideWith
<1> QED
  BY <1>2

\* A decision is well formed.
LEMMA DecisionType ==
    ASSUME TypeOK, NEW d \in Decisions
    PROVE  /\ d.rec \in Recommendations
           /\ d.parent \in Masters \cup {Self}
           /\ d.events \in SUBSET Flags
           /\ d.offset \in SUBSET (Masters \cup {Self})
<1> USE DEF TypeOK, Decisions, Decision, Allowed, NewMaster, Recommendations,
            PortStates, Operational, Flags
<1> QED
  OBVIOUS

\* A decision agrees with the parent it leaves, as RecommendationSound asks; one
\* that recommends INITIALIZING changes nothing; and one that gives a calibrated
\* port another master says so.
LEMMA DecisionSound ==
    ASSUME TypeOK, RecommendationSound, NEW d \in Decisions
    PROVE  /\ d.rec = "MASTER" => d.parent = Self /\ d.offset = {}
           /\ d.rec = "SLAVE" => d.parent \in heard
           /\ slaveOnly => d.rec \notin {"MASTER", "PASSIVE"}
           /\ d.rec = "INITIALIZING" => d.parent = parent /\ d.offset = offsetFrom
           /\ d.rec = "SLAVE" => d.parent = parent \/ "MASTER_CHANGED" \in d.events
<1> USE DEF TypeOK, RecommendationSound, Decisions, Decision, Allowed, NewMaster,
            PortStates, Operational, Flags
<1> QED
  OBVIOUS

\* Where the second switch can go.
LEMMA TargetCases ==
    ASSUME TypeOK, NEW d \in Decisions, NEW q \in BOOLEAN
    PROVE  LET s == Target(d, q) IN
           /\ s \in PortStates
           /\ s = "SLAVE" => portState \in Following
           /\ s \in {"PRE_MASTER", "MASTER"} =>
                  d.rec = "MASTER" \/ (d.rec = "INITIALIZING" /\ s = portState)
           /\ s \in Following =>
                  d.rec = "SLAVE" \/ (d.rec = "INITIALIZING" /\ s = portState)
           /\ s = "PASSIVE" =>
                  d.rec = "PASSIVE" \/ (d.rec = "INITIALIZING" /\ s = portState)
           /\ s = "INITIALIZING" => s = portState
           /\ s = "SLAVE" /\ portState = "SLAVE" /\ d.rec = "SLAVE" =>
                  "MASTER_CHANGED" \notin d.events
<1>1. d.rec \in Recommendations /\ portState \in PortStates
  BY DecisionType DEF TypeOK
<1>2. CASE d.rec = "MASTER"
  BY <1>1, <1>2 DEF Target, PortStates, Following
<1>3. CASE d.rec = "SLAVE"
  BY <1>1, <1>3 DEF Target, PortStates, Following
<1>4. CASE d.rec \in {"INITIALIZING", "LISTENING", "PASSIVE"}
  BY <1>1, <1>4 DEF Target, PortStates, Following
<1>5. d.rec \in {"MASTER", "SLAVE", "INITIALIZING", "LISTENING", "PASSIVE"}
  BY <1>1 DEF Recommendations, PortStates
<1> QED
  BY <1>2, <1>3, <1>4, <1>5

\* The same for the state a decision is carried out with.
LEMMA DecideTarget ==
    ASSUME TypeOK, NEW d, NEW due, NEW exp, NEW rest, NEW s,
           DecideWith(d, due, exp, rest, s)
    PROVE  /\ d \in Decisions /\ exp \in SUBSET Timers /\ rest \in SUBSET Timers
           /\ s \in PortStates
           /\ s = "SLAVE" => portState \in Following
           /\ s \in {"PRE_MASTER", "MASTER"} =>
                  (d.rec = "MASTER" \/ (d.rec = "INITIALIZING" /\ s = portState))
           /\ s \in Following =>
                  (d.rec = "SLAVE" \/ (d.rec = "INITIALIZING" /\ s = portState))
           /\ s = "PASSIVE" =>
                  (d.rec = "PASSIVE" \/ (d.rec = "INITIALIZING" /\ s = portState))
           /\ s = "INITIALIZING" => s = portState
           /\ s = "SLAVE" /\ portState = "SLAVE" /\ d.rec = "SLAVE" =>
                  "MASTER_CHANGED" \notin d.events
<1>1. d \in Decisions /\ exp \in SUBSET Timers /\ rest \in SUBSET Timers
  BY DEF DecideWith, Due, TypeOK
<1> DEFINE q == "QUALIFICATION" \in exp
<1>2. q \in BOOLEAN /\ s = Target(d, q)
  BY DEF DecideWith
<1> HIDE DEF q
<1> QED
  BY <1>1, <1>2, TargetCases

-----------------------------------------------------------------------------
(* The announce receipt timeout *)

\* What Receipt does, with the timers that stay expired named.
ReceiptWith(rest) ==
    \/ /\ pc' = "handle" /\ expire' = rest
       /\ UNCHANGED <<portState, recommendedState, running, queued, known, parent,
                      offsetFrom, waiting>>
    \/ /\ known' = FALSE /\ EndOfPass
       /\ IF ~slaveOnly
          THEN M1 /\ ToState("MASTER", "MASTER", rest)
          ELSE /\ UNCHANGED <<parent, offsetFrom>>
               /\ IF portState # "LISTENING"
                  THEN ToState("LISTENING", recommendedState, rest)
                  ELSE /\ expire' = rest
                       /\ UNCHANGED <<portState, recommendedState, running, queued,
                                      waiting>>

\* Receipt, with its choice named.
LEMMA ReceiptChoices ==
    ASSUME TypeOK, Receipt
    PROVE  \E rest \in SUBSET Timers : ReceiptWith(rest)
<1>1. PICK due \in Due : ReceiptWith((expire \cup due) \ {"ANNOUNCE_RECEIPT"})
  BY DEF Receipt, ReceiptWith
<1> QED
  BY <1>1 DEF Due, TypeOK

-----------------------------------------------------------------------------
(* Types *)

\* The timers named by the operators of toState are timers.
LEMMA TimerSets ==
    ASSUME NEW s
    PROVE  /\ DelayTimer \in Timers
           /\ Started(s) \in SUBSET Timers
           /\ \A draw : Armed(Started(s), draw) \in SUBSET Timers
BY DEF DelayTimer, Timers, Started, Armed

\* toState leaves values of the right type.
LEMMA ToStateType ==
    ASSUME TypeOK, NEW s \in PortStates, NEW rec \in Recommendations,
           NEW exp \in SUBSET Timers, ToState(s, rec, exp)
    PROVE  /\ portState' \in PortStates
           /\ recommendedState' \in Recommendations
           /\ running' \in SUBSET Timers /\ expire' \in SUBSET Timers
           /\ announced' \in Masters \cup {Self}
           /\ waiting' \in BOOLEAN /\ queued' \in BOOLEAN
<1>1. /\ running' \in SUBSET Timers /\ expire' \in SUBSET Timers
      /\ announced' \in Masters \cup {Self}
  BY TimerSets DEF ToState, TypeOK
<1>2. recommendedState' \in Recommendations
  BY DEF ToState, Recommendations, PortStates
<1>3. waiting' \in BOOLEAN /\ queued' \in BOOLEAN
  BY DEF ToState, TypeOK
<1> QED
  BY <1>1, <1>2, <1>3 DEF ToState

\* So does issueDelayReqTimerExpired.
LEMMA DelayReqType ==
    ASSUME TypeOK, IssueDelayReqTimerExpired
    PROVE  /\ running' \in SUBSET Timers /\ expire' \in SUBSET Timers
           /\ announced' \in Masters \cup {Self}
           /\ elapsed' \in BOOLEAN
<1>1. CASE DelayMechanism = "E2E" /\ portState # "SLAVE"
  BY <1>1 DEF IssueDelayReqTimerExpired, timers, TypeOK
<1>2. CASE ~(DelayMechanism = "E2E" /\ portState # "SLAVE")
  BY <1>2, TimerSets DEF IssueDelayReqTimerExpired, Due, Armed, TypeOK
<1> QED
  BY <1>1, <1>2

\* The types are preserved by every step.
LEMMA TypeStep == TypeOK /\ [Next]_vars => TypeOK'
<1> SUFFICES ASSUME TypeOK, [Next]_vars PROVE TypeOK'
  OBVIOUS
<1> USE DEF timers, master, servo, role
<1>1. CASE Decide
  <2>1. PICK d, due, exp, rest, s : DecideWith(d, due, exp, rest, s)
    BY <1>1, DecideChoices
  <2>2. /\ d \in Decisions /\ exp \in SUBSET Timers /\ rest \in SUBSET Timers
        /\ s \in PortStates
    BY <2>1, DecideTarget
  <2>4. /\ d.rec \in Recommendations
        /\ d.parent \in Masters \cup {Self}
        /\ d.events \in SUBSET Flags
        /\ d.offset \in SUBSET (Masters \cup {Self})
    BY <2>2, DecisionType
  <2>5. /\ portState' \in PortStates
        /\ recommendedState' \in Recommendations
        /\ running' \in SUBSET Timers /\ expire' \in SUBSET Timers
        /\ announced' \in Masters \cup {Self}
        /\ waiting' \in BOOLEAN /\ queued' \in BOOLEAN
    BY <2>1, <2>2, <2>4, ToStateType DEF DecideWith, TypeOK
  <2>6. /\ parent' \in Masters \cup {Self}
        /\ events' \in SUBSET Flags
        /\ offsetFrom' \in SUBSET (Masters \cup {Self})
        /\ elapsed' \in BOOLEAN /\ pc' \in Pcs
    BY <2>1, <2>4 DEF DecideWith, TypeOK, Pcs
  <2> QED
    BY <2>1, <2>5, <2>6 DEF DecideWith, TypeOK, Recommendations
<1>2. CASE Act
  <2>1. CASE ActInitializing
    <3>1. CASE ToState("FAULTY", recommendedState, expire)
      <4>1. /\ portState' \in PortStates
            /\ recommendedState' \in Recommendations
            /\ running' \in SUBSET Timers /\ expire' \in SUBSET Timers
            /\ announced' \in Masters \cup {Self}
            /\ waiting' \in BOOLEAN /\ queued' \in BOOLEAN
        BY <3>1, ToStateType DEF TypeOK, PortStates, Recommendations
      <4> QED
        BY <2>1, <3>1, <4>1
           DEF ActInitializing, M1, EndOfPass, TypeOK, Pcs, Recommendations
    <3>2. CASE ~ToState("FAULTY", recommendedState, expire)
      BY <2>1, <3>2, TimerSets
         DEF ActInitializing, M1, EndOfPass, TypeOK, Pcs, PortStates
    <3> QED
      BY <3>1, <3>2
  <2>2. CASE ActFaulty
    <3>1. /\ portState' \in PortStates
          /\ recommendedState' \in Recommendations
          /\ running' \in SUBSET Timers /\ expire' \in SUBSET Timers
          /\ announced' \in Masters \cup {Self}
          /\ waiting' \in BOOLEAN /\ queued' \in BOOLEAN
      BY <2>2, ToStateType DEF ActFaulty, TypeOK, PortStates, Recommendations
    <3> QED
      BY <2>2, <3>1 DEF ActFaulty, EndOfPass, TypeOK, Pcs, Recommendations
  <2>3. CASE ActPreMaster
    BY <2>3 DEF ActPreMaster, EndOfPass, TypeOK, Pcs
  <2>4. CASE ActListen
    BY <2>4 DEF ActListen, Due, TypeOK, Pcs
  <2>5. CASE ActPassive
    BY <2>5 DEF ActPassive, TypeOK, Pcs
  <2>6. CASE ActMaster
    BY <2>6 DEF ActMaster, Due, TypeOK, Pcs
  <2> QED
    BY <1>2, <2>1, <2>2, <2>3, <2>4, <2>5, <2>6 DEF Act
<1>3. CASE Receipt
  <2>1. PICK rest \in SUBSET Timers : ReceiptWith(rest)
    BY <1>3, ReceiptChoices
  <2>2. /\ portState' \in PortStates
        /\ recommendedState' \in Recommendations
        /\ running' \in SUBSET Timers /\ expire' \in SUBSET Timers
        /\ waiting' \in BOOLEAN /\ queued' \in BOOLEAN
    BY <2>1, ToStateType DEF ReceiptWith, TypeOK, PortStates, Recommendations
  <2>3. announced' \in Masters \cup {Self}
    BY <1>3 DEF Receipt
  <2> QED
    BY <1>3, <2>1, <2>2, <2>3 DEF Receipt, ReceiptWith, M1, EndOfPass, TypeOK, Pcs, Recommendations
<1>4. CASE Handle
  <2>1. ASSUME AfterHandle PROVE pc' \in Pcs
    BY <2>1 DEF AfterHandle, EndOfPass, Pcs
  <2>2. CASE HandleNothing
    BY <2>1, <2>2 DEF HandleNothing, TypeOK
  <2>3. CASE HandleShort
    <3>1. /\ portState' \in PortStates
          /\ recommendedState' \in Recommendations
          /\ running' \in SUBSET Timers /\ expire' \in SUBSET Timers
          /\ announced' \in Masters \cup {Self}
          /\ waiting' \in BOOLEAN /\ queued' \in BOOLEAN
      BY <2>3, ToStateType DEF HandleShort, TypeOK, PortStates, Recommendations
    <3> QED
      BY <2>1, <2>3, <3>1 DEF HandleShort, TypeOK, Recommendations
  <2>4. ASSUME NEW m \in Masters, HandleAnnounce(m) PROVE TypeOK'
    BY <2>1, <2>4 DEF HandleAnnounce, Take, TypeOK, Flags, Timers
  <2>5. ASSUME NEW m \in Masters, NEW q \in SeqIds, NEW twoStep \in BOOLEAN,
               HandleSync(m, q, twoStep)
        PROVE  TypeOK'
    <3>1. /\ running' \in SUBSET Timers /\ expire' \in SUBSET Timers
          /\ announced' \in Masters \cup {Self}
          /\ elapsed' \in BOOLEAN
      BY <2>5, DelayReqType DEF HandleSync, TypeOK
    <3>2. events' \in SUBSET Flags
      BY <2>5 DEF HandleSync, OffsetFlags, TypeOK, Flags
    <3>3. /\ offsetFrom' \in SUBSET (Masters \cup {Self}) /\ waiting' \in BOOLEAN
          /\ sync' = sync \/ sync' = [src |-> m, seq |-> q]
      BY <2>5 DEF HandleSync, TypeOK
    <3>4. sync' \in [src : Masters \cup {Self}, seq : SeqIds]
      BY <2>5, <3>3 DEF TypeOK
    <3> QED
      BY <2>1, <2>5, <3>1, <3>2, <3>3, <3>4 DEF HandleSync, Take, TypeOK
  <2>6. ASSUME NEW m \in Masters, NEW q \in SeqIds, HandleFollowUp(m, q)
        PROVE  TypeOK'
    <3>1. /\ running' \in SUBSET Timers /\ expire' \in SUBSET Timers
          /\ announced' \in Masters \cup {Self}
          /\ elapsed' \in BOOLEAN
      BY <2>6, DelayReqType DEF HandleFollowUp, TypeOK
    <3>2. events' \in SUBSET Flags
      BY <2>6 DEF HandleFollowUp, OffsetFlags, TypeOK, Flags
    <3>3. offsetFrom' \in SUBSET (Masters \cup {Self}) /\ waiting' \in BOOLEAN
      BY <2>6 DEF HandleFollowUp, TypeOK
    <3> QED
      BY <2>1, <2>6, <3>1, <3>2, <3>3 DEF HandleFollowUp, Take, TypeOK
  <2> QED
    BY <1>4, <2>2, <2>3, <2>4, <2>5, <2>6 DEF Handle
<1>5. CASE MasterDelayReq
  BY <1>5, DelayReqType DEF MasterDelayReq, EndOfPass, TypeOK, Pcs
<1>6. CASE Periodic
  BY <1>6 DEF Periodic, TypeOK, Pcs
<1>7. CASE Arrive
  BY <1>7 DEF Arrive, TypeOK
<1>8. CASE Command
  <2>1. /\ portState' \in PortStates
        /\ recommendedState' \in Recommendations
        /\ running' \in SUBSET Timers /\ expire' \in SUBSET Timers
        /\ announced' \in Masters \cup {Self}
        /\ waiting' \in BOOLEAN /\ queued' \in BOOLEAN
    BY <1>8, ToStateType DEF Command, TypeOK, PortStates, Recommendations
  <2> QED
    BY <1>8, <2>1 DEF Command, TypeOK, Recommendations
<1>9. CASE LinkUp
  BY <1>9 DEF LinkUp, TypeOK, PortStates
<1>10. CASE UNCHANGED vars
  BY <1>10 DEF vars, TypeOK
<1> QED
  BY <1>1, <1>2, <1>3, <1>4, <1>5, <1>6, <1>7, <1>8, <1>9, <1>10 DEF Next, MainLoop

\* Every variable keeps the type of its C counterpart, on every path of the state
\* machine.
THEOREM TypeCorrect == Spec => []TypeOK
<1>1. Init => TypeOK
  BY PortAssumption DEF Init, TypeOK, Pcs, PortStates, Flags
<1> QED
  BY <1>1, TypeStep, PTL DEF Spec

-----------------------------------------------------------------------------
(* The timers of each state *)

\* toState starts and stops what the new state asks for.
LEMMA ToStateTimers ==
    ASSUME TypeOK, TimersMatchState, NEW s \in PortStates, NEW rec, NEW exp,
           ToState(s, rec, exp), s = "SLAVE" => portState \in Following
    PROVE  TimersMatchState'
<1>1. portState' = s /\ portState \in PortStates
  BY DEF ToState, TypeOK
<1>2. PICK draw \in {0, 1} :
        running' = (running \ (Stopped(s) \cup Started(s))) \cup Armed(Started(s), draw)
  BY DEF ToState
<1>3. DelayTimer \in {"PDELAYREQ", "DELAYREQ"}
  BY DEF DelayTimer
<1>4. \A t \in {"ANNOUNCE_RECEIPT", "SYNC", "ANNOUNCE_INTERVAL", "QUALIFICATION",
                "MANAGEMENT"} :
        t \in running' <=> (t \in running /\ t \notin Stopped(s)) \/ t \in Started(s)
  BY <1>2, <1>3 DEF Armed
<1>5. /\ "ANNOUNCE_RECEIPT" \in running' <=>
            s \in {"LISTENING", "UNCALIBRATED", "SLAVE", "PASSIVE"}
      /\ "SYNC" \in running' <=> s = "MASTER"
      /\ "ANNOUNCE_INTERVAL" \in running' <=> s = "MASTER"
      /\ "QUALIFICATION" \in running' <=> s = "PRE_MASTER"
      /\ "MANAGEMENT" \in running' => s \in Following
  BY <1>1, <1>3, <1>4
     DEF TimersMatchState, Stopped, Started, Following, PortStates
<1> QED
  BY <1>1, <1>5 DEF TimersMatchState

\* issueDelayReqTimerExpired touches no other timer.
LEMMA DelayReqTimers ==
    ASSUME IssueDelayReqTimerExpired
    PROVE  \A t : t \notin {"PDELAYREQ", "DELAYREQ"} => (t \in running' <=> t \in running)
BY DEF IssueDelayReqTimerExpired, timers, Armed, DelayTimer

\* Every step leaves exactly the timers of the port's state running.
LEMMA TimersStep == TypeOK /\ TimersMatchState /\ [Next]_vars => TimersMatchState'
<1> SUFFICES ASSUME TypeOK, TimersMatchState, [Next]_vars PROVE TimersMatchState'
  OBVIOUS
<1> USE DEF timers, master, servo, role
<1> DEFINE Untouched == portState' = portState /\ running' = running
<1>0. ASSUME Untouched PROVE TimersMatchState'
  BY <1>0 DEF TimersMatchState
<1>1. CASE Decide
  <2>1. PICK d, due, exp, rest, s : DecideWith(d, due, exp, rest, s)
    BY <1>1, DecideChoices
  <2>2. s \in PortStates /\ (s = "SLAVE" => portState \in Following)
    BY <2>1, DecideTarget
  <2> QED
    BY <1>0, <2>1, <2>2, ToStateTimers DEF DecideWith
<1>2. CASE ActInitializing
  <2>1. CASE ToState("FAULTY", recommendedState, expire)
    BY <2>1, ToStateTimers DEF PortStates
  <2>2. CASE ~ToState("FAULTY", recommendedState, expire)
    BY <1>2, <2>2 DEF ActInitializing, TimersMatchState, Started, Following
  <2> QED
    BY <2>1, <2>2
<1>3. CASE ActFaulty
  BY <1>3, ToStateTimers DEF ActFaulty, PortStates
<1>4. CASE ActPreMaster \/ ActListen \/ ActPassive \/ ActMaster
  BY <1>0, <1>4 DEF ActPreMaster, ActListen, ActPassive, ActMaster
<1>5. CASE Receipt
  <2>1. PICK rest \in SUBSET Timers : ReceiptWith(rest)
    BY <1>5, ReceiptChoices
  <2> QED
    BY <1>0, <2>1, ToStateTimers DEF ReceiptWith, PortStates
<1>6. CASE Handle
  <2>1. CASE HandleNothing
    BY <1>0, <2>1 DEF HandleNothing
  <2>2. CASE HandleShort
    BY <2>2, ToStateTimers DEF HandleShort, PortStates
  <2>3. ASSUME NEW m \in Masters, HandleAnnounce(m) PROVE TimersMatchState'
    BY <2>3 DEF HandleAnnounce, TimersMatchState, Following
  <2>4. ASSUME portState' = portState, Untouched \/ IssueDelayReqTimerExpired
        PROVE  TimersMatchState'
    BY <1>0, <2>4, DelayReqTimers DEF TimersMatchState
  <2>5. ASSUME NEW m \in Masters, NEW q \in SeqIds, NEW twoStep \in BOOLEAN,
               HandleSync(m, q, twoStep)
        PROVE  TimersMatchState'
    BY <2>4, <2>5 DEF HandleSync
  <2>6. ASSUME NEW m \in Masters, NEW q \in SeqIds, HandleFollowUp(m, q)
        PROVE  TimersMatchState'
    BY <2>4, <2>6 DEF HandleFollowUp
  <2> QED
    BY <1>6, <2>1, <2>2, <2>3, <2>5, <2>6 DEF Handle
<1>7. CASE MasterDelayReq
  BY <1>7, DelayReqTimers DEF MasterDelayReq, TimersMatchState
<1>8. CASE Periodic \/ Arrive
  BY <1>0, <1>8 DEF Periodic, Arrive
<1>9. CASE Command
  BY <1>9, ToStateTimers DEF Command, PortStates
<1>10. CASE LinkUp
  BY <1>10 DEF LinkUp, TimersMatchState, Stopped, Following, TypeOK, PortStates
<1>11. CASE UNCHANGED vars
  BY <1>0, <1>11 DEF vars
<1> QED
  BY <1>1, <1>2, <1>3, <1>4, <1>5, <1>6, <1>7, <1>8, <1>9, <1>10, <1>11
     DEF Next, MainLoop, Act

\* On every path of the state machine exactly the timers of its state run: a
\* port that follows or listens always has the announce receipt timeout.
THEOREM TimersCorrect == Spec => []TimersMatchState
<1>1. Init => TimersMatchState
  BY DEF Init, TimersMatchState, Following
<1> QED
  BY <1>1, TypeCorrect, TimersStep, PTL DEF Spec

-----------------------------------------------------------------------------
(* The role of the port *)

\* What is inductive: a role can be followed again after the decision that gave
\* it, so the recommendation has to be sound as well as the state.
RoleInv == RecommendationSound /\ ParentMatchesRole /\ SlaveOnlyNeverServes

\* Every step keeps role, recommendation and parent data set in agreement.
LEMMA RoleStep == TypeOK /\ RoleInv /\ [Next]_vars => RoleInv'
<1> SUFFICES ASSUME TypeOK, RoleInv, [Next]_vars PROVE RoleInv'
  OBVIOUS
<1> USE DEF master, servo, role
<1>0. ASSUME UNCHANGED <<portState, recommendedState, parent, slaveOnly>>,
             heard \subseteq heard', offsetFrom' = offsetFrom \/ portState \in Following
      PROVE  RoleInv'
  BY <1>0, PortAssumption DEF TypeOK, RoleInv, RecommendationSound, ParentMatchesRole,
                              SlaveOnlyNeverServes, Following
<1>1. ASSUME NEW s \in {"INITIALIZING", "FAULTY", "LISTENING"}, NEW exp,
             ToState(s, recommendedState, exp),
             UNCHANGED <<parent, offsetFrom, heard, slaveOnly>>
      PROVE  RoleInv'
  BY <1>1 DEF ToState, RoleInv, RecommendationSound, ParentMatchesRole,
              SlaveOnlyNeverServes, Following
<1>2. CASE Decide
  <2>1. PICK d, due, exp, rest, s : DecideWith(d, due, exp, rest, s)
    BY <1>2, DecideChoices
  <2>2. /\ d.rec = "MASTER" => d.parent = Self /\ d.offset = {}
        /\ d.rec = "SLAVE" => d.parent \in heard
        /\ slaveOnly => d.rec \notin {"MASTER", "PASSIVE"}
        /\ d.rec = "INITIALIZING" => d.parent = parent /\ d.offset = offsetFrom
    BY <2>1, DecideTarget, DecisionSound DEF RoleInv
  <2>3. /\ s \in {"PRE_MASTER", "MASTER"} =>
              (d.rec = "MASTER" \/ (d.rec = "INITIALIZING" /\ s = portState))
        /\ s \in Following =>
              (d.rec = "SLAVE" \/ (d.rec = "INITIALIZING" /\ s = portState))
        /\ s = "PASSIVE" =>
              (d.rec = "PASSIVE" \/ (d.rec = "INITIALIZING" /\ s = portState))
    BY <2>1, DecideTarget
  <2>4. /\ portState' = s /\ parent' = d.parent /\ heard' = heard
        /\ slaveOnly' = slaveOnly /\ offsetFrom' = d.offset
        /\ recommendedState' \in {d.rec, "INITIALIZING", "LISTENING"}
    BY <2>1 DEF DecideWith, ToState
  <2>5. RecommendationSound'
    BY <2>2, <2>4 DEF RecommendationSound
  <2>6. ParentMatchesRole'
    BY <2>2, <2>3, <2>4 DEF RoleInv, ParentMatchesRole, Following
  <2>7. SlaveOnlyNeverServes'
    BY <2>2, <2>3, <2>4 DEF RoleInv, SlaveOnlyNeverServes
  <2> QED
    BY <2>5, <2>6, <2>7 DEF RoleInv
<1>3. CASE ActInitializing
  <2>1. CASE ToState("FAULTY", recommendedState, expire)
            /\ UNCHANGED <<parent, offsetFrom, slaveOnly>>
    BY <1>1, <1>3, <2>1 DEF ActInitializing
  <2>2. CASE portState' = "LISTENING" /\ recommendedState' = "LISTENING"
    BY <2>2 DEF RoleInv, RecommendationSound, ParentMatchesRole,
                SlaveOnlyNeverServes, Following
  <2> QED
    BY <1>3, <2>1, <2>2 DEF ActInitializing
<1>4. CASE ActFaulty
  BY <1>1, <1>4 DEF ActFaulty
<1>5. CASE ActPreMaster \/ ActListen \/ ActPassive \/ ActMaster
  BY <1>0, <1>5 DEF ActPreMaster, ActListen, ActPassive, ActMaster
<1>6. CASE Receipt
  <2>1. PICK rest \in SUBSET Timers : ReceiptWith(rest)
    BY <1>6, ReceiptChoices
  <2>2. heard' = heard /\ slaveOnly' = slaveOnly
    BY <1>6 DEF Receipt
  <2>3. CASE ~slaveOnly /\ M1 /\ ToState("MASTER", "MASTER", rest)
    BY <2>2, <2>3 DEF M1, ToState, RoleInv, RecommendationSound, ParentMatchesRole,
                      SlaveOnlyNeverServes, Following
  <2>4. CASE ToState("LISTENING", recommendedState, rest) /\ UNCHANGED <<parent, offsetFrom>>
    BY <1>1, <2>2, <2>4
  <2>5. CASE UNCHANGED <<portState, recommendedState, parent, offsetFrom>>
    BY <1>0, <2>2, <2>5
  <2> QED
    BY <2>1, <2>3, <2>4, <2>5 DEF ReceiptWith
<1>7. CASE Handle
  <2>1. CASE HandleNothing
    BY <1>0, <2>1 DEF HandleNothing
  <2>2. CASE HandleShort
    BY <1>1, <2>2 DEF HandleShort
  <2>3. ASSUME NEW m \in Masters, HandleAnnounce(m) PROVE RoleInv'
    BY <1>0, <2>3 DEF HandleAnnounce
  <2>4. ASSUME NEW m \in Masters, NEW q \in SeqIds, NEW twoStep \in BOOLEAN,
               HandleSync(m, q, twoStep)
        PROVE  RoleInv'
    BY <1>0, <2>4 DEF HandleSync
  <2>5. ASSUME NEW m \in Masters, NEW q \in SeqIds, HandleFollowUp(m, q)
        PROVE  RoleInv'
    BY <1>0, <2>5 DEF HandleFollowUp
  <2> QED
    BY <1>7, <2>1, <2>2, <2>3, <2>4, <2>5 DEF Handle
<1>8. CASE MasterDelayReq \/ Periodic \/ Arrive
  BY <1>0, <1>8 DEF MasterDelayReq, Periodic, Arrive
<1>9. CASE Command
  BY <1>1, <1>9 DEF Command
<1>10. CASE LinkUp
  BY <1>10 DEF LinkUp, RoleInv, RecommendationSound, ParentMatchesRole,
               SlaveOnlyNeverServes, Following
<1>11. CASE UNCHANGED vars
  BY <1>0, <1>11 DEF vars
<1> QED
  BY <1>2, <1>3, <1>4, <1>5, <1>6, <1>7, <1>8, <1>9, <1>10, <1>11
     DEF Next, MainLoop, Act

\* The role invariant holds in every reachable state.
LEMMA RoleCorrect == Spec => []RoleInv
<1>1. Init => RoleInv
  BY DEF Init, RoleInv, RecommendationSound, ParentMatchesRole,
         SlaveOnlyNeverServes, Following
<1> QED
  BY <1>1, TypeCorrect, RoleStep, PTL DEF Spec

\* A clock configured slave-only never serves time, whatever bmc recommended,
\* before or after a change of configuration, a fault or a restart.
THEOREM SlaveOnlyCorrect == Spec => []SlaveOnlyNeverServes
<1>1. RoleInv => SlaveOnlyNeverServes
  BY DEF RoleInv
<1> QED
  BY <1>1, RoleCorrect, PTL

\* A recommendation that doState may follow again agrees with the parent data
\* set and the offset, and is one the clock may follow.
THEOREM RecommendationCorrect == Spec => []RecommendationSound
<1>1. RoleInv => RecommendationSound
  BY DEF RoleInv
<1> QED
  BY <1>1, RoleCorrect, PTL

\* A port that serves names itself as the parent and has no offset, a port that
\* follows names a clock whose announce it has received.
THEOREM ParentCorrect == Spec => []ParentMatchesRole
<1>1. RoleInv => ParentMatchesRole
  BY DEF RoleInv
<1> QED
  BY <1>1, RoleCorrect, PTL

\* A step that begins and ends in SLAVE keeps the parent.
LEMMA NewMasterStep ==
    ASSUME TypeOK, RoleInv, [Next]_vars, portState = "SLAVE", portState' = "SLAVE"
    PROVE  parent' = parent
<1> SUFFICES ASSUME Next PROVE parent' = parent
  BY DEF vars, master
<1> USE DEF master, role
<1>1. CASE Decide
  <2>1. PICK d, due, exp, rest, s : DecideWith(d, due, exp, rest, s)
    BY <1>1, DecideChoices
  <2>2. s = "SLAVE" /\ parent' = d.parent
    BY <2>1 DEF DecideWith, ToState
  <2>3. /\ d.rec = "INITIALIZING" => d.parent = parent
        /\ d.rec = "SLAVE" => d.parent = parent \/ "MASTER_CHANGED" \in d.events
    BY <2>1, DecideTarget, DecisionSound DEF RoleInv
  <2>4. d.rec = "INITIALIZING" \/ (d.rec = "SLAVE" /\ "MASTER_CHANGED" \notin d.events)
    BY <2>1, <2>2, DecideTarget DEF Following
  <2> QED
    BY <2>2, <2>3, <2>4
<1>2. CASE Act
  BY <1>2 DEF Act, ActInitializing, ActFaulty, ActPreMaster, ActListen, ActPassive,
              ActMaster
<1>3. CASE Receipt
  <2>1. PICK rest \in SUBSET Timers : ReceiptWith(rest)
    BY <1>3, ReceiptChoices
  <2> QED
    BY <2>1 DEF ReceiptWith, ToState
<1>4. CASE Handle
  BY <1>4 DEF Handle, HandleNothing, HandleShort, HandleAnnounce, HandleSync,
              HandleFollowUp
<1>5. CASE MasterDelayReq \/ Periodic \/ Arrive \/ Command \/ LinkUp
  BY <1>5 DEF MasterDelayReq, Periodic, Arrive, Command, LinkUp, ToState
<1> QED
  BY <1>1, <1>2, <1>3, <1>4, <1>5 DEF Next, MainLoop

\* The decision that gives a calibrated port another master also takes its
\* calibration away.
THEOREM NewMasterCorrect == Spec => NewMasterUncalibrates
<1> DEFINE A == portState = "SLAVE" /\ portState' = "SLAVE" => parent' = parent
<1>1. TypeOK /\ RoleInv /\ [Next]_vars => [A]_vars
  BY NewMasterStep
<1> QED
  BY <1>1, TypeCorrect, RoleCorrect, PTL DEF Spec, NewMasterUncalibrates

-----------------------------------------------------------------------------
(* The Sync being completed *)

\* Every step that leaves a master also forgets its Sync.
LEMMA FollowUpStep ==
    TypeOK /\ FollowUpAwaitedOnlyWhileFollowing /\ [Next]_vars
        => FollowUpAwaitedOnlyWhileFollowing'
<1> SUFFICES ASSUME TypeOK, FollowUpAwaitedOnlyWhileFollowing, [Next]_vars
             PROVE  FollowUpAwaitedOnlyWhileFollowing'
  OBVIOUS
<1> USE DEF servo, FollowUpAwaitedOnlyWhileFollowing
<1>1. ASSUME NEW s, NEW rec, NEW exp, ToState(s, rec, exp)
      PROVE  FollowUpAwaitedOnlyWhileFollowing'
  BY <1>1 DEF ToState, ResetsClock, Operational, Following, PortStates
<1>2. CASE Decide
  <2>1. PICK d, due, exp, rest, s : DecideWith(d, due, exp, rest, s)
    BY <1>2, DecideChoices
  <2> QED
    BY <1>1, <2>1 DEF DecideWith
<1>3. CASE Act
  BY <1>1, <1>3 DEF Act, ActInitializing, ActFaulty, ActPreMaster, ActListen,
                    ActPassive, ActMaster
<1>4. CASE Receipt
  <2>1. PICK rest \in SUBSET Timers : ReceiptWith(rest)
    BY <1>4, ReceiptChoices
  <2> QED
    BY <1>1, <2>1 DEF ReceiptWith
<1>5. CASE Handle
  BY <1>1, <1>5 DEF Handle, HandleNothing, HandleShort, HandleAnnounce, HandleSync,
                    HandleFollowUp
<1>6. CASE MasterDelayReq \/ Periodic \/ Arrive
  BY <1>6 DEF MasterDelayReq, Periodic, Arrive
<1>7. CASE Command \/ LinkUp
  BY <1>1, <1>7 DEF Command, LinkUp
<1>8. CASE UNCHANGED vars
  BY <1>8 DEF vars
<1> QED
  BY <1>2, <1>3, <1>4, <1>5, <1>6, <1>7, <1>8 DEF Next, MainLoop

\* No Sync received before a fault, a restart or a change of role can be
\* completed after it.
THEOREM FollowUpCorrect == Spec => []FollowUpAwaitedOnlyWhileFollowing
<1>1. Init => FollowUpAwaitedOnlyWhileFollowing
  BY DEF Init, FollowUpAwaitedOnlyWhileFollowing
<1> QED
  BY <1>1, TypeCorrect, FollowUpStep, PTL DEF Spec

-----------------------------------------------------------------------------
(* The port implements MasterChoice *)

\* Why an old recommendation changes nothing in a state doState decides in: it
\* is the one that led there, or a restart has withdrawn it.  And no announce
\* receipt timeout is looked at in a state that serves.
Agree ==
    /\ portState = "INITIALIZING" => recommendedState \in {"INITIALIZING", "LISTENING"}
    /\ portState \in Operational =>
           \/ recommendedState = "INITIALIZING"
           \/ recommendedState = "MASTER" /\ portState \in {"PRE_MASTER", "MASTER"}
           \/ recommendedState = "SLAVE" /\ portState \in Following
           \/ recommendedState = portState /\ portState \in {"PASSIVE", "LISTENING"}
    /\ pc \in {"manage", "receipt"} => portState \notin {"PRE_MASTER", "MASTER"}

\* The duty of each state.
LEMMA DutyCases ==
    ASSUME NEW s \in PortStates
    PROVE  /\ DutyIn(s) = "STOPPED" <=> s \notin Operational
           /\ DutyIn(s) = "SERVING" <=> s \in {"PRE_MASTER", "MASTER"}
           /\ DutyIn(s) = "FOLLOWING" <=> s \in Following
           /\ DutyIn(s) = "PASSIVE" <=> s = "PASSIVE"
           /\ DutyIn(s) = "LISTENING" <=> s = "LISTENING"
BY DEF DutyIn, Operational, Following, PortStates

\* The second switch does what is recommended, whatever state it starts from.
LEMMA TargetDuty ==
    ASSUME TypeOK, NEW d \in Decisions, NEW q \in BOOLEAN
    PROVE  LET s == Target(d, q) IN
           /\ d.rec = "MASTER" => s \in {"PRE_MASTER", "MASTER"}
           /\ d.rec = "SLAVE" => s \in Following
           /\ d.rec \in {"PASSIVE", "LISTENING"} => s = d.rec
           /\ d.rec = "INITIALIZING" => s = portState
<1>1. portState \in PortStates
  BY DEF TypeOK
<1>2. CASE d.rec = "MASTER"
  BY <1>1, <1>2 DEF Target, PortStates, Following
<1>3. CASE d.rec = "SLAVE"
  BY <1>1, <1>3 DEF Target, PortStates, Following
<1>4. CASE d.rec \notin {"MASTER", "SLAVE"}
  BY <1>1, <1>4 DEF Target
<1> QED
  BY <1>2, <1>3, <1>4

\* The same for a step of Decide, with what the step leaves in the variables.
LEMMA DecideDuty ==
    ASSUME TypeOK, NEW d, NEW due, NEW exp, NEW rest, NEW s,
           DecideWith(d, due, exp, rest, s)
    PROVE  /\ d \in Decisions /\ s \in PortStates
           /\ d.rec = "MASTER" => s \in {"PRE_MASTER", "MASTER"}
           /\ d.rec = "SLAVE" => s \in Following
           /\ d.rec \in {"PASSIVE", "LISTENING"} => s = d.rec
           /\ d.rec = "INITIALIZING" => s = portState
           /\ portState' = s /\ parent' = d.parent
           /\ recommendedState' = IF s # portState /\ s \in {"INITIALIZING", "LISTENING"}
                                  THEN s ELSE d.rec
           /\ events' = d.events \ Consumed(d)
           /\ UNCHANGED <<known, heard, slaveOnly, lowClockClass>>
<1>1. d \in Decisions /\ s \in PortStates
  BY DecideTarget
<1> DEFINE q == "QUALIFICATION" \in exp
<1>2. q \in BOOLEAN /\ s = Target(d, q)
  BY DEF DecideWith
<1>3. /\ portState' = s /\ parent' = d.parent
      /\ recommendedState' = IF s # portState /\ s \in {"INITIALIZING", "LISTENING"}
                             THEN s ELSE d.rec
      /\ events' = d.events \ Consumed(d)
      /\ UNCHANGED <<known, heard, slaveOnly, lowClockClass>>
  BY DEF DecideWith, ToState, role
<1> HIDE DEF q
<1> QED
  BY <1>1, <1>2, <1>3, TargetDuty

LEMMA AgreeStep == TypeOK /\ Agree /\ [Next]_vars => Agree'
<1> SUFFICES ASSUME TypeOK, Agree, [Next]_vars PROVE Agree'
  OBVIOUS
<1> USE DEF Agree, Operational, Following
<1>1. ASSUME UNCHANGED <<portState, recommendedState>>,
             pc' \in {"manage", "receipt"} => portState \notin {"PRE_MASTER", "MASTER"}
      PROVE  Agree'
  BY <1>1
<1>2. ASSUME NEW s \in {"INITIALIZING", "FAULTY", "LISTENING"}, NEW exp,
             ToState(s, recommendedState, exp)
      PROVE  Agree'
  BY <1>2 DEF ToState
<1>3. CASE Decide
  <2>1. PICK d, due, exp, rest, s : DecideWith(d, due, exp, rest, s)
    BY <1>3, DecideChoices
  <2>2. d.rec \in Recommendations
    BY <2>1, DecideTarget, DecisionType
  <2>3. /\ s \in PortStates
        /\ d.rec = "MASTER" => s \in {"PRE_MASTER", "MASTER"}
        /\ d.rec = "SLAVE" => s \in {"UNCALIBRATED", "SLAVE"}
        /\ d.rec \in {"PASSIVE", "LISTENING"} => s = d.rec
        /\ portState' = s
        /\ recommendedState' = IF s # portState /\ s \in {"INITIALIZING", "LISTENING"}
                               THEN s ELSE d.rec
    BY <2>1, DecideDuty
  <2>4. pc' = "act"
    BY <1>3 DEF Decide
  <2> QED
    BY <2>2, <2>3, <2>4 DEF Recommendations, PortStates
<1>4. CASE ActInitializing
  BY <1>2, <1>4 DEF ActInitializing, EndOfPass
<1>5. CASE ActFaulty
  BY <1>2, <1>5 DEF ActFaulty
<1>6. CASE ActPreMaster \/ ActMaster
  BY <1>1, <1>6 DEF ActPreMaster, ActMaster, EndOfPass
<1>7. CASE ActListen \/ ActPassive
  BY <1>1, <1>7 DEF ActListen, ActPassive
<1>8. CASE Receipt
  <2>1. PICK rest \in SUBSET Timers : ReceiptWith(rest)
    BY <1>8, ReceiptChoices
  <2>2. CASE /\ pc' = "handle" /\ UNCHANGED <<portState, recommendedState>>
    BY <1>1, <2>2
  <2>3. CASE EndOfPass /\ ToState("MASTER", "MASTER", rest)
    BY <2>3 DEF EndOfPass, ToState
  <2>4. CASE ToState("LISTENING", recommendedState, rest)
    BY <1>2, <2>4
  <2>5. CASE EndOfPass /\ UNCHANGED <<portState, recommendedState>>
    BY <1>1, <2>5 DEF EndOfPass
  <2> QED
    BY <2>1, <2>2, <2>3, <2>4, <2>5 DEF ReceiptWith
<1>9. CASE Handle
  <2>1. ASSUME AfterHandle
        PROVE  pc' \in {"manage", "receipt"} => portState \notin {"PRE_MASTER", "MASTER"}
    BY <2>1 DEF AfterHandle, EndOfPass
  <2>2. CASE HandleShort
    BY <1>2, <2>2 DEF HandleShort
  <2>3. CASE AfterHandle /\ UNCHANGED <<portState, recommendedState>>
    BY <1>1, <2>1, <2>3
  <2> QED
    BY <1>9, <2>2, <2>3
       DEF Handle, HandleNothing, HandleAnnounce, HandleSync, HandleFollowUp
<1>10. CASE MasterDelayReq \/ Periodic \/ Arrive
  BY <1>1, <1>10 DEF MasterDelayReq, Periodic, Arrive, EndOfPass
<1>11. CASE Command
  BY <1>2, <1>11 DEF Command
<1>12. CASE LinkUp
  BY <1>12 DEF LinkUp
<1>13. CASE UNCHANGED vars
  BY <1>1, <1>13 DEF vars
<1> QED
  BY <1>3, <1>4, <1>5, <1>6, <1>7, <1>8, <1>9, <1>10, <1>11, <1>12, <1>13
     DEF Next, MainLoop, Act

\* What a pending decision recommends, what it makes of the parent, and that it
\* is no longer pending.
LEMMA ElectionChooses ==
    ASSUME TypeOK, NEW d \in Decisions, portState \in Operational,
           "STATE_DECISION" \in events
    PROVE  /\ "STATE_DECISION" \notin d.events
           /\ IF ~known /\ portState = "LISTENING"
              THEN d.rec = "LISTENING" /\ d.parent = parent
              ELSE \/ /\ d.parent = Self
                      /\ d.rec = IF slaveOnly THEN "LISTENING" ELSE "MASTER"
                   \/ d.rec = "PASSIVE" /\ d.parent = parent /\ ClockClass = "low"
                   \/ d.rec = "SLAVE" /\ d.parent \in heard /\ ClockClass # "low"
<1>1. slaveOnly \in BOOLEAN /\ lowClockClass \in BOOLEAN
  BY DEF TypeOK
<1>2. CASE ~known /\ portState = "LISTENING"
  BY <1>2 DEF Decisions, Decision
<1>3. CASE ~ (~known /\ portState = "LISTENING")
  <2>1. CASE d = Decision(Allowed("MASTER"), Self, events \ {"STATE_DECISION"}, {})
    BY <1>1, <1>3, <2>1 DEF Decision, Allowed
  <2>2. CASE /\ lowClockClass /\ ~slaveOnly
             /\ d = Decision(Allowed("PASSIVE"), parent, events \ {"STATE_DECISION"},
                             offsetFrom)
    BY <1>3, <2>2 DEF Decision, Allowed, ClockClass
  <2>3. CASE /\ ~ (lowClockClass /\ ~slaveOnly)
             /\ \E m \in heard :
                    d = Decision("SLAVE", m, (events \ {"STATE_DECISION"}) \cup NewMaster(m),
                                 offsetFrom)
    BY <1>1, <1>3, <2>3 DEF Decision, NewMaster, ClockClass
  <2> QED
    BY <1>3, <2>1, <2>2, <2>3 DEF Decisions
<1> QED
  BY <1>2, <1>3

\* Without one, doState goes on with the recommendation it has.
LEMMA NoElectionKeeps ==
    ASSUME TypeOK, NEW d \in Decisions,
           portState \notin Operational \/ "STATE_DECISION" \notin events
    PROVE  d.rec = recommendedState /\ d.parent = parent /\ d.events = events
BY DEF Decisions, Decision

\* The second switch consumes no decision.
LEMMA ConsumedFlags ==
    ASSUME NEW d
    PROVE  "STATE_DECISION" \notin Consumed(d)
BY DEF Consumed

\* Two states are the same to MasterChoice when these are.
LEMMA SameChoice ==
    ASSUME UNCHANGED <<known, heard, parent, slaveOnly, lowClockClass>>,
           DutyIn(portState)' = DutyIn(portState),
           ("STATE_DECISION" \in events') <=> ("STATE_DECISION" \in events)
    PROVE  UNCHANGED Choice!vars
<1>1. ClockClass' = ClockClass
  BY DEF ClockClass
<1>2. ("STATE_DECISION" \in events)' = ("STATE_DECISION" \in events)
  OBVIOUS
<1> QED
  BY <1>1, <1>2 DEF Choice!vars

LEMMA PortDecides ==
    ASSUME TypeOK, RoleInv, Agree, Decide
    PROVE  Choice!Choose \/ Choice!Resume \/ UNCHANGED Choice!vars
<1>1. PICK d, due, exp, rest, s : DecideWith(d, due, exp, rest, s)
  BY DecideChoices
<1>2. /\ d \in Decisions /\ s \in PortStates
      /\ d.rec = "MASTER" => s \in {"PRE_MASTER", "MASTER"}
      /\ d.rec = "SLAVE" => s \in Following
      /\ d.rec \in {"PASSIVE", "LISTENING"} => s = d.rec
      /\ d.rec = "INITIALIZING" => s = portState
      /\ portState' = s /\ parent' = d.parent
      /\ events' = d.events \ Consumed(d)
      /\ UNCHANGED <<known, heard, slaveOnly, lowClockClass>>
  BY <1>1, DecideDuty
<1>3. d.rec \in Recommendations /\ portState \in PortStates
  BY <1>2, DecisionType DEF TypeOK
<1>4. ClockClass' = ClockClass
  BY <1>2 DEF ClockClass
<1>5. "STATE_DECISION" \in events' <=> "STATE_DECISION" \in d.events
  BY <1>2, ConsumedFlags
<1>6. CASE portState \in Operational /\ "STATE_DECISION" \in events
  <2>1. ~ ("STATE_DECISION" \in events')
    BY <1>2, <1>5, <1>6, ElectionChooses
  <2>2. ("STATE_DECISION" \in events)' = FALSE
    BY <2>1
  <2>3. DutyIn(portState) # "STOPPED"
    BY <1>3, <1>6, DutyCases
  <2>4. CASE ~known /\ portState = "LISTENING"
    <3>1. d.rec = "LISTENING" /\ d.parent = parent
      BY <1>2, <1>6, <2>4, ElectionChooses
    <3>2. /\ DutyIn(portState) = "LISTENING" /\ DutyIn(portState)' = "LISTENING"
          /\ parent' = parent
      BY <1>2, <1>3, <2>4, <3>1, DutyCases
    <3> QED
      BY <1>2, <1>4, <1>6, <2>2, <2>3, <2>4, <3>2 DEF Choice!Choose
  <2>5. CASE ~ (~known /\ portState = "LISTENING")
    <3>1. ~ (~known /\ DutyIn(portState) = "LISTENING")
      BY <1>3, <2>5, DutyCases
    <3>2. \/ /\ d.parent = Self
             /\ d.rec = IF slaveOnly THEN "LISTENING" ELSE "MASTER"
          \/ d.rec = "PASSIVE" /\ d.parent = parent /\ ClockClass = "low"
          \/ d.rec = "SLAVE" /\ d.parent \in heard /\ ClockClass # "low"
      BY <1>2, <1>6, <2>5, ElectionChooses
    <3>3. ClockClass = "slaveOnly" <=> slaveOnly
      BY DEF ClockClass
    <3>4. /\ d.rec = "MASTER" => DutyIn(portState)' = "SERVING"
          /\ d.rec = "LISTENING" => DutyIn(portState)' = "LISTENING"
          /\ d.rec = "PASSIVE" => DutyIn(portState)' = "PASSIVE"
          /\ d.rec = "SLAVE" => DutyIn(portState)' = "FOLLOWING"
      BY <1>2, DutyCases
    <3>5. Choice!Serve \/ Choice!BePassive \/ Choice!Follow
      BY <1>2, <3>2, <3>3, <3>4 DEF Choice!Serve, Choice!BePassive, Choice!Follow
    <3> QED
      BY <1>2, <1>4, <1>6, <2>2, <2>3, <3>1, <3>5 DEF Choice!Choose
  <2> QED
    BY <2>4, <2>5
<1>7. CASE portState \in Operational /\ "STATE_DECISION" \notin events
  <2>1. d.rec = recommendedState /\ d.parent = parent /\ d.events = events
    BY <1>2, <1>7, NoElectionKeeps
  <2>2. \/ s = portState
        \/ s \in {"PRE_MASTER", "MASTER"} /\ portState \in {"PRE_MASTER", "MASTER"}
        \/ s \in Following /\ portState \in Following
    BY <1>2, <1>7, <2>1 DEF Agree
  <2>3. DutyIn(portState)' = DutyIn(portState)
    BY <1>2, <1>3, <2>2, DutyCases
  <2> QED
    BY <1>2, <1>5, <2>1, <2>3, SameChoice
<1>8. CASE portState \notin Operational
  <2>1. d.rec = recommendedState /\ d.parent = parent /\ d.events = events
    BY <1>2, <1>8, NoElectionKeeps
  <2>2. ("STATE_DECISION" \in events)' = ("STATE_DECISION" \in events)
    BY <1>5, <2>1
  <2>3. DutyIn(portState) = "STOPPED" /\ parent' = parent
    BY <1>2, <1>3, <1>8, <2>1, DutyCases
  <2>4. slaveOnly => ClockClass = "slaveOnly"
    BY DEF ClockClass
  <2>5. ~slaveOnly => ClockClass # "slaveOnly"
    BY DEF ClockClass
  <2>6. /\ d.rec = "MASTER" => parent = Self /\ ~slaveOnly
        /\ d.rec = "SLAVE" => parent \in heard
        /\ d.rec = "PASSIVE" => ~slaveOnly
    BY <2>1 DEF RoleInv, RecommendationSound
  <2>7. /\ d.rec = "MASTER" => DutyIn(portState)' = "SERVING"
        /\ d.rec = "LISTENING" => DutyIn(portState)' = "LISTENING"
        /\ d.rec = "PASSIVE" => DutyIn(portState)' = "PASSIVE"
        /\ d.rec = "SLAVE" => DutyIn(portState)' = "FOLLOWING"
    BY <1>2, DutyCases
  <2>8. CASE d.rec = "INITIALIZING"
    <3>1. DutyIn(portState)' = DutyIn(portState)
      BY <1>2, <2>8
    <3> QED
      BY <1>2, <1>5, <2>1, <3>1, SameChoice
  <2>9. CASE d.rec \in {"MASTER", "LISTENING", "PASSIVE", "SLAVE"}
    <3>1. Choice!Resume
      BY <1>2, <1>4, <2>2, <2>3, <2>5, <2>6, <2>7, <2>9 DEF Choice!Resume
    <3> QED
      BY <3>1
  <2> QED
    BY <1>3, <2>8, <2>9 DEF Recommendations, PortStates
<1> QED
  BY <1>6, <1>7, <1>8

\* A step that leaves the port where it is, or takes it from one stopped state
\* to another.
LEMMA StopChooses ==
    ASSUME TypeOK, NEW s \in {"INITIALIZING", "FAULTY"}, portState' = s,
           UNCHANGED <<known, heard, parent, slaveOnly, lowClockClass, events>>
    PROVE  Choice!Stop
<1>1. DutyIn(portState)' = DutyIn(s)
  BY DEF DutyIn
<1>2. DutyIn(s) = "STOPPED"
  BY DutyCases DEF Operational, PortStates
<1>3. ClockClass' = ClockClass
  BY DEF ClockClass
<1> QED
  BY <1>1, <1>2, <1>3 DEF Choice!Stop

LEMMA HearChooses ==
    ASSUME TypeOK, NEW m \in Masters, HandleAnnounce(m)
    PROVE  Choice!Hear(m) \/ UNCHANGED Choice!vars
<1> USE DEF HandleAnnounce, role, servo
<1>1. /\ portState' = portState /\ parent' = parent /\ portState \in PortStates
      /\ slaveOnly' = slaveOnly /\ lowClockClass' = lowClockClass
  BY DEF TypeOK
<1>2. DutyIn(portState)' = DutyIn(portState) /\ ClockClass' = ClockClass
  BY <1>1 DEF ClockClass
<1>3. CASE portState \notin Operational
  BY <1>1, <1>2, <1>3, SameChoice
<1>4. CASE portState \in Operational
  <2>1. DutyIn(portState) # "STOPPED"
    BY <1>1, <1>4, DutyCases
  <2>2. DutyIn(portState) = "FOLLOWING" <=> portState \in Following
    BY <1>1, DutyCases
  <2>3. ("STATE_DECISION" \in events)' = TRUE
    BY <1>4
  <2>4. IF portState \in Following /\ m = parent
        THEN UNCHANGED <<known, heard>>
        ELSE known' = TRUE /\ heard' = heard \cup {m}
    BY <1>4
  <2> HIDE DEF HandleAnnounce
  <2> QED
    BY <1>1, <1>2, <2>1, <2>2, <2>3, <2>4 DEF Choice!Hear
<1> QED
  BY <1>3, <1>4

LEMMA ReceiptChooses ==
    ASSUME TypeOK, Agree, Receipt
    PROVE  Choice!Abandon \/ UNCHANGED Choice!vars
<1>1. PICK rest \in SUBSET Timers : ReceiptWith(rest)
  BY ReceiptChoices
<1>2. /\ heard' = heard /\ events' = events
      /\ slaveOnly' = slaveOnly /\ lowClockClass' = lowClockClass
      /\ portState \in PortStates
  BY DEF Receipt, role, TypeOK
<1>3. ("STATE_DECISION" \in events)' = ("STATE_DECISION" \in events)
      /\ ClockClass' = ClockClass
  BY <1>2 DEF ClockClass
<1>4. DutyIn(portState) # "SERVING"
  BY <1>2, DutyCases DEF Receipt, Agree
<1>5. ClockClass = "slaveOnly" <=> slaveOnly
  BY DEF ClockClass
<1>6. CASE ~slaveOnly /\ known' = FALSE /\ M1 /\ ToState("MASTER", "MASTER", rest)
  <2>1. DutyIn(portState)' = "SERVING" /\ parent' = Self
    BY <1>6 DEF ToState, M1, DutyIn, Following
  <2> QED
    BY <1>2, <1>3, <1>4, <1>5, <1>6, <2>1 DEF Choice!Abandon, Choice!Serve
<1>7. CASE /\ slaveOnly /\ known' = FALSE /\ parent' = parent
           /\ portState' = "LISTENING"
  <2>1. DutyIn(portState)' = "LISTENING"
    BY <1>7 DEF DutyIn, Following
  <2> QED
    BY <1>2, <1>3, <1>4, <1>5, <1>7, <2>1 DEF Choice!Abandon
<1>8. CASE UNCHANGED <<portState, known, parent>>
  BY <1>2, <1>8, SameChoice
<1> QED
  BY <1>1, <1>2, <1>6, <1>7, <1>8 DEF ReceiptWith, ToState, TypeOK

LEMMA InitializeChooses ==
    ASSUME TypeOK, ActInitializing
    PROVE  Choice!Reinit \/ Choice!Stop
<1> USE DEF role
<1>1. CASE portState' = "FAULTY"
  BY <1>1, StopChooses DEF ActInitializing
<1>2. CASE portState' # "FAULTY"
  <2>1. /\ known' = FALSE /\ parent' = Self /\ portState' = "LISTENING"
        /\ heard' = heard /\ events' = events
    BY <1>2 DEF ActInitializing, M1, ToState
  <2>2. DutyIn(portState)' = "LISTENING"
    BY <2>1 DEF DutyIn, Following
  <2>3. ClockClass' \in Choice!AnyClass
    BY DEF ClockClass, Choice!AnyClass
  <2>4. ("STATE_DECISION" \in events)' = ("STATE_DECISION" \in events)
    BY <2>1
  <2> QED
    BY <2>1, <2>2, <2>3, <2>4 DEF Choice!Reinit
<1> QED
  BY <1>1, <1>2

LEMMA PortChooses == TypeOK /\ RoleInv /\ Agree /\ [Next]_vars => [Choice!Next]_(Choice!vars)
<1> SUFFICES ASSUME TypeOK, RoleInv, Agree, [Next]_vars PROVE [Choice!Next]_(Choice!vars)
  OBVIOUS
<1> USE DEF master, servo, role
<1>1. ASSUME UNCHANGED <<portState, known, heard, parent, slaveOnly, lowClockClass>>,
             ("STATE_DECISION" \in events') <=> ("STATE_DECISION" \in events)
      PROVE  UNCHANGED Choice!vars
  <2>1. DutyIn(portState)' = DutyIn(portState)
    BY <1>1
  <2> QED
    BY <1>1, <2>1, SameChoice
<1>2. CASE Decide
  BY <1>2, PortDecides DEF Choice!Next
<1>3. CASE Act
  <2>1. CASE ActInitializing
    BY <2>1, InitializeChooses DEF Choice!Next
  <2>2. CASE ActFaulty
    <3>1. portState' = "INITIALIZING"
      BY <2>2 DEF ActFaulty, ToState
    <3>2. Choice!Stop
      BY <2>2, <3>1, StopChooses DEF ActFaulty
    <3> QED
      BY <3>2 DEF Choice!Next
  <2>3. CASE ActPreMaster \/ ActListen \/ ActPassive \/ ActMaster
    BY <1>1, <2>3 DEF ActPreMaster, ActListen, ActPassive, ActMaster
  <2> QED
    BY <1>3, <2>1, <2>2, <2>3 DEF Act
<1>4. CASE Receipt
  BY <1>4, ReceiptChooses DEF Choice!Next
<1>5. CASE Handle
  <2>1. \A o : "STATE_DECISION" \notin OffsetFlags(o)
    BY DEF OffsetFlags
  <2>2. CASE HandleNothing
    BY <1>1, <2>2 DEF HandleNothing
  <2>3. CASE HandleShort
    <3>1. portState' = "FAULTY"
      BY <2>3 DEF HandleShort, ToState
    <3>2. Choice!Stop
      BY <2>3, <3>1, StopChooses DEF HandleShort
    <3> QED
      BY <3>2 DEF Choice!Next
  <2>4. ASSUME NEW m \in Masters, HandleAnnounce(m) PROVE [Choice!Next]_(Choice!vars)
    BY <2>4, HearChooses DEF Choice!Next
  <2>5. ASSUME NEW m \in Masters, NEW q \in SeqIds, NEW twoStep \in BOOLEAN,
               HandleSync(m, q, twoStep)
        PROVE  UNCHANGED Choice!vars
    <3>1. "STATE_DECISION" \in events' <=> "STATE_DECISION" \in events
      BY <2>1, <2>5 DEF HandleSync
    <3> QED
      BY <1>1, <2>5, <3>1 DEF HandleSync
  <2>6. ASSUME NEW m \in Masters, NEW q \in SeqIds, HandleFollowUp(m, q)
        PROVE  UNCHANGED Choice!vars
    <3>1. "STATE_DECISION" \in events' <=> "STATE_DECISION" \in events
      BY <2>1, <2>6 DEF HandleFollowUp
    <3> QED
      BY <1>1, <2>6, <3>1 DEF HandleFollowUp
  <2> QED
    BY <1>5, <2>2, <2>3, <2>4, <2>5, <2>6 DEF Handle
<1>6. CASE MasterDelayReq \/ Periodic \/ Arrive
  BY <1>1, <1>6 DEF MasterDelayReq, Periodic, Arrive
<1>7. CASE Command \/ LinkUp
  <2>1. portState' = "INITIALIZING"
    BY <1>7 DEF Command, LinkUp, ToState
  <2>2. Choice!Stop
    BY <1>7, <2>1, StopChooses DEF Command, LinkUp
  <2> QED
    BY <2>2 DEF Choice!Next
<1>8. CASE UNCHANGED vars
  BY <1>1, <1>8 DEF vars
<1> QED
  BY <1>2, <1>3, <1>4, <1>5, <1>6, <1>7, <1>8 DEF Next, MainLoop

\* At the start the port is stopped and has chosen nothing.
LEMMA PortChoiceInit == Init => Agree /\ Choice!Init
<1> SUFFICES ASSUME Init PROVE Agree /\ Choice!Init
  OBVIOUS
<1>1. Agree
  BY DEF Init, Agree, Operational
<1>2. DutyIn(portState) = "STOPPED" /\ ClockClass \in Choice!AnyClass
  <2>1. portState = "INITIALIZING"
    BY DEF Init
  <2>2. DutyIn(portState) = "STOPPED"
    BY <2>1, DutyCases DEF Operational, PortStates
  <2> QED
    BY <2>2 DEF ClockClass, Choice!AnyClass
<1>3. ("STATE_DECISION" \in events) = FALSE
  BY DEF Init
<1> QED
  BY <1>1, <1>2, <1>3 DEF Init, Choice!Init

\* The state machine implements the choice of a master, for any clocks, both
\* delay mechanisms and any clock classes: neither a fault, a restart, a command,
\* a flag nor a timer gives the port a role or a parent that no election, timeout
\* or initialisation gave it.
THEOREM PortChoosesCorrect == Spec => ChoosesAsPromised
<1> QED
  BY PortChoiceInit, TypeCorrect, RoleCorrect, AgreeStep, PortChooses, PTL
     DEF Spec, ChoosesAsPromised, Choice!Spec
=============================================================================
