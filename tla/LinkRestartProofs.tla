-------------------------- MODULE LinkRestartProofs --------------------------
(***************************************************************************)
(* Proofs about LinkRestart: what PtpPortProofs shows of the role of the   *)
(* port survives a restart that comes inside toState or inside bmc().  A   *)
(* step that is not interrupted is a step of PtpPort, so that TypeStep and *)
(* RoleStep cover it; the three interrupted steps are treated here.        *)
(***************************************************************************)
EXTENDS LinkRestart, PtpPortProofs

LinkInv == TypeOK /\ RoleInv

\* What an interrupted step leaves alone, and what it may change of the rest.
LEMMA InterruptedType ==
    ASSUME TypeOK, Interrupted
    PROVE  /\ pc' \in Pcs /\ queued' \in BOOLEAN /\ waiting' \in BOOLEAN
           /\ expire' \in SUBSET Timers
           /\ announced' \in Masters \cup {Self}
           /\ UNCHANGED <<elapsed, known, heard, sync, role>>
<1> QED
  BY DEF Interrupted, TypeOK, Pcs

\* The interrupt inside toState, before portState is assigned.
LEMMA InsideToStateStep == LinkInv /\ InsideToState => LinkInv'
<1> SUFFICES ASSUME LinkInv, InsideToState PROVE LinkInv'
  OBVIOUS
<1>1. TypeOK /\ RoleInv /\ Interrupted
  BY DEF LinkInv, InsideToState
<1>2. running' \subseteq running
  BY DEF InsideToState
<1>3. /\ UNCHANGED <<portState, events, parent, offsetFrom, heard, slaveOnly>>
      /\ recommendedState' \in {"INITIALIZING", "LISTENING"}
  BY <1>1 DEF InsideToState, Interrupted, role
<1>4. TypeOK'
  BY <1>1, <1>2, <1>3, InterruptedType DEF TypeOK, PortStates, role
<1>5. RoleInv'
  BY <1>1, <1>3 DEF RoleInv, RecommendationSound, ParentMatchesRole, SlaveOnlyNeverServes
<1> QED
  BY <1>4, <1>5 DEF LinkInv

\* The interrupt inside toState, after the assignment of portState.
LEMMA AfterAssignmentStep == LinkInv /\ AfterAssignment => LinkInv'
<1> SUFFICES ASSUME LinkInv, AfterAssignment PROVE LinkInv'
  OBVIOUS
<1>1. TypeOK /\ RoleInv /\ Interrupted
  BY DEF LinkInv, AfterAssignment
<1>2. running' \in SUBSET Timers
  BY <1>1 DEF AfterAssignment, TypeOK, Timers
<1>3. /\ UNCHANGED <<events, parent, offsetFrom, heard, slaveOnly>>
      /\ portState' = "INITIALIZING"
      /\ recommendedState' \in {"INITIALIZING", "LISTENING"}
  BY <1>1 DEF AfterAssignment, Interrupted, role
<1>4. TypeOK'
  BY <1>1, <1>2, <1>3, InterruptedType DEF TypeOK, PortStates, role
<1>5. RoleInv'
  BY <1>3 DEF RoleInv, RecommendationSound, ParentMatchesRole, SlaveOnlyNeverServes,
              Following
<1> QED
  BY <1>4, <1>5 DEF LinkInv

\* The interrupt inside bmc(): the recommendation of the running decision is
\* followed from INITIALIZING, together with the data sets of that decision.
LEMMA InsideDecisionStep == LinkInv /\ InsideDecision => LinkInv'
<1> SUFFICES ASSUME LinkInv, InsideDecision PROVE LinkInv'
  OBVIOUS
<1>1. TypeOK /\ RoleInv
  BY DEF LinkInv
<1>2. PICK d \in Decisions, draw \in {0, 1} :
          LET s == FromInitializing(d.rec) IN
          /\ portState' = s
          /\ recommendedState' = d.rec
          /\ parent' = d.parent /\ offsetFrom' = d.offset /\ events' = d.events
          /\ running' = (running \ StoppedByLink(portState)) \cup Armed(Started(s), draw)
          /\ expire' = expire \ ({"ANNOUNCE_RECEIPT"} \cup Started(s))
  BY DEF InsideDecision
<1>3. /\ pc' = "act" /\ waiting' = FALSE /\ queued' \in {queued, FALSE}
      /\ announced' = Self
      /\ UNCHANGED <<elapsed, known, heard, sync, role>>
  BY DEF InsideDecision
<1>4. /\ d.rec \in Recommendations
      /\ d.parent \in Masters \cup {Self}
      /\ d.events \in SUBSET Flags
      /\ d.offset \in SUBSET (Masters \cup {Self})
  BY <1>1, DecisionType
<1>5. /\ d.rec = "MASTER" => d.parent = Self /\ d.offset = {}
      /\ d.rec = "SLAVE" => d.parent \in heard
      /\ slaveOnly => d.rec \notin {"MASTER", "PASSIVE"}
  BY <1>1, DecisionSound DEF RoleInv
<1>6. /\ portState' \in PortStates
      /\ portState' # "MASTER"
      /\ portState' = "PRE_MASTER" => d.rec = "MASTER"
      /\ portState' \in Following => d.rec = "SLAVE"
      /\ portState' = "PASSIVE" => d.rec = "PASSIVE"
  BY <1>2, <1>4 DEF FromInitializing, Recommendations, PortStates, Following
<1>7. TypeOK'
  <2>1. running' \in SUBSET Timers /\ expire' \in SUBSET Timers
    BY <1>1, <1>2, TimerSets DEF TypeOK
  <2> QED
    BY <1>1, <1>2, <1>3, <1>4, <1>6, <2>1 DEF TypeOK, Pcs, Recommendations, role
<1>8. RoleInv'
  BY <1>2, <1>3, <1>5, <1>6
     DEF RoleInv, RecommendationSound, ParentMatchesRole, SlaveOnlyNeverServes, role
<1> QED
  BY <1>7, <1>8 DEF LinkInv

\* Types and role are kept by every step, interrupted or not.
LEMMA LinkStep == LinkInv /\ [LinkNext]_linkVars => LinkInv'
<1> SUFFICES ASSUME LinkInv, [LinkNext]_linkVars PROVE LinkInv'
  OBVIOUS
<1>1. CASE [Next]_vars
  BY <1>1, TypeStep, RoleStep DEF LinkInv
<1>2. CASE LinkNext
  BY <1>1, <1>2, InsideToStateStep, AfterAssignmentStep, InsideDecisionStep
     DEF LinkNext, Step
<1>3. CASE UNCHANGED linkVars
  BY <1>1, <1>3 DEF linkVars
<1> QED
  BY <1>2, <1>3

\* The invariant holds in every reachable state.
LEMMA LinkCorrect == LinkSpec => []LinkInv
<1>1. LinkInit => LinkInv
  BY PortAssumption
     DEF LinkInit, Init, LinkInv, TypeOK, Pcs, PortStates, Flags, RoleInv,
         RecommendationSound, ParentMatchesRole, SlaveOnlyNeverServes, Following
<1> QED
  BY <1>1, LinkStep, PTL DEF LinkSpec

\* A clock configured slave-only never serves time, wherever inside toState or
\* bmc() the link interrupt restarts the port.
THEOREM RestartSlaveOnlyCorrect == LinkSpec => []SlaveOnlyNeverServes
<1>1. LinkInv => SlaveOnlyNeverServes
  BY DEF LinkInv, RoleInv
<1> QED
  BY <1>1, LinkCorrect, PTL

\* Whatever restart overwrites or is overwritten, a port that serves names itself
\* as its parent without an offset, and one that follows names a clock it heard.
THEOREM RestartParentCorrect == LinkSpec => []ParentMatchesRole
<1>1. LinkInv => ParentMatchesRole
  BY DEF LinkInv, RoleInv
<1> QED
  BY <1>1, LinkCorrect, PTL

\* The restart forgets the Sync being completed wherever it comes, and no
\* interrupted call receives another.
LEMMA LinkFollowUpStep ==
    LinkInv /\ FollowUpAwaitedOnlyWhileFollowing /\ [LinkNext]_linkVars
        => FollowUpAwaitedOnlyWhileFollowing'
<1> SUFFICES ASSUME LinkInv, FollowUpAwaitedOnlyWhileFollowing, [LinkNext]_linkVars
             PROVE  FollowUpAwaitedOnlyWhileFollowing'
  OBVIOUS
<1>1. CASE [Next]_vars
  BY <1>1, FollowUpStep DEF LinkInv
<1>2. CASE InsideToState \/ AfterAssignment \/ InsideDecision
  <2>1. waiting' = FALSE
    BY <1>2 DEF InsideToState, AfterAssignment, InsideDecision, Interrupted
  <2> QED
    BY <2>1 DEF FollowUpAwaitedOnlyWhileFollowing
<1> QED
  BY <1>1, <1>2 DEF LinkNext, Step, linkVars

\* Not even a restart that is overwritten lets a Follow_Up complete a Sync from
\* before it in a port that follows nobody.
THEOREM RestartFollowUpCorrect == LinkSpec => []FollowUpAwaitedOnlyWhileFollowing
<1>1. LinkInit => FollowUpAwaitedOnlyWhileFollowing
  BY DEF LinkInit, Init, FollowUpAwaitedOnlyWhileFollowing
<1> QED
  BY <1>1, LinkCorrect, LinkFollowUpStep, PTL DEF LinkSpec

\* Nor does it give a calibrated port another master: what bmc() decides is done
\* from INITIALIZING, by way of UNCALIBRATED.
THEOREM RestartNewMasterCorrect == LinkSpec => NewMasterUncalibrates
<1> DEFINE A == portState = "SLAVE" /\ portState' = "SLAVE" => parent' = parent
<1>1. LinkInv /\ [LinkNext]_linkVars => [A]_vars
  <2> SUFFICES ASSUME LinkInv, [LinkNext]_linkVars,
                      portState = "SLAVE", portState' = "SLAVE"
               PROVE  parent' = parent
    OBVIOUS
  <2>1. CASE [Next]_vars
    BY <2>1, NewMasterStep DEF LinkInv
  <2>2. CASE InsideToState \/ AfterAssignment
    BY <2>2 DEF InsideToState, AfterAssignment
  <2>3. CASE InsideDecision
    <3>1. PICK d \in Decisions : portState' = FromInitializing(d.rec)
      BY <2>3 DEF InsideDecision
    <3>2. d.rec \in Recommendations
      BY <3>1, DecisionType DEF LinkInv
    <3>3. FromInitializing(d.rec) # "SLAVE"
      BY <3>2 DEF FromInitializing, Recommendations
    <3> QED
      BY <3>1, <3>3
  <2> QED
    BY <2>1, <2>2, <2>3 DEF LinkNext, Step, linkVars
<1> QED
  BY <1>1, LinkCorrect, PTL DEF LinkSpec, NewMasterUncalibrates

-----------------------------------------------------------------------------
(* The timers and the recommendation an interrupted restart leaves behind *)

\* The states in which the announce receipt timer has to run.
Listeners == {"LISTENING", "UNCALIBRATED", "SLAVE", "PASSIVE"}

\* What a step that is not interrupted does to the history variables.
History ==
    /\ torn' = (torn /\ portState' \in {portState, "SLAVE"})
    /\ stray' = (stray /\ ~ (portState \in Following /\ portState' \notin Following))

\* toState, run to its end, restores what an overwritten restart took, but for
\* the announce receipt timer when it goes from UNCALIBRATED to SLAVE.
LEMMA ToStateStrands ==
    ASSUME TypeOK, OnlyTornRestartStrands, NEW s \in PortStates, NEW rec, NEW exp,
           ToState(s, rec, exp), History,
           s = "SLAVE" => portState \in Following,
           s = "PRE_MASTER" => rec = "MASTER"
    PROVE  OnlyTornRestartStrands'
<1>1. portState' = s /\ portState \in PortStates
  BY DEF ToState, TypeOK
<1>2. PICK draw \in {0, 1} :
        running' = (running \ (Stopped(s) \cup Started(s))) \cup Armed(Started(s), draw)
  BY DEF ToState
<1>3. DelayTimer \in {"PDELAYREQ", "DELAYREQ"}
  BY DEF DelayTimer
<1>4. \A t \in {"ANNOUNCE_RECEIPT", "SYNC", "ANNOUNCE_INTERVAL", "QUALIFICATION",
                "MANAGEMENT"} :
        t \in running' <=> (t \in running /\ t \notin Stopped(s)) \/ t \in Started(s)
  BY <1>2, <1>3 DEF Armed
<1>5. /\ "ANNOUNCE_RECEIPT" \in running' => s \in Listeners
      /\ "SYNC" \in running' <=> s = "MASTER"
      /\ "ANNOUNCE_INTERVAL" \in running' <=> s = "MASTER"
      /\ "QUALIFICATION" \in running' <=> s = "PRE_MASTER"
  BY <1>1, <1>3, <1>4
     DEF OnlyTornRestartStrands, Stopped, Started, Following, PortStates, Listeners
<1>6. "MANAGEMENT" \in running' => s \in Following \/ stray'
  BY <1>1, <1>3, <1>4
     DEF OnlyTornRestartStrands, History, Stopped, Started, Following, PortStates
<1>7. ~torn' /\ s \in Listeners => "ANNOUNCE_RECEIPT" \in running'
  <2>1. CASE s = "SLAVE"
    BY <1>1, <1>4, <2>1
       DEF OnlyTornRestartStrands, History, Stopped, Started, Following
  <2>2. CASE s # "SLAVE"
    BY <1>1, <1>4, <2>2 DEF Started, Listeners
  <2> QED
    BY <2>1, <2>2
<1>8. s = "PRE_MASTER" => recommendedState' = "MASTER"
  BY DEF ToState
<1> QED
  BY <1>1, <1>5, <1>6, <1>7, <1>8 DEF OnlyTornRestartStrands, Listeners

\* A decision recommends INITIALIZING only when that is what was recommended.
LEMMA DecisionInitializing ==
    ASSUME NEW d \in Decisions, d.rec = "INITIALIZING"
    PROVE  recommendedState = "INITIALIZING"
<1> USE DEF Decisions, Decision, Allowed
<1> QED
  OBVIOUS

\* Without an interrupt nothing is stranded that was not before.
LEMMA StrandsStep ==
    TypeOK /\ OnlyTornRestartStrands /\ [Next]_vars /\ History => OnlyTornRestartStrands'
<1> SUFFICES ASSUME TypeOK, OnlyTornRestartStrands, [Next]_vars, History
             PROVE  OnlyTornRestartStrands'
  OBVIOUS
<1> USE DEF timers, master, servo, role
<1> DEFINE Untouched == UNCHANGED <<portState, running, recommendedState>>
<1>0. ASSUME Untouched PROVE OnlyTornRestartStrands'
  BY <1>0 DEF OnlyTornRestartStrands, History
<1>1. CASE Decide
  <2>1. PICK d, due, exp, rest, s : DecideWith(d, due, exp, rest, s)
    BY <1>1, DecideChoices
  <2>2. /\ d \in Decisions /\ s \in PortStates
        /\ s = "SLAVE" => portState \in Following
        /\ s = "PRE_MASTER" =>
               (d.rec = "MASTER" \/ (d.rec = "INITIALIZING" /\ s = portState))
    BY <2>1, DecideTarget
  <2>3. CASE s # portState
    BY <2>1, <2>2, <2>3, ToStateStrands DEF DecideWith
  <2>4. CASE s = portState
    <3>1. UNCHANGED <<portState, running>> /\ recommendedState' = d.rec
      BY <2>1, <2>4 DEF DecideWith
    <3>2. portState = "PRE_MASTER" =>
              recommendedState' = "MASTER" \/ recommendedState' = recommendedState
      BY <2>2, <2>4, <3>1, DecisionInitializing
    <3> QED
      BY <3>1, <3>2 DEF OnlyTornRestartStrands, History
  <2> QED
    BY <2>3, <2>4
<1>2. CASE ActInitializing
  <2>1. CASE ToState("FAULTY", recommendedState, expire)
    BY <2>1, ToStateStrands DEF PortStates
  <2>2. CASE ~ToState("FAULTY", recommendedState, expire)
    BY <1>2, <2>2
       DEF ActInitializing, OnlyTornRestartStrands, History, Started, Following
  <2> QED
    BY <2>1, <2>2
<1>3. CASE ActFaulty
  BY <1>3, ToStateStrands DEF ActFaulty, PortStates
<1>4. CASE ActPreMaster \/ ActListen \/ ActPassive \/ ActMaster
  BY <1>0, <1>4 DEF ActPreMaster, ActListen, ActPassive, ActMaster
<1>5. CASE Receipt
  <2>1. PICK rest \in SUBSET Timers : ReceiptWith(rest)
    BY <1>5, ReceiptChoices
  <2> QED
    BY <1>0, <2>1, ToStateStrands DEF ReceiptWith, PortStates
<1>6. CASE Handle
  <2>1. CASE HandleNothing
    BY <1>0, <2>1 DEF HandleNothing
  <2>2. CASE HandleShort
    BY <2>2, ToStateStrands DEF HandleShort, PortStates
  <2>3. ASSUME NEW m \in Masters, HandleAnnounce(m) PROVE OnlyTornRestartStrands'
    <3>1. UNCHANGED <<portState, recommendedState>>
      BY <2>3 DEF HandleAnnounce
    <3>2. CASE running' = running
      BY <1>0, <3>1, <3>2
    <3>3. CASE running' = running \cup {"ANNOUNCE_RECEIPT"} /\ portState \in Listeners
      BY <3>1, <3>3 DEF OnlyTornRestartStrands, History, Listeners
    <3> QED
      BY <2>3, <3>2, <3>3 DEF HandleAnnounce, Take, Following, Listeners
  <2>4. ASSUME UNCHANGED <<portState, recommendedState>>,
               running' = running \/ IssueDelayReqTimerExpired
        PROVE  OnlyTornRestartStrands'
    BY <1>0, <2>4, DelayReqTimers DEF OnlyTornRestartStrands, History
  <2>5. ASSUME NEW m \in Masters, NEW q \in SeqIds, NEW twoStep \in BOOLEAN,
               HandleSync(m, q, twoStep)
        PROVE  OnlyTornRestartStrands'
    BY <2>4, <2>5 DEF HandleSync
  <2>6. ASSUME NEW m \in Masters, NEW q \in SeqIds, HandleFollowUp(m, q)
        PROVE  OnlyTornRestartStrands'
    BY <2>4, <2>6 DEF HandleFollowUp
  <2> QED
    BY <1>6, <2>1, <2>2, <2>3, <2>5, <2>6 DEF Handle
<1>7. CASE MasterDelayReq
  BY <1>7, DelayReqTimers DEF MasterDelayReq, OnlyTornRestartStrands, History
<1>8. CASE Periodic \/ Arrive
  BY <1>0, <1>8 DEF Periodic, Arrive
<1>9. CASE Command
  BY <1>9, ToStateStrands DEF Command, PortStates
<1>10. CASE LinkUp
  BY <1>10
     DEF LinkUp, OnlyTornRestartStrands, History, Stopped, Following, TypeOK, PortStates
<1>11. CASE UNCHANGED vars
  BY <1>0, <1>11 DEF vars
<1> QED
  BY <1>1, <1>2, <1>3, <1>4, <1>5, <1>6, <1>7, <1>8, <1>9, <1>10, <1>11
     DEF Next, MainLoop, Act

\* Inside toState, the restart takes back timers toState has started before: of
\* those named in OnlyTornRestartStrands, the announce receipt timer at most.
LEMMA InsideToStateStrands ==
    TypeOK /\ OnlyTornRestartStrands /\ InsideToState => OnlyTornRestartStrands'
<1> SUFFICES ASSUME TypeOK, OnlyTornRestartStrands, InsideToState
             PROVE  OnlyTornRestartStrands'
  OBVIOUS
<1>1. /\ left # portState /\ portState \in PortStates
      /\ UNCHANGED <<portState, stray>> /\ torn'
  BY DEF InsideToState, TypeOK
<1>2. PICK soFar \in StartedSoFar(portState) :
          LET lost == soFar \cap StoppedByLink(left) IN
          running' = running \ ((StoppedByLink(left) \ Started(portState)) \cup lost)
  BY DEF InsideToState
<1>3. DelayTimer \in {"PDELAYREQ", "DELAYREQ"}
  BY DEF DelayTimer
<1>4. running' \subseteq running
  BY <1>2
<1>5. soFar \subseteq Started(portState) \cup {"ANNOUNCE_RECEIPT"}
  BY <1>1, <1>2 DEF StartedSoFar, Started, PortStates
<1>6. portState = "MASTER" =>
          {"SYNC", "ANNOUNCE_INTERVAL"} \cap StoppedByLink(left) = {}
  BY <1>1, <1>3 DEF StoppedByLink, Following
<1>7. portState = "PRE_MASTER" => "QUALIFICATION" \notin StoppedByLink(left)
  BY <1>1, <1>3 DEF StoppedByLink, Following
<1>8. /\ "SYNC" \in running' <=> portState = "MASTER"
      /\ "ANNOUNCE_INTERVAL" \in running' <=> portState = "MASTER"
      /\ "QUALIFICATION" \in running' <=> portState = "PRE_MASTER"
  BY <1>2, <1>4, <1>6, <1>7 DEF OnlyTornRestartStrands
<1> QED
  BY <1>1, <1>4, <1>8 DEF OnlyTornRestartStrands

\* After the assignment, the restart is complete but for MANAGEMENT.
LEMMA AfterAssignmentStrands ==
    OnlyTornRestartStrands /\ AfterAssignment => OnlyTornRestartStrands'
<1> SUFFICES ASSUME OnlyTornRestartStrands, AfterAssignment
             PROVE  OnlyTornRestartStrands'
  OBVIOUS
<1>1. /\ portState \in {"LISTENING", "SLAVE"} /\ portState' = "INITIALIZING"
      /\ running' = (running \ StoppedByLink(portState))
                    \cup ({"MANAGEMENT"} \cap Started(portState))
      /\ stray' = (stray \/ portState = "SLAVE")
  BY DEF AfterAssignment
<1>2. \A t \in {"SYNC", "ANNOUNCE_INTERVAL", "QUALIFICATION"} : t \notin running'
  BY <1>1 DEF OnlyTornRestartStrands
<1>3. "ANNOUNCE_RECEIPT" \notin running'
  BY <1>1 DEF StoppedByLink
<1>4. "MANAGEMENT" \in running' => stray'
  <2>1. CASE portState = "SLAVE"
    BY <1>1, <2>1
  <2>2. CASE portState = "LISTENING"
    BY <1>1, <2>2 DEF OnlyTornRestartStrands, Started, Following
  <2> QED
    BY <1>1, <2>1, <2>2
<1> QED
  BY <1>1, <1>2, <1>3, <1>4 DEF OnlyTornRestartStrands, Following

\* Inside bmc(), the restart stops the timers of the state left and toState then
\* starts those of the state the recommendation leads to from INITIALIZING.
LEMMA InsideDecisionStrands ==
    TypeOK /\ OnlyTornRestartStrands /\ InsideDecision => OnlyTornRestartStrands'
<1> SUFFICES ASSUME TypeOK, OnlyTornRestartStrands, InsideDecision
             PROVE  OnlyTornRestartStrands'
  OBVIOUS
<1>1. PICK d \in Decisions, draw \in {0, 1} :
          LET s == FromInitializing(d.rec) IN
          /\ portState' = s
          /\ recommendedState' = d.rec
          /\ running' = (running \ StoppedByLink(portState)) \cup Armed(Started(s), draw)
  BY DEF InsideDecision
<1> DEFINE s == FromInitializing(d.rec)
<1>2. /\ s \in {"INITIALIZING", "LISTENING", "PRE_MASTER", "UNCALIBRATED", "PASSIVE"}
      /\ s = "PRE_MASTER" => d.rec = "MASTER"
  BY DecisionType DEF FromInitializing, Recommendations, PortStates
<1>3. portState \in PortStates /\ DelayTimer \in {"PDELAYREQ", "DELAYREQ"}
  BY DEF TypeOK, DelayTimer
<1>4. portState' = s /\ recommendedState' = d.rec
      /\ running' = (running \ StoppedByLink(portState)) \cup Armed(Started(s), draw)
  BY <1>1
<1> HIDE DEF s
<1>5. \A t \in {"ANNOUNCE_RECEIPT", "SYNC", "ANNOUNCE_INTERVAL", "QUALIFICATION",
                "MANAGEMENT"} :
        t \in running' <=>
            (t \in running /\ t \notin StoppedByLink(portState)) \/ t \in Started(s)
  BY <1>3, <1>4 DEF Armed
<1>6. /\ "ANNOUNCE_RECEIPT" \in running' <=> s \in Listeners
      /\ "SYNC" \notin running' /\ "ANNOUNCE_INTERVAL" \notin running'
      /\ "QUALIFICATION" \in running' <=> s = "PRE_MASTER"
  BY <1>2, <1>3, <1>5
     DEF OnlyTornRestartStrands, StoppedByLink, Started, Listeners, Following
<1>7. "MANAGEMENT" \in running' => stray'
  <2>1. "MANAGEMENT" \notin Started(s)
    BY <1>2, <1>3 DEF Started
  <2>2. CASE portState \in Following
    BY <1>5, <2>1, <2>2 DEF StoppedByLink, Following
  <2>3. CASE portState \notin Following
    BY <1>5, <2>1, <2>3 DEF InsideDecision, OnlyTornRestartStrands
  <2> QED
    BY <2>2, <2>3
<1> QED
  BY <1>2, <1>4, <1>6, <1>7 DEF OnlyTornRestartStrands, Listeners

\* Nothing but an overwritten restart strands the port without the announce
\* receipt timer it needs or in PRE_MASTER without its recommendation, and no
\* restart, overwritten or not, loses another timer of the state or lets one
\* but MANAGEMENT run outside its state.
THEOREM RestartStrandsCorrect == LinkSpec => []OnlyTornRestartStrands
<1>1. LinkInit => OnlyTornRestartStrands
  BY DEF LinkInit, Init, OnlyTornRestartStrands
<1>2. LinkInv /\ OnlyTornRestartStrands /\ [LinkNext]_linkVars => OnlyTornRestartStrands'
  <2> SUFFICES ASSUME LinkInv, OnlyTornRestartStrands, [LinkNext]_linkVars
               PROVE  OnlyTornRestartStrands'
    OBVIOUS
  <2>1. TypeOK
    BY DEF LinkInv
  <2>2. CASE Step
    BY <2>1, <2>2, StrandsStep DEF Step, History
  <2>3. CASE UNCHANGED linkVars
    BY <2>3 DEF linkVars, vars, timers, OnlyTornRestartStrands
  <2> QED
    BY <2>1, <2>2, <2>3, InsideToStateStrands, AfterAssignmentStrands,
       InsideDecisionStrands DEF LinkNext
<1> QED
  BY <1>1, <1>2, LinkCorrect, PTL DEF LinkSpec

-----------------------------------------------------------------------------
(* A restart inside toState or bmc() keeps to MasterChoice *)

\* Inside toState, before the assignment: the restart is lost.
LEMMA LostRestartChooses ==
    ASSUME LinkInv, Agree, InsideToState
    PROVE  Agree' /\ UNCHANGED Choice!vars
<1>1. /\ UNCHANGED <<portState, events, parent, known, heard, slaveOnly, lowClockClass>>
      /\ recommendedState' =
             IF portState \in {"INITIALIZING", "LISTENING"} THEN portState ELSE "INITIALIZING"
      /\ pc' \in {pc, "idle"}
  BY DEF InsideToState, Interrupted, role
<1>2. Agree'
  BY <1>1 DEF Agree, Operational, PortStates
<1>3. DutyIn(portState)' = DutyIn(portState)
  BY <1>1
<1> QED
  BY <1>1, <1>2, <1>3, SameChoice

\* After it: the port stops, and will go on without doInit.
LEMMA LateRestartChooses ==
    ASSUME LinkInv, Agree, AfterAssignment
    PROVE  Agree' /\ Choice!Stop
<1>1. /\ UNCHANGED <<events, parent, known, heard, slaveOnly, lowClockClass>>
      /\ portState' = "INITIALIZING"
      /\ recommendedState' \in {"INITIALIZING", "LISTENING"}
  BY DEF AfterAssignment, Interrupted, role
<1>2. Agree'
  BY <1>1 DEF Agree, Operational
<1>3. Choice!Stop
  BY <1>1, StopChooses DEF LinkInv
<1> QED
  BY <1>2, <1>3

\* Inside bmc(): what is decided is done from INITIALIZING instead.
LEMMA RestartedDecisionChooses ==
    ASSUME LinkInv, Agree, InsideDecision
    PROVE  Agree' /\ Choice!Choose
<1>1. TypeOK /\ portState \in Operational /\ "STATE_DECISION" \in events
  BY DEF LinkInv, InsideDecision
<1>2. PICK d \in Decisions :
          /\ portState' = FromInitializing(d.rec) /\ recommendedState' = d.rec
          /\ parent' = d.parent /\ events' = d.events
  BY DEF InsideDecision
<1>3. pc' = "act" /\ UNCHANGED <<known, heard, slaveOnly, lowClockClass>>
  BY DEF InsideDecision, role
<1>4. /\ "STATE_DECISION" \notin d.events
      /\ IF ~known /\ portState = "LISTENING"
         THEN d.rec = "LISTENING" /\ d.parent = parent
         ELSE \/ /\ d.parent = Self
                 /\ d.rec = IF slaveOnly THEN "LISTENING" ELSE "MASTER"
              \/ d.rec = "PASSIVE" /\ d.parent = parent /\ ClockClass = "low"
              \/ d.rec = "SLAVE" /\ d.parent \in heard /\ ClockClass # "low"
  BY <1>1, ElectionChooses
<1>5. /\ d.rec = "MASTER" => portState' = "PRE_MASTER"
      /\ d.rec = "SLAVE" => portState' = "UNCALIBRATED"
      /\ d.rec \in {"PASSIVE", "LISTENING"} => portState' = d.rec
      /\ d.rec \in {"MASTER", "SLAVE", "PASSIVE", "LISTENING"}
  BY <1>2, <1>4 DEF FromInitializing
<1>6. Agree'
  BY <1>2, <1>3, <1>5 DEF Agree, Following
<1>7. /\ portState' \in PortStates
      /\ d.rec = "MASTER" => DutyIn(portState)' = "SERVING"
      /\ d.rec = "SLAVE" => DutyIn(portState)' = "FOLLOWING"
      /\ d.rec = "PASSIVE" => DutyIn(portState)' = "PASSIVE"
      /\ d.rec = "LISTENING" => DutyIn(portState)' = "LISTENING"
  <2>1. portState' \in PortStates
    BY <1>5 DEF PortStates
  <2> QED
    BY <1>5, <2>1, DutyCases DEF Following
<1>8. /\ portState \in PortStates
      /\ DutyIn(portState) # "STOPPED"
      /\ DutyIn(portState) = "LISTENING" <=> portState = "LISTENING"
  BY <1>1, DutyCases DEF Operational
<1>9. ClockClass' = ClockClass /\ (ClockClass = "slaveOnly" <=> slaveOnly)
  BY <1>3 DEF ClockClass
<1>10. ("STATE_DECISION" \in events)' = FALSE
  BY <1>2, <1>4
<1>11. CASE ~known /\ portState = "LISTENING"
  <2>1. UNCHANGED <<DutyIn(portState), parent>>
    BY <1>2, <1>4, <1>7, <1>8, <1>11
  <2> QED
    BY <1>1, <1>3, <1>6, <1>8, <1>9, <1>10, <1>11, <2>1 DEF Choice!Choose
<1>12. CASE ~ (~known /\ portState = "LISTENING")
  <2>1. Choice!Serve \/ Choice!BePassive \/ Choice!Follow
    BY <1>2, <1>4, <1>7, <1>9, <1>12 DEF Choice!Serve, Choice!BePassive, Choice!Follow
  <2> QED
    BY <1>1, <1>3, <1>6, <1>8, <1>9, <1>10, <1>12, <2>1 DEF Choice!Choose
<1> QED
  BY <1>11, <1>12

LEMMA LinkChooses ==
    LinkInv /\ Agree /\ [LinkNext]_linkVars => Agree' /\ [Choice!Next]_(Choice!vars)
<1> SUFFICES ASSUME LinkInv, Agree, [LinkNext]_linkVars
             PROVE  Agree' /\ [Choice!Next]_(Choice!vars)
  OBVIOUS
<1>1. CASE [Next]_vars
  BY <1>1, AgreeStep, PortChooses DEF LinkInv
<1>2. CASE InsideToState
  BY <1>2, LostRestartChooses
<1>3. CASE AfterAssignment
  BY <1>3, LateRestartChooses DEF Choice!Next
<1>4. CASE InsideDecision
  BY <1>4, RestartedDecisionChooses DEF Choice!Next
<1> QED
  BY <1>1, <1>2, <1>3, <1>4 DEF LinkNext, Step, linkVars

\* Wherever the link interrupt restarts the port, even if the restart is then
\* overwritten, the port keeps to MasterChoice: it may resume an old role without
\* being initialised, but only with a parent an election gave it.
THEOREM RestartChoosesCorrect == LinkSpec => ChoosesAsPromised
<1>1. LinkInit => Agree /\ Choice!Init
  BY PortChoiceInit DEF LinkInit
<1> QED
  BY <1>1, LinkCorrect, LinkChooses, PTL DEF LinkSpec, ChoosesAsPromised, Choice!Spec
=============================================================================
