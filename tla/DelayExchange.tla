---------------------------- MODULE DelayExchange ----------------------------
(***************************************************************************)
(* The measurement of the path delay in ptpd-2.0.0/src/protocol.c and      *)
(* dep/servo.c, for both settings of portDS.delayMechanism: the peer delay *)
(* exchange (P2P: Pdelay_Req, Pdelay_Resp, Pdelay_Resp_Follow_Up) and the  *)
(* delay request exchange (E2E: Delay_Req, Delay_Resp), with the steps of  *)
(* the clock (updateClock, initClock) that come in between.                *)
(*                                                                         *)
(* A time stamp is abstracted to where it comes from: the number of the    *)
(* request it belongs to and the clock that took it.  The network loses,   *)
(* delays, reorders and repeats messages.  The peers answer as this same   *)
(* firmware does, or in one step.                                          *)
(***************************************************************************)
EXTENDS Integers, FiniteSets

CONSTANTS
    Peers,       \* the clocks that may answer a request
    Self,        \* this port's own identity
    Other,       \* another clock that sends requests on the same network
    SeqMod,      \* sequence numbers are below this (2^16)
    Stragglers   \* messages that may outlive the sending of the next request

ASSUME DelayAssumption ==
    /\ Peers # {}
    /\ Self \notin Peers
    /\ Other \notin Peers \cup {Self}
    /\ SeqMod \in Nat /\ SeqMod > 1
    /\ Stragglers \in Nat

VARIABLES
    delayMechanism, \* portDS.delayMechanism, set once by initData
    portState,      \* portDS.portState
    parent,         \* parentDS.parentPortIdentity (kept in E2E only)
    armed,          \* whether the timer of the requests runs
    sent,           \* sentPDelayReqSequenceId or sentDelayReqSequenceId
    t1,             \* pdelay_t1 or timestamp_delayReqSend: the request it is of
    t2, t4,         \* pdelay_t2, pdelay_t4
    waiting,        \* waitingForPDelayRespFollowUp
    tms,            \* Tms, Cleared if ofm_filt.n = 0 (kept in E2E only)
    net,            \* messages under way
    peerMean,       \* what peerMeanPathDelay was computed from in this step
    pathMean,       \* what meanPathDelay was computed from in this step
    upset,          \* history: what has befallen the exchange under way
    responded       \* history: who has answered the current request

port == <<portState, parent, armed>>
measures == <<peerMean, pathMean>>
vars == <<delayMechanism, port, sent, t1, t2, t4, waiting, tms, net, measures,
          upset, responded>>

-----------------------------------------------------------------------------
Seqs == 0 .. SeqMod - 1

\* "DEAF" is any state that drops the messages of an exchange on arrival and
\* sends no request: INITIALIZING, FAULTY, LISTENING, PRE_MASTER.
States == {"DEAF", "PASSIVE", "UNCALIBRATED", "SLAVE", "MASTER"}

Following == {"UNCALIBRATED", "SLAVE"}

\* timerStart with a random interval: an interval of 0 stops the timer.
Drawn == BOOLEAN

\* The states that start the timer as they are entered.
Arming == IF delayMechanism = "P2P" THEN {"PASSIVE", "UNCALIBRATED", "MASTER"}
          ELSE {"UNCALIBRATED"}

\* netSend returns the length whatever happened.  A message that found no
\* transmit buffer ("unsent"), and one the Ethernet DMA was given but has not
\* time-stamped when ETH_PTPTxPkt_ChainMode stops waiting ("unstamped"), leave
\* the caller with the time it read before.
SendOutcomes == {"sent", "unstamped", "unsent"}

\* The stamp of no request.
None == -1

\* The answer a stamp belongs to.
Answers == [seq : Seqs \cup {None}, from : Peers \cup {Self}]

Cleared == [seq |-> None, from |-> Self]

Upsets == {"reset", "overtaken", "reparented", "unsent", "unkept"}

Messages ==
    [kind : {"req", "resp1", "resp2", "delayResp", "followUp"}, seq : Seqs,
     peer : Peers, for : {Self, Other}]

Message(kind, seq, peer, for) ==
    [kind |-> kind, seq |-> seq, peer |-> peer, for |-> for]

\* The number of the last request, as it went out in the message.
Last == (sent + SeqMod - 1) % SeqMod

\* A bug: the answer is compared with the number of the next request.
IsCurrentNext(seq) == sent = seq

\* (ptpClock->sentPDelayReqSequenceId - 1) == sequenceId: the subtraction is
\* done in int, so that after the wrap to 0 no number is the current one.
IsCurrent(seq) == sent - 1 = seq

-----------------------------------------------------------------------------
Init ==
    /\ delayMechanism \in {"P2P", "E2E"}
    /\ portState = "DEAF"
    /\ parent = CHOOSE p \in Peers : TRUE
    /\ armed = FALSE
    /\ sent = 0
    /\ t1 = None
    /\ t2 = Cleared /\ t4 = Cleared
    /\ waiting = FALSE
    /\ tms = Cleared
    /\ net = {}
    /\ peerMean = {} /\ pathMean = {}
    /\ upset = {} /\ responded = {}

NothingMeasured == peerMean' = {} /\ pathMean' = {}

-----------------------------------------------------------------------------
(* initClock and what calls it *)

\* A bug: the follow-up is still awaited after the stamps were cleared.
InitClockStillWaiting ==
    /\ t1' = IF delayMechanism = "P2P" THEN None ELSE t1
    /\ t2' = Cleared /\ t4' = Cleared
    /\ waiting' = waiting
    /\ tms' = Cleared
    /\ upset' = IF delayMechanism = "P2P" THEN (upset \cap {"unsent"}) \cup {"reset"}
                ELSE upset \cap {"unsent", "unkept"}

\* The event queue is emptied as well: an answer in it is one of those the
\* network may lose.  pdelay_t1 is cleared with the others, but not
\* timestamp_delayReqSend, which t1 is in E2E.
InitClock ==
    /\ t1' = IF delayMechanism = "P2P" THEN None ELSE t1
    /\ t2' = Cleared /\ t4' = Cleared
    /\ waiting' = FALSE
    /\ tms' = Cleared
    /\ upset' = IF delayMechanism = "P2P" THEN (upset \cap {"unsent"}) \cup {"reset"}
                ELSE upset \cap {"unsent", "unkept"}

\* toState: only the moves between UNCALIBRATED and SLAVE leave the clock alone.
MoveTo(s) ==
    /\ s \notin {portState, "SLAVE"}
    /\ portState = "SLAVE" => s # "UNCALIBRATED"
    /\ InitClock
    /\ portState' = s
    /\ armed' \in IF s \in Arming THEN Drawn ELSE {FALSE}
    /\ \/ parent' = parent
       \/ delayMechanism = "E2E" /\ s \in Following /\ parent' \in Peers
    /\ NothingMeasured
    /\ UNCHANGED <<delayMechanism, sent, net, responded>>

\* SLAVE going back to UNCALIBRATED starts the timer again.
Recalibrates ==
    armed' \in IF portState = "SLAVE" /\ portState' = "UNCALIBRATED" THEN Drawn ELSE {armed}

\* updateClock sets the clock.  Following, the offset that asks for it also
\* raised SYNCHRONIZATION_FAULT, which ends SLAVE before the next message is
\* handled; as MASTER it is the once-a-second ADJ_CallBack.
StepClock ==
    /\ portState \in Following \cup {"MASTER"}
    /\ InitClock
    /\ portState' = IF portState = "SLAVE" THEN "UNCALIBRATED" ELSE portState
    /\ Recalibrates
    /\ NothingMeasured
    /\ UNCHANGED <<delayMechanism, parent, sent, net, responded>>

\* updateOffset with a Sync of the parent whose offset can be filtered; it
\* calibrates the port, or the port loses its calibration, or neither.
TrackSync ==
    /\ portState \in Following
    /\ portState' \in Following
    /\ Recalibrates
    /\ tms' = IF delayMechanism = "E2E" THEN [seq |-> None, from |-> parent] ELSE tms
    /\ upset' = upset \ {"reparented"}
    /\ NothingMeasured
    /\ UNCHANGED <<delayMechanism, parent, sent, t1, t2, t4, waiting, net, responded>>

\* s1 on the announce of another master: Tms stays.
ChangeParent ==
    /\ delayMechanism = "E2E"
    /\ portState \in Following
    /\ parent' \in Peers \ {parent}
    /\ portState' = "UNCALIBRATED"
    /\ Recalibrates
    /\ upset' = upset \cup {"reparented"}
    /\ NothingMeasured
    /\ UNCHANGED <<delayMechanism, sent, t1, t2, t4, waiting, tms, net, responded>>

-----------------------------------------------------------------------------
(* Requests and answers *)

\* The stamp of a request is kept unless its seconds are 0.  A clock starts in
\* second 0, and is there again when updateClock sets it so (to run into it once
\* more would take it 2^31 seconds); in P2P initClock then clears pdelay_t1.
StampKept == IF delayMechanism = "P2P" /\ t1 # None THEN {TRUE} ELSE BOOLEAN

KeepStamp(outcome, kept) ==
    /\ t1' = IF kept THEN sent ELSE t1
    /\ upset' = (upset \cap {"reparented"})
                \cup (IF waiting THEN {"overtaken"} ELSE {})
                \cup ({"unsent"} \cap {outcome})
                \cup (IF kept THEN {} ELSE {"unkept"})

\* A bug: the number does not wrap.
SendRequestNoWrap(outcome) ==
    /\ delayMechanism = "P2P" /\ portState # "DEAF"
    /\ armed /\ armed' \in Drawn
    /\ sent' = sent + 1
    /\ KeepStamp(outcome, TRUE)
    /\ net' = {Message("req", sent, p, Self) : p \in Peers}
    /\ responded' = {}
    /\ NothingMeasured
    /\ UNCHANGED <<delayMechanism, portState, parent, t2, t4, waiting, tms>>

\* A bug: a request that could not be sent is not counted.
SendRequestUncounted(outcome) ==
    /\ delayMechanism = "P2P" /\ portState # "DEAF"
    /\ armed /\ armed' \in Drawn
    /\ sent' = IF outcome = "unsent" THEN sent ELSE (sent + 1) % SeqMod
    /\ KeepStamp(outcome, TRUE)
    /\ net' = IF outcome = "unsent" THEN net
              ELSE {Message("req", sent, p, Self) : p \in Peers}
    /\ responded' = IF outcome = "unsent" THEN responded ELSE {}
    /\ NothingMeasured
    /\ UNCHANGED <<delayMechanism, portState, parent, t2, t4, waiting, tms>>

\* issuePDelayReq and issueDelayReq: the number advances whatever became of
\* the message and of its stamp.
SendRequest(outcome) ==
    /\ \/ delayMechanism = "P2P" /\ portState # "DEAF"
       \/ delayMechanism = "E2E" /\ portState = "SLAVE"
    /\ armed /\ armed' \in Drawn
    /\ sent' = (sent + 1) % SeqMod
    /\ \E kept \in StampKept : KeepStamp(outcome, kept)
    /\ \E late \in SUBSET {m \in net : m.seq = Last /\ m.kind # "req"} :
          /\ Cardinality(late) <= Stragglers
          /\ net' = late \cup (IF outcome = "unsent" THEN {}
                               ELSE {Message("req", sent, p, Self) : p \in Peers})
    /\ responded' = {}
    /\ NothingMeasured
    /\ UNCHANGED <<delayMechanism, portState, parent, t2, t4, waiting, tms>>

\* A peer answers: handlePDelayReq of this firmware (Pdelay_Resp and its
\* follow-up, each of which may not leave), a one-step clock, or handleDelayReq.
Respond(req) ==
    /\ req \in net /\ req.kind = "req"
    /\ \E kinds \in IF delayMechanism = "P2P"
                    THEN {{"resp1"}} \cup SUBSET {"resp2", "followUp"}
                    ELSE {{}, {"delayResp"}} :
          net' = (net \ {req})
                 \cup {Message(kind, req.seq, req.peer, Self) : kind \in kinds}
    /\ responded' = IF req.seq = Last THEN responded \cup {req.peer} ELSE responded
    /\ NothingMeasured
    /\ UNCHANGED <<delayMechanism, port, sent, t1, t2, t4, waiting, tms, upset>>

\* Answers to another clock's requests pass by at any time.
ForeignAnswers ==
    {Message(kind, seq, p, Other) :
        kind \in {"resp1", "resp2", "followUp", "delayResp"}, seq \in Seqs, p \in Peers}

\* Taken from the network, perhaps to arrive once more.
Taken(m) ==
    \/ m \in net /\ net' \in {net, net \ {m}}
    \/ m \in ForeignAnswers /\ net' = net

\* handlePDelayResp: the response itself is checked for number and requester.
HandlePDelayResp(m) ==
    /\ Taken(m) /\ m.kind \in {"resp1", "resp2"}
    /\ delayMechanism = "P2P"
    /\ portState \in {"SLAVE", "MASTER"}
    /\ IsCurrent(m.seq) /\ m.for = Self
    /\ t4' = [seq |-> m.seq, from |-> m.peer]
    /\ \/ /\ m.kind = "resp2"
          /\ waiting' = TRUE
          /\ t2' = [seq |-> m.seq, from |-> m.peer]
          /\ upset' = upset \ {"overtaken"}
          /\ NothingMeasured
       \/ /\ m.kind = "resp1"
          /\ waiting' = FALSE
          /\ upset' = upset \ {"overtaken"}
          /\ peerMean' = {[t1 |-> t1, t2 |-> t4', t3 |-> t4', t4 |-> t4',
                           for |-> m.for]}
          /\ UNCHANGED <<t2, pathMean>>
    /\ UNCHANGED <<delayMechanism, port, sent, t1, tms, responded>>

\* A bug: the sequence number is not compared.
HandlePDelayRespFollowUpAny(m) ==
    /\ Taken(m) /\ m.kind = "followUp"
    /\ delayMechanism = "P2P"
    /\ portState \in {"SLAVE", "MASTER"}
    /\ waiting
    /\ waiting' = FALSE
    /\ peerMean' = {[t1 |-> t1, t2 |-> t2, t3 |-> [seq |-> m.seq, from |-> m.peer],
                     t4 |-> t4, for |-> m.for]}
    /\ UNCHANGED <<delayMechanism, port, sent, t1, t2, t4, tms, pathMean, upset, responded>>

\* handlePDelayRespFollowUp: of the follow-up only the number is looked at.
HandlePDelayRespFollowUp(m) ==
    /\ Taken(m) /\ m.kind = "followUp"
    /\ delayMechanism = "P2P"
    /\ portState \in {"SLAVE", "MASTER"}
    /\ waiting
    /\ IsCurrent(m.seq)
    /\ waiting' = FALSE
    /\ peerMean' = {[t1 |-> t1, t2 |-> t2, t3 |-> [seq |-> m.seq, from |-> m.peer],
                     t4 |-> t4, for |-> m.for]}
    /\ UNCHANGED <<delayMechanism, port, sent, t1, t2, t4, tms, pathMean, upset, responded>>

\* A bug: the answer of any master is taken.
HandleDelayRespAnyMaster(m) ==
    /\ Taken(m) /\ m.kind = "delayResp"
    /\ delayMechanism = "E2E"
    /\ portState \in Following
    /\ IsCurrent(m.seq) /\ m.for = Self
    /\ tms # Cleared
    /\ pathMean' = {[t1 |-> t1, seq |-> m.seq, tms |-> tms.from, from |-> m.peer]}
    /\ peerMean' = {}
    /\ UNCHANGED <<delayMechanism, port, sent, t1, t2, t4, waiting, tms, upset, responded>>

\* handleDelayResp and updateDelay, which does nothing while no offset was filtered.
HandleDelayResp(m) ==
    /\ Taken(m) /\ m.kind = "delayResp"
    /\ delayMechanism = "E2E"
    /\ portState \in Following
    /\ IsCurrent(m.seq) /\ m.for = Self /\ m.peer = parent
    /\ tms # Cleared
    /\ pathMean' = {[t1 |-> t1, seq |-> m.seq, tms |-> tms.from, from |-> m.peer]}
    /\ peerMean' = {}
    /\ UNCHANGED <<delayMechanism, port, sent, t1, t2, t4, waiting, tms, upset, responded>>

-----------------------------------------------------------------------------
Receive(m) ==
    HandlePDelayResp(m) \/ HandlePDelayRespFollowUp(m) \/ HandleDelayResp(m)

\* A message that is lost, or disregarded, is one that no action takes before
\* a SendRequest drops it.
Next ==
    \/ \E s \in States : MoveTo(s)
    \/ StepClock
    \/ TrackSync
    \/ ChangeParent
    \/ \E outcome \in SendOutcomes : SendRequest(outcome)
    \/ \E m \in net : Respond(m)
    \/ \E m \in net \cup ForeignAnswers : Receive(m)

Spec == Init /\ [][Next]_vars

\* The request number 0 leaves the port, and is answered in full while it is
\* the current one; the response to a request, then its follow-up, is used.
Issued == sent = 0 /\ SendRequest("sent")
Answered ==
    \E m \in net : /\ m.seq = 0 /\ Last = 0
                   /\ Respond(m)
                   /\ {"resp2", "followUp"} \subseteq {n.kind : n \in net' \ net}
ResponseUsed == \E m \in net : HandlePDelayResp(m) /\ waiting'
FollowUpUsed == \E m \in net : HandlePDelayRespFollowUp(m)

\* The timer expires while it runs, and the parent's Syncs, whose handlers ask
\* for it, go on.  The network knows nothing of the numbers: it lets the
\* requests of each of them through again and again, of which those numbered 0
\* are enough.
FairSpec ==
    /\ Spec
    /\ WF_vars(\E outcome \in SendOutcomes : SendRequest(outcome))
    /\ SF_vars(Issued) /\ SF_vars(Answered)
    /\ SF_vars(ResponseUsed) /\ SF_vars(FollowUpUsed)

-----------------------------------------------------------------------------
TypeOK ==
    /\ delayMechanism \in {"P2P", "E2E"}
    /\ portState \in States
    /\ parent \in Peers
    /\ armed \in BOOLEAN
    /\ sent \in Seqs
    /\ t1 \in Seqs \cup {None}
    /\ t2 \in Answers /\ t4 \in Answers
    /\ waiting \in BOOLEAN
    /\ tms \in Answers
    /\ net \subseteq Messages
    /\ peerMean \subseteq [t1 : Seqs \cup {None}, t2 : Answers, t3 : Answers,
                           t4 : Answers, for : {Self, Other}]
    /\ pathMean \subseteq [t1 : Seqs \cup {None}, seq : Seqs, tms : Peers \cup {Self},
                           from : Peers]
    /\ upset \subseteq Upsets
    /\ responded \subseteq Peers

\* A delay is measured with the stamp of the request that was answered.  In P2P
\* the cleared stamp is measured with instead if initClock cleared it after the
\* request, or if the request left in second 0 of the clock: then its number
\* counts but its stamp is not kept.  In E2E it is then an older request's.  A
\* time of the answer that initClock cleared is never measured with.
StampOfTheRequest ==
    /\ \A d \in peerMean :
          /\ Cleared \notin {d.t2, d.t3, d.t4}
          /\ d.t1 # d.t3.seq => d.t1 = None /\ upset \cap {"reset", "unkept"} # {}
    /\ \A d \in pathMean : d.t1 # d.seq => "unkept" \in upset

\* t2 and t4 are of one answer.  They are of another exchange than t3 only when
\* the request was sent while the follow-up of the one before was awaited.
MixedAnswersNeedOvertaking ==
    \A d \in peerMean :
        /\ d.t2 = d.t4
        /\ d.t3.seq # d.t4.seq => "overtaken" \in upset

\* t3 is of another peer than t2 and t4 only when two peers answered, when the
\* request overtook an answer, or when the follow-up was not for this clock.
MixedPeersNeedSecond ==
    \A d \in peerMean :
        d.t3.from # d.t4.from => \/ \E p, q \in responded : p # q
                                 \/ "overtaken" \in upset
                                 \/ d.for = Other

\* netSend hides that a request never left, and its number counts.  While it is
\* the current one nothing is measured, but for an old answer that is completed
\* by another clock's follow-up.  (A request that left unstamped is measured as
\* any other, with the time read before it was sent.)
UnsentRequestNotMeasured ==
    "unsent" \in upset =>
        /\ \A d \in peerMean : "overtaken" \in upset /\ d.for = Other
        /\ pathMean = {}

\* meanPathDelay is never computed from a Tms that initClock cleared, and mixes
\* two masters only between a change of parent and its first Sync.
PathDelayOfOneMaster ==
    \A d \in pathMean :
        d.tms \in Peers /\ (d.tms # d.from => "reparented" \in upset)

\* A slave measures the peer delay again and again, although the request whose
\* number is SeqMod - 1 cannot be answered, unless it draws an interval of 0,
\* which ends its requests until it changes state.
PeerDelayMeasuredAgain ==
    <>[](delayMechanism = "P2P" /\ portState = "SLAVE" /\ armed) => []<>(peerMean # {})
=============================================================================
