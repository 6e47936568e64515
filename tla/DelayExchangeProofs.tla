------------------------ MODULE DelayExchangeProofs ------------------------
(***************************************************************************)
(* The safety properties of DelayExchange, for any peers, any width of the *)
(* sequence numbers and any network.                                       *)
(***************************************************************************)
EXTENDS DelayExchange, TLAPS

P2P == delayMechanism = "P2P"

\* t1 is not the stamp of the last request, because that was not kept.
Unkept == "unkept" \in upset

\* The last request never left.
UnsentRequest == "unsent" \in upset

\* t1 is of the last request, or cleared, or in E2E of an older request whose
\* successors' stamps were not kept; before the first request no number is the
\* current one.
RequestStamp ==
    /\ t1 = None => sent = 0 \/ Unkept \/ (P2P /\ "reset" \in upset)
    /\ t1 # None => \/ ~P2P /\ Unkept
                   \/ t1 = IF sent = 0 THEN SeqMod - 1 ELSE sent - 1

\* While a follow-up is awaited t2 and t4 are of one answer, and unless the
\* request was overtaken it answers the last one, which was sent.
AnswerStamps ==
    waiting => /\ P2P
               /\ t2 = t4 /\ t4 # Cleared
               /\ "overtaken" \notin upset =>
                      t4.seq = sent - 1 /\ t4.from \in responded /\ ~UnsentRequest

\* What is under way is for this clock; what carries the current number
\* belongs to a request that was sent, and answers are of those who responded.
Network ==
    \A m \in net : /\ m.for = Self
                   /\ IsCurrent(m.seq) => /\ ~UnsentRequest
                                          /\ m.kind # "req" => m.peer \in responded

\* Tms is the parent's, or was cleared, or the parent changed since.
Filtered ==
    tms # Cleared =>
        ~P2P /\ tms.from \in Peers /\ (tms.from # parent => "reparented" \in upset)

\* Only one of the two mechanisms measures.
OneMechanism == pathMean # {} => ~P2P

IInv == TypeOK /\ RequestStamp /\ AnswerStamps /\ Network /\ Filtered /\ OneMechanism

\* The properties of a measurement, together.
Sound == /\ StampOfTheRequest /\ MixedAnswersNeedOvertaking
         /\ MixedPeersNeedSecond /\ UnsentRequestNotMeasured /\ PathDelayOfOneMaster

-----------------------------------------------------------------------------
(* Arithmetic *)

\* The next and the last number, without the remainder.
LEMMA Wrap ==
    ASSUME NEW a \in Seqs
    PROVE  /\ (a + 1) % SeqMod = IF a = SeqMod - 1 THEN 0 ELSE a + 1
           /\ (a + SeqMod - 1) % SeqMod = IF a = 0 THEN SeqMod - 1 ELSE a - 1
<1>1. /\ SeqMod \in Nat /\ SeqMod > 1
      /\ a \in 0 .. SeqMod - 1
  BY DelayAssumption DEF Seqs
<1>2. (a + 1) % SeqMod = IF a = SeqMod - 1 THEN 0 ELSE a + 1
  <2>1. CASE a = SeqMod - 1
    BY <1>1, <2>1
  <2>2. CASE a # SeqMod - 1
    BY <1>1, <2>2
  <2> QED
    BY <2>1, <2>2
<1>3. (a + SeqMod - 1) % SeqMod = IF a = 0 THEN SeqMod - 1 ELSE a - 1
  <2>1. CASE a = 0
    BY <1>1, <2>1
  <2>2. CASE a # 0
    BY <1>1, <2>2
  <2> QED
    BY <2>1, <2>2
<1> QED
  BY <1>2, <1>3

-----------------------------------------------------------------------------
(* Types *)

\* What initClock leaves is of the right kind.
LEMMA ClearedTypes == Cleared \in Answers
  BY DEF Cleared, Answers

LEMMA InitTypes == Init => TypeOK
<1> SUFFICES ASSUME Init PROVE TypeOK
  OBVIOUS
<1>1. parent \in Peers
  BY DelayAssumption DEF Init
<1>2. sent \in Seqs
  BY DelayAssumption DEF Init, Seqs
<1>3. t1 \in Seqs \cup {None} /\ t2 \in Answers /\ t4 \in Answers /\ tms \in Answers
  BY ClearedTypes DEF Init
<1> QED
  BY <1>1, <1>2, <1>3 DEF Init, TypeOK, States

\* Every message that is handled is one of the Messages, and leaves only such.
LEMMA TakenTypes ==
    ASSUME TypeOK, NEW m \in net \cup ForeignAnswers, Taken(m)
    PROVE  m \in Messages /\ net' \subseteq net
<1>1. net \subseteq Messages
  BY DEF TypeOK
<1>2. ForeignAnswers \subseteq Messages
  BY DEF ForeignAnswers, Message, Messages
<1> QED
  BY <1>1, <1>2 DEF Taken

\* A message has a number, a peer and an addressee.
LEMMA MessageFields ==
    ASSUME NEW m \in Messages
    PROVE  m.seq \in Seqs /\ m.peer \in Peers /\ m.for \in {Self, Other}
  BY DEF Messages

LEMMA StepTypes == TypeOK /\ [Next]_vars => TypeOK'
<1> SUFFICES ASSUME TypeOK, [Next]_vars PROVE TypeOK'
  OBVIOUS
<1>1. ASSUME NEW s \in States, MoveTo(s) PROVE TypeOK'
  <2>1. t1' \in Seqs \cup {None} /\ t2' \in Answers /\ t4' \in Answers /\ tms' \in Answers
    BY <1>1, ClearedTypes DEF TypeOK, MoveTo, InitClock
  <2>2. armed' \in BOOLEAN
    BY <1>1 DEF MoveTo, Drawn
  <2>3. upset' \subseteq Upsets
    BY <1>1 DEF TypeOK, MoveTo, InitClock, Upsets
  <2> QED
    BY <1>1, <2>1, <2>2, <2>3 DEF TypeOK, MoveTo, InitClock, NothingMeasured
<1>2. CASE StepClock
  <2>2. t1' \in Seqs \cup {None} /\ t2' \in Answers /\ t4' \in Answers /\ tms' \in Answers
    BY <1>2, ClearedTypes DEF TypeOK, StepClock, InitClock
  <2>3. armed' \in BOOLEAN
    BY <1>2 DEF StepClock, Recalibrates, Drawn, TypeOK
  <2>4. upset' \subseteq Upsets
    BY <1>2 DEF TypeOK, StepClock, InitClock, Upsets
  <2>5. portState' \in States
    BY <1>2 DEF TypeOK, StepClock, States
  <2> QED
    BY <1>2, <2>2, <2>3, <2>4, <2>5 DEF TypeOK, StepClock, InitClock, NothingMeasured
<1>3. CASE TrackSync
  <2>1. tms' \in Answers
    BY <1>3 DEF TypeOK, TrackSync, Answers
  <2>2. armed' \in BOOLEAN
    BY <1>3 DEF TrackSync, Recalibrates, Drawn, TypeOK
  <2>3. portState' \in States
    BY <1>3 DEF TrackSync, States, Following
  <2> QED
    BY <1>3, <2>1, <2>2, <2>3 DEF TypeOK, TrackSync, NothingMeasured
<1>4. CASE ChangeParent
  <2>1. armed' \in BOOLEAN
    BY <1>4 DEF ChangeParent, Recalibrates, Drawn, TypeOK
  <2> QED
    BY <1>4, <2>1 DEF TypeOK, ChangeParent, NothingMeasured, States, Upsets
<1>5. ASSUME NEW outcome \in SendOutcomes, SendRequest(outcome) PROVE TypeOK'
  <2>1. sent' \in Seqs
    BY <1>5, Wrap, DelayAssumption DEF TypeOK, SendRequest, Seqs
  <2>2. t1' \in Seqs \cup {None}
    BY <1>5 DEF TypeOK, SendRequest, KeepStamp
  <2>3. net' \subseteq Messages
    BY <1>5 DEF TypeOK, SendRequest, Messages, Message
  <2>4. upset' \subseteq Upsets
    BY <1>5 DEF TypeOK, SendRequest, KeepStamp, Upsets
  <2> QED
    BY <1>5, <2>1, <2>2, <2>3, <2>4 DEF TypeOK, SendRequest, NothingMeasured, Drawn
<1>6. ASSUME NEW m \in net, Respond(m) PROVE TypeOK'
  <2>1. m \in Messages
    BY DEF TypeOK
  <2>2. net' \subseteq Messages
    <3>1. PICK kinds \in SUBSET {"resp1", "resp2", "followUp", "delayResp"} :
             net' = (net \ {m}) \cup {Message(kind, m.seq, m.peer, Self) : kind \in kinds}
      BY <1>6 DEF Respond
    <3>2. \A kind \in kinds : Message(kind, m.seq, m.peer, Self) \in Messages
      BY <2>1 DEF Messages, Message
    <3> QED
      BY <3>1, <3>2 DEF TypeOK
  <2>3. responded' \subseteq Peers
    BY <1>6, <2>1, MessageFields DEF TypeOK, Respond
  <2> QED
    BY <1>6, <2>2, <2>3 DEF TypeOK, Respond, NothingMeasured, port
<1>7. ASSUME NEW m \in net \cup ForeignAnswers, HandlePDelayResp(m) PROVE TypeOK'
  <2>1. m \in Messages /\ net' \subseteq net
    BY <1>7, TakenTypes DEF HandlePDelayResp
  <2>2. [seq |-> m.seq, from |-> m.peer] \in Answers
    BY <2>1, MessageFields DEF Answers
  <2>3. peerMean' \subseteq [t1 : Seqs \cup {None}, t2 : Answers, t3 : Answers, t4 : Answers,
                             for : {Self, Other}]
    BY <1>7, <2>1, <2>2, MessageFields DEF TypeOK, HandlePDelayResp, NothingMeasured
  <2> QED
    BY <1>7, <2>1, <2>2, <2>3 DEF TypeOK, HandlePDelayResp, NothingMeasured, port
<1>8. ASSUME NEW m \in net \cup ForeignAnswers, HandlePDelayRespFollowUp(m) PROVE TypeOK'
  <2>1. m \in Messages /\ net' \subseteq net
    BY <1>8, TakenTypes DEF HandlePDelayRespFollowUp
  <2>2. [seq |-> m.seq, from |-> m.peer] \in Answers
    BY <2>1, MessageFields DEF Answers
  <2>3. peerMean' \subseteq [t1 : Seqs \cup {None}, t2 : Answers, t3 : Answers, t4 : Answers,
                             for : {Self, Other}]
    BY <1>8, <2>1, <2>2, MessageFields DEF TypeOK, HandlePDelayRespFollowUp
  <2> QED
    BY <1>8, <2>1, <2>3 DEF TypeOK, HandlePDelayRespFollowUp, port
<1>9. ASSUME NEW m \in net \cup ForeignAnswers, HandleDelayResp(m) PROVE TypeOK'
  <2>1. m \in Messages /\ net' \subseteq net
    BY <1>9, TakenTypes DEF HandleDelayResp
  <2>2. pathMean' \subseteq [t1 : Seqs \cup {None}, seq : Seqs, tms : Peers \cup {Self}, from : Peers]
    BY <1>9, <2>1, MessageFields DEF TypeOK, HandleDelayResp, Answers
  <2> QED
    BY <1>9, <2>1, <2>2 DEF TypeOK, HandleDelayResp, port
<1>10. CASE UNCHANGED vars
  BY <1>10 DEF TypeOK, vars, port, measures
<1> QED
  BY <1>1, <1>2, <1>3, <1>4, <1>5, <1>6, <1>7, <1>8, <1>9, <1>10 DEF Next, Receive

\* The variables keep their types, for any peers and any width of the numbers.
THEOREM DelayTypeCorrect == Spec => []TypeOK
  BY InitTypes, StepTypes, PTL DEF Spec

-----------------------------------------------------------------------------
(* The invariant *)

LEMMA InitInv == Init => IInv
<1> SUFFICES ASSUME Init PROVE IInv
  OBVIOUS
<1> QED
  BY InitTypes
     DEF Init, IInv, RequestStamp, AnswerStamps, Network, Filtered, OneMechanism

\* After initClock nothing is awaited, and in P2P nothing is left of the request.
LEMMA ResetInv ==
    ASSUME IInv, TypeOK', InitClock, NothingMeasured,
           UNCHANGED <<delayMechanism, sent, net, responded>>
    PROVE  IInv'
<1>1. P2P' = P2P /\ (\A seq : IsCurrent(seq)' = IsCurrent(seq))
  BY DEF P2P, IsCurrent
<1>2. t1' = IF P2P THEN None ELSE t1
  BY DEF InitClock, P2P
<1>3. (~P2P => (Unkept' <=> Unkept)) /\ (UnsentRequest' <=> UnsentRequest)
  BY DEF InitClock, Unkept, UnsentRequest, P2P
<1>4. (P2P => "reset" \in upset') /\ ~waiting' /\ tms' = Cleared /\ pathMean' = {}
  BY DEF InitClock, NothingMeasured, P2P
<1>5. RequestStamp'
  BY <1>1, <1>2, <1>3, <1>4 DEF IInv, RequestStamp
<1>7. Network'
  BY <1>1, <1>3 DEF IInv, Network
<1> QED
  BY <1>4, <1>5, <1>7 DEF IInv, AnswerStamps, Filtered, OneMechanism

\* What befell the exchange itself.
Befell == upset \cap {"reset", "overtaken", "unsent", "unkept"}

\* A step that touches neither the exchange nor its messages.
LEMMA AsideInv ==
    ASSUME IInv, TypeOK', NothingMeasured, Filtered',
           UNCHANGED <<delayMechanism, sent, t1, t2, t4, waiting, net, responded>>,
           Befell' = Befell
    PROVE  IInv'
<1>1. P2P' = P2P /\ (\A seq : IsCurrent(seq)' = IsCurrent(seq))
  BY DEF P2P, IsCurrent
<1>2. /\ "reset" \in upset' <=> "reset" \in upset
      /\ "overtaken" \in upset' <=> "overtaken" \in upset
      /\ Unkept' <=> Unkept
      /\ UnsentRequest' <=> UnsentRequest
  BY DEF Befell, Unkept, UnsentRequest
<1>3. RequestStamp'
  BY <1>1, <1>2 DEF IInv, RequestStamp
<1>4. AnswerStamps'
  BY <1>1, <1>2 DEF IInv, AnswerStamps
<1>5. Network'
  BY <1>1, <1>2 DEF IInv, Network
<1> QED
  BY <1>3, <1>4, <1>5 DEF IInv, OneMechanism, NothingMeasured

\* A request takes a new number, which nothing under way carries but itself.
LEMMA SendInv ==
    ASSUME IInv, TypeOK', NEW outcome \in SendOutcomes, SendRequest(outcome)
    PROVE  IInv'
<1> USE DEF SendRequest
<1>0. sent \in Seqs /\ SeqMod \in Nat /\ SeqMod > 1 /\ None \notin Seqs
  BY DelayAssumption DEF IInv, TypeOK, Seqs, None
<1>1. sent' = IF sent = SeqMod - 1 THEN 0 ELSE sent + 1
  BY <1>0, Wrap
<1>2. Last = IF sent = 0 THEN SeqMod - 1 ELSE sent - 1
  BY <1>0, Wrap DEF Last
<1>3. sent' - 1 # Last
  BY <1>0, <1>1, <1>2 DEF Seqs
<1>4. P2P' = P2P
  BY DEF P2P
<1>5. /\ \/ t1' = sent /\ t1' # None
         \/ Unkept' /\ (P2P => t1' = None)
      /\ UnsentRequest' => outcome = "unsent"
  <2>1. PICK kept \in StampKept : KeepStamp(outcome, kept)
    OBVIOUS
  <2> QED
    BY <1>0, <2>1 DEF KeepStamp, StampKept, Unkept, UnsentRequest, P2P
<1>6. RequestStamp'
  BY <1>0, <1>1, <1>4, <1>5 DEF RequestStamp, Seqs
<1>7. AnswerStamps'
  <2>1. waiting => "overtaken" \in upset'
    <3>1. PICK kept \in StampKept : KeepStamp(outcome, kept)
      OBVIOUS
    <3> QED
      BY <3>1 DEF KeepStamp
  <2> QED
    BY <1>4, <2>1 DEF IInv, AnswerStamps
<1>8. Network'
  <2> SUFFICES ASSUME NEW m \in net'
               PROVE  /\ m.for = Self
                      /\ IsCurrent(m.seq)' => /\ ~UnsentRequest'
                                              /\ m.kind # "req" => m.peer \in responded'
    BY DEF Network
  <2>1. CASE m \in net /\ m.seq = Last
    BY <1>3, <2>1 DEF IInv, Network, IsCurrent
  <2>2. CASE outcome # "unsent" /\ \E p \in Peers : m = Message("req", sent, p, Self)
    BY <1>5, <2>2 DEF Message, UnsentRequest
  <2> QED
    BY <2>1, <2>2
<1>9. Filtered'
  <2>1. "reparented" \in upset => "reparented" \in upset'
    <3>1. PICK kept \in StampKept : KeepStamp(outcome, kept)
      OBVIOUS
    <3> QED
      BY <3>1 DEF KeepStamp
  <2> QED
    BY <2>1 DEF IInv, Filtered, P2P
<1> QED
  BY <1>6, <1>7, <1>8, <1>9 DEF IInv, OneMechanism, NothingMeasured

\* An answer carries the number of its request and is of one who responded.
LEMMA RespondInv ==
    ASSUME IInv, TypeOK', NEW req \in net, Respond(req)
    PROVE  IInv'
<1> USE DEF Respond
<1>0. sent \in Seqs /\ req.seq \in Seqs
  BY MessageFields DEF IInv, TypeOK
<1>1. P2P' = P2P /\ (\A seq : IsCurrent(seq)' = IsCurrent(seq)) /\ (UnsentRequest' <=> UnsentRequest)
      /\ (Unkept' <=> Unkept)
  BY DEF P2P, IsCurrent, UnsentRequest, Unkept
<1>2. IsCurrent(req.seq) => req.seq = Last
  BY <1>0, Wrap, DelayAssumption DEF IsCurrent, Last, Seqs
<1>3. responded \subseteq responded' /\ (req.seq = Last => req.peer \in responded')
  OBVIOUS
<1>4. Network'
  <2> SUFFICES ASSUME NEW m \in net'
               PROVE  /\ m.for = Self
                      /\ IsCurrent(m.seq) => /\ ~UnsentRequest
                                             /\ m.kind # "req" => m.peer \in responded'
    BY <1>1 DEF Network
  <2>1. CASE m \in net
    BY <1>3, <2>1 DEF IInv, Network
  <2>2. CASE m \notin net
    <3>1. m.seq = req.seq /\ m.peer = req.peer /\ m.for = Self
      BY <2>2 DEF Message
    <3> QED
      BY <1>2, <1>3, <3>1 DEF IInv, Network
  <2> QED
    BY <2>1, <2>2
<1>5. RequestStamp'
  BY <1>1 DEF IInv, RequestStamp
<1>6. AnswerStamps'
  BY <1>1, <1>3 DEF IInv, AnswerStamps
<1> QED
  BY <1>1, <1>4, <1>5, <1>6 DEF IInv, Filtered, OneMechanism, NothingMeasured, port

\* An answer to this clock's last request is under way: its request was sent,
\* and it is of one who responded.
LEMMA AnswerUnderWay ==
    ASSUME IInv, NEW m \in net \cup ForeignAnswers, Taken(m),
           m.for = Self, IsCurrent(m.seq), m.kind # "req"
    PROVE  ~UnsentRequest /\ m.peer \in responded
<1>1. m \notin ForeignAnswers
  BY DelayAssumption DEF ForeignAnswers, Message
<1> QED
  BY <1>1 DEF Taken, IInv, Network

\* The request whose number is the current one, if initClock has not cleared it.
LEMMA CurrentRequest ==
    ASSUME IInv, NEW seq \in Seqs, IsCurrent(seq)
    PROVE  /\ sent # 0 /\ seq = sent - 1
           /\ ~P2P /\ t1 # seq => Unkept
           /\ P2P /\ t1 # seq => t1 = None /\ upset \cap {"reset", "unkept"} # {}
<1>1. sent \in Seqs
  BY DEF IInv, TypeOK
<1> QED
  BY <1>1, DelayAssumption DEF IInv, RequestStamp, IsCurrent, Seqs, Unkept

\* A response, of one step or of two.
LEMMA ResponseInv ==
    ASSUME IInv, TypeOK', NEW m \in net \cup ForeignAnswers, HandlePDelayResp(m)
    PROVE  IInv' /\ Sound'
<1> USE DEF HandlePDelayResp
<1>1. m \in Messages /\ net' \subseteq net /\ m.seq \in Seqs /\ m.peer \in Peers
  BY TakenTypes, MessageFields DEF IInv
<1>2. ~UnsentRequest /\ m.peer \in responded
  BY AnswerUnderWay
<1>3. P2P /\ P2P' /\ (\A seq : IsCurrent(seq)' = IsCurrent(seq)) /\ (UnsentRequest' <=> UnsentRequest)
      /\ (Unkept' <=> Unkept)
  BY DEF P2P, IsCurrent, UnsentRequest, Unkept
<1>4. /\ m.seq = sent - 1
      /\ t1 # m.seq => t1 = None /\ upset \cap {"reset", "unkept"} # {}
  BY <1>1, <1>3, CurrentRequest
<1>5. upset' \cap {"reset", "unkept"} = upset \cap {"reset", "unkept"}
  OBVIOUS
<1>6. RequestStamp'
  BY <1>3, <1>5 DEF IInv, RequestStamp
<1>7. t4' = [seq |-> m.seq, from |-> m.peer] /\ t4' # Cleared
  BY <1>1, DelayAssumption DEF Cleared
<1>8. AnswerStamps'
  BY <1>2, <1>3, <1>4, <1>7 DEF AnswerStamps
<1>9. Network'
  BY <1>1, <1>3 DEF IInv, Network
<1>10. pathMean' = {}
  BY <1>3 DEF IInv, OneMechanism, NothingMeasured
<1>11. Filtered'
  BY DEF IInv, Filtered, port, P2P
<1>12. ASSUME NEW d \in peerMean'
       PROVE  /\ d = [t1 |-> t1, t2 |-> t4', t3 |-> t4', t4 |-> t4', for |-> m.for]
              /\ upset' = upset \ {"overtaken"}
  BY DEF NothingMeasured
<1>13. Sound'
  <2>1. StampOfTheRequest'
    BY <1>4, <1>5, <1>7, <1>10, <1>12 DEF StampOfTheRequest
  <2>2. MixedAnswersNeedOvertaking' /\ MixedPeersNeedSecond'
    BY <1>12 DEF MixedAnswersNeedOvertaking, MixedPeersNeedSecond
  <2>3. UnsentRequestNotMeasured'
    BY <1>2, <1>10, <1>12 DEF UnsentRequestNotMeasured, UnsentRequest, Unkept
  <2>4. PathDelayOfOneMaster'
    BY <1>10 DEF PathDelayOfOneMaster
  <2> QED
    BY <2>1, <2>2, <2>3, <2>4 DEF Sound
<1> QED
  BY <1>6, <1>8, <1>9, <1>10, <1>11, <1>13 DEF IInv, OneMechanism

\* A follow-up, whosever it is.
LEMMA FollowUpInv ==
    ASSUME IInv, TypeOK', NEW m \in net \cup ForeignAnswers, HandlePDelayRespFollowUp(m)
    PROVE  IInv' /\ Sound'
<1> USE DEF HandlePDelayRespFollowUp
<1>1. m \in Messages /\ net' \subseteq net /\ m.seq \in Seqs /\ m.peer \in Peers
      /\ m.for \in {Self, Other}
  BY TakenTypes, MessageFields DEF IInv
<1>2. m.for = Self => ~UnsentRequest /\ m.peer \in responded
  BY AnswerUnderWay
<1>3. P2P /\ P2P' /\ (\A seq : IsCurrent(seq)' = IsCurrent(seq)) /\ (UnsentRequest' <=> UnsentRequest)
      /\ (Unkept' <=> Unkept)
  BY DEF P2P, IsCurrent, UnsentRequest, Unkept
<1>4. /\ m.seq = sent - 1
      /\ t1 # m.seq => t1 = None /\ upset \cap {"reset", "unkept"} # {}
  BY <1>1, <1>3, CurrentRequest
<1>5. /\ t2 = t4 /\ t4 # Cleared
      /\ "overtaken" \notin upset =>
             t4.seq = m.seq /\ t4.from \in responded /\ ~UnsentRequest
  BY <1>4 DEF IInv, AnswerStamps
<1>6. RequestStamp'
  BY <1>3 DEF IInv, RequestStamp
<1>7. Network'
  BY <1>1, <1>3 DEF IInv, Network
<1>8. pathMean' = {}
  BY <1>3 DEF IInv, OneMechanism
<1>9. [seq |-> m.seq, from |-> m.peer] # Cleared
  BY <1>1, DelayAssumption DEF Cleared
<1>10. ASSUME NEW d \in peerMean'
       PROVE  /\ d.t1 = t1 /\ d.t2 = t2 /\ d.t4 = t4 /\ d.for = m.for
              /\ d.t3 = [seq |-> m.seq, from |-> m.peer]
  OBVIOUS
<1>11. Sound'
  <2>1. StampOfTheRequest'
    BY <1>4, <1>5, <1>8, <1>9, <1>10 DEF StampOfTheRequest
  <2>2. MixedAnswersNeedOvertaking'
    BY <1>5, <1>10 DEF MixedAnswersNeedOvertaking
  <2>3. MixedPeersNeedSecond'
    BY <1>1, <1>2, <1>5, <1>10 DEF MixedPeersNeedSecond
  <2>4. UnsentRequestNotMeasured'
    BY <1>1, <1>2, <1>5, <1>8, <1>10 DEF UnsentRequestNotMeasured, UnsentRequest, Unkept
  <2>5. PathDelayOfOneMaster'
    BY <1>8 DEF PathDelayOfOneMaster
  <2> QED
    BY <2>1, <2>2, <2>3, <2>4, <2>5 DEF Sound
<1> QED
  BY <1>6, <1>7, <1>8, <1>11 DEF IInv, AnswerStamps, Filtered, OneMechanism, port

\* The answer to a delay request.
LEMMA DelayRespInv ==
    ASSUME IInv, TypeOK', NEW m \in net \cup ForeignAnswers, HandleDelayResp(m)
    PROVE  IInv' /\ Sound'
<1> USE DEF HandleDelayResp
<1>1. m \in Messages /\ net' \subseteq net /\ m.seq \in Seqs /\ m.peer \in Peers
  BY TakenTypes, MessageFields DEF IInv
<1>2. ~UnsentRequest
  BY AnswerUnderWay
<1>3. ~P2P /\ ~P2P' /\ (\A seq : IsCurrent(seq)' = IsCurrent(seq)) /\ (UnsentRequest' <=> UnsentRequest)
      /\ (Unkept' <=> Unkept)
  BY DEF P2P, IsCurrent, UnsentRequest, Unkept
<1>4. ~Unkept => t1 = m.seq
  BY <1>1, <1>3, CurrentRequest
<1>5. tms.from \in Peers /\ (tms.from # parent => "reparented" \in upset)
  BY DEF IInv, Filtered
<1>6. IInv'
  BY <1>1, <1>3 DEF IInv, RequestStamp, AnswerStamps, Network, Filtered, OneMechanism, port
<1>7. ASSUME NEW d \in pathMean'
      PROVE  d.t1 = t1 /\ d.seq = m.seq /\ d.tms = tms.from /\ d.from = parent
  OBVIOUS
<1>8. PathDelayOfOneMaster'
  BY <1>5, <1>7 DEF PathDelayOfOneMaster
<1>9. UnsentRequestNotMeasured'
  BY <1>2, <1>4, <1>7 DEF UnsentRequestNotMeasured, UnsentRequest, Unkept
<1>10. StampOfTheRequest'
  BY <1>4, <1>7 DEF StampOfTheRequest, Unkept
<1> QED
  BY <1>6, <1>8, <1>9, <1>10
     DEF Sound, MixedAnswersNeedOvertaking, MixedPeersNeedSecond

\* Steps that measure nothing leave nothing to be wrong.
LEMMA NothingSound == NothingMeasured => Sound'
  BY DEF NothingMeasured, Sound, StampOfTheRequest, MixedAnswersNeedOvertaking,
         MixedPeersNeedSecond, UnsentRequestNotMeasured, PathDelayOfOneMaster

LEMMA StepInv == IInv /\ Sound /\ [Next]_vars => IInv' /\ Sound'
<1> SUFFICES ASSUME IInv, Sound, [Next]_vars PROVE IInv' /\ Sound'
  OBVIOUS
<1>0. TypeOK'
  BY StepTypes DEF IInv
<1>1. ASSUME NEW s \in States, MoveTo(s) PROVE IInv' /\ Sound'
  <2>1. NothingMeasured /\ InitClock
    BY <1>1 DEF MoveTo
  <2>2. IInv'
    BY <1>0, <1>1, <2>1, ResetInv DEF MoveTo, P2P
  <2> QED
    BY <2>1, <2>2, NothingSound
<1>2. CASE StepClock
  <2>1. NothingMeasured /\ InitClock
    BY <1>2 DEF StepClock
  <2>2. IInv'
    BY <1>0, <1>2, <2>1, ResetInv DEF StepClock, P2P
  <2> QED
    BY <2>1, <2>2, NothingSound
<1>3. CASE TrackSync
  <2>1. NothingMeasured
    BY <1>3 DEF TrackSync
  <2>2. Filtered'
    <3>1. P2P => tms' = tms /\ parent' = parent /\ UNCHANGED delayMechanism
      BY <1>3 DEF TrackSync, P2P
    <3>2. ~P2P => tms'.from = parent /\ parent' = parent /\ parent \in Peers
      BY <1>3 DEF TrackSync, P2P, IInv, TypeOK
    <3>3. P2P => tms = Cleared
      BY DEF IInv, Filtered
    <3> QED
      BY <1>3, <3>1, <3>2, <3>3 DEF Filtered, TrackSync, P2P
  <2>3. Befell' = Befell
    BY <1>3 DEF TrackSync, Befell
  <2>4. IInv'
    BY <1>0, <1>3, <2>1, <2>2, <2>3, AsideInv DEF TrackSync
  <2> QED
    BY <2>1, <2>4, NothingSound
<1>4. CASE ChangeParent
  <2>1. NothingMeasured
    BY <1>4 DEF ChangeParent
  <2>2. Filtered'
    BY <1>4 DEF ChangeParent, IInv, Filtered, P2P
  <2>3. Befell' = Befell
    BY <1>4 DEF ChangeParent, Befell
  <2>4. IInv'
    BY <1>0, <1>4, <2>1, <2>2, <2>3, AsideInv DEF ChangeParent
  <2> QED
    BY <2>1, <2>4, NothingSound
<1>5. ASSUME NEW outcome \in SendOutcomes, SendRequest(outcome) PROVE IInv' /\ Sound'
  <2>1. NothingMeasured
    BY <1>5 DEF SendRequest
  <2> QED
    BY <1>0, <1>5, <2>1, SendInv, NothingSound
<1>6. ASSUME NEW m \in net, Respond(m) PROVE IInv' /\ Sound'
  <2>1. NothingMeasured
    BY <1>6 DEF Respond
  <2> QED
    BY <1>0, <1>6, <2>1, RespondInv, NothingSound
<1>7. ASSUME NEW m \in net \cup ForeignAnswers, Receive(m) PROVE IInv' /\ Sound'
  BY <1>0, <1>7, ResponseInv, FollowUpInv, DelayRespInv DEF Receive
<1>8. CASE UNCHANGED vars
  <2>1. IInv'
    BY <1>0, <1>8 DEF vars, port, measures, IInv, RequestStamp, AnswerStamps, Network,
                      Filtered, OneMechanism, P2P, IsCurrent, UnsentRequest, Unkept
  <2>2. Sound'
    BY <1>8 DEF vars, port, measures, Sound, StampOfTheRequest,
                MixedAnswersNeedOvertaking, MixedPeersNeedSecond,
                UnsentRequestNotMeasured, PathDelayOfOneMaster
  <2> QED
    BY <2>1, <2>2
<1> QED
  BY <1>1, <1>2, <1>3, <1>4, <1>5, <1>6, <1>7, <1>8 DEF Next

LEMMA InitSound == Init => Sound
  BY DEF Init, Sound, StampOfTheRequest, MixedAnswersNeedOvertaking,
         MixedPeersNeedSecond, UnsentRequestNotMeasured, PathDelayOfOneMaster

LEMMA AlwaysSound == Spec => []Sound
  BY InitInv, InitSound, StepInv, PTL DEF Spec

-----------------------------------------------------------------------------
(* The theorems *)

\* A delay is measured with the stamp of the request answered; otherwise, in P2P
\* with the cleared one, if initClock cleared it or second 0 lost it, and in E2E
\* with an older one, if second 0 lost it.
THEOREM RequestStampCorrect == Spec => []StampOfTheRequest
<1>1. Sound => StampOfTheRequest
  BY DEF Sound
<1> QED
  BY <1>1, AlwaysSound, PTL

\* t2 and t4 are of one answer, and of another exchange than t3 only if the
\* request overtook the follow-up awaited.
THEOREM MixedAnswersCorrect == Spec => []MixedAnswersNeedOvertaking
<1>1. Sound => MixedAnswersNeedOvertaking
  BY DEF Sound
<1> QED
  BY <1>1, AlwaysSound, PTL

\* t3 is of another peer only if two responded, a request overtook an answer,
\* or the follow-up was another clock's.
THEOREM MixedPeersCorrect == Spec => []MixedPeersNeedSecond
<1>1. Sound => MixedPeersNeedSecond
  BY DEF Sound
<1> QED
  BY <1>1, AlwaysSound, PTL

\* While a request that never left is the current one, nothing is measured but
\* an overtaken answer that another clock's follow-up completes.
THEOREM UnsentRequestCorrect == Spec => []UnsentRequestNotMeasured
<1>1. Sound => UnsentRequestNotMeasured
  BY DEF Sound
<1> QED
  BY <1>1, AlwaysSound, PTL

\* meanPathDelay is computed of one master's times, but between a change of
\* parent and its first Sync.
THEOREM PathDelayCorrect == Spec => []PathDelayOfOneMaster
<1>1. Sound => PathDelayOfOneMaster
  BY DEF Sound
<1> QED
  BY <1>1, AlwaysSound, PTL
=============================================================================
