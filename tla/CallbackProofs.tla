--------------------------- MODULE CallbackProofs ---------------------------
(***************************************************************************)
(* Proofs about CallbackWait, for any calls and callback requests: types,  *)
(* the inductive invariant CallbackInv, and from it that a notifier never  *)
(* blocks, that nothing is left in the map, that an answer reaches its own *)
(* call only and unaltered, and what the wiring of the callback handler    *)
(* decides: which answers are dropped, and which calls get none.           *)
(* Then about IsoExchange: its behaviours are behaviours of CallbackWait,  *)
(* which gives it the same properties, and two of its own.                 *)
(***************************************************************************)
EXTENDS IsoExchange, TLAPS

\* Every action keeps the types.
THEOREM TypeCorrect == Spec => []TypeOK
<1>1. Init => TypeOK
  BY DEF Init, TypeOK
<1>2. TypeOK /\ [Next]_vars => TypeOK'
  <2> SUFFICES ASSUME TypeOK, [Next]_vars PROVE TypeOK'
    OBVIOUS
  <2> USE DEF TypeOK, caller, handler
  <2>1. ASSUME NEW c \in Calls, Register(c) PROVE TypeOK'
    BY <2>1 DEF Register
  <2>2. ASSUME NEW c \in Calls, NibssDecides(c) PROVE TypeOK'
    BY <2>2 DEF NibssDecides
  <2>3. ASSUME NEW c \in Calls, Sent(c) PROVE TypeOK'
    BY <2>3 DEF Sent
  <2>4. ASSUME NEW c \in Calls, SendFails(c) PROVE TypeOK'
    BY <2>4 DEF SendFails, Return
  <2>5. ASSUME NEW c \in Calls, TakeAnswer(c) PROVE TypeOK'
    <3>1. Head(chan[c]) \in Answers /\ Tail(chan[c]) \in Seq(Answers)
      BY <2>5 DEF TakeAnswer
    <3> QED BY <2>5, <3>1 DEF TakeAnswer, Return, Returned, Answers, Results
  <2>6. ASSUME NEW c \in Calls, TimesOut(c) PROVE TypeOK'
    BY <2>6 DEF TimesOut, Return
  <2>7. ASSUME NEW h \in Handlers, NEW c \in Calls, Deliver(h, c) PROVE TypeOK'
    BY <2>7 DEF Deliver, AnswerType, Types
  <2>8. ASSUME NEW h \in Handlers, LoadAndDelete(h) PROVE TypeOK'
    BY <2>8 DEF LoadAndDelete
  <2>9. ASSUME NEW h \in Handlers, DropAnswer(h) PROVE TypeOK'
    BY <2>9 DEF DropAnswer
  <2>10. ASSUME NEW h \in Handlers, SendToCaller(h) PROVE TypeOK'
    <3>1. Outcome(h) \in Answers
      BY DEF Outcome, Refusal, Answers
    <3>2. \A c \in Calls : Append(chan[c], Outcome(h)) \in Seq(Answers)
      BY <3>1
    <3> QED BY <2>10, <3>2 DEF SendToCaller
  <2>11. CASE UNCHANGED vars
    BY <2>11 DEF vars
  <2> QED
    BY <2>1, <2>2, <2>3, <2>4, <2>5, <2>6, <2>7, <2>8, <2>9, <2>10, <2>11
       DEF Next, CallerStep, HandlerStep
<1> QED BY <1>1, <1>2, PTL DEF Spec

-----------------------------------------------------------------------------
(* The inductive invariant: one lemma per action, then the theorem          *)

\* A call that stores its channel finds no handler with it: it has had no
\* answer, for NIBSS has nothing of it.
LEMMA RegisterKeeps ==
  ASSUME NEW c \in Calls, CallbackInv, TypeOK', Register(c)
  PROVE  CallbackInv'
<1> USE DEF Register, caller, handler, TypeOK, None
<1>1. (\A d \in pending : Unanswered(d))'
  BY NoneAssumption DEF CallbackInv, Unanswered, SendersApart, AnswersDecided, AnswerType,
     ChannelsOwn, Tells, WaitersFound, Answered, OwnVerdict
<1>2. SendersApart'
  BY DEF CallbackInv, SendersApart, AnswersDecided
<1>3. AnswersDecided'
  BY DEF CallbackInv, AnswersDecided, AnswerType
<1>4. ChannelsOwn'
  BY DEF CallbackInv, ChannelsOwn
<1>5. WaitersFound'
  BY DEF CallbackInv, WaitersFound, Answered
<1>6. OwnVerdict'
  BY DEF CallbackInv, OwnVerdict
<1>7. FoundOnlyIfWired'
  BY DEF CallbackInv, FoundOnlyIfWired, AnsweredOnlyIfWired, Wired, AnswerType
<1> QED BY <1>1, <1>2, <1>3, <1>4, <1>5, <1>6, <1>7 DEF CallbackInv

\* NIBSS decides on a message once, before any answer about it exists.
LEMMA NibssDecidesKeeps ==
  ASSUME NEW c \in Calls, CallbackInv, TypeOK', NibssDecides(c)
  PROVE  CallbackInv'
<1> USE DEF NibssDecides, caller, handler, TypeOK, None
<1>1. (\A d \in pending : Unanswered(d))'
  BY DEF CallbackInv, Unanswered
<1>2. SendersApart'
  BY DEF CallbackInv, SendersApart
<1>3. AnswersDecided'
  BY DEF CallbackInv, AnswersDecided, AnswerType
<1>4. ChannelsOwn'
  BY DEF CallbackInv, ChannelsOwn, Tells, Results
<1>5. WaitersFound'
  BY DEF CallbackInv, WaitersFound, Answered
<1>6. OwnVerdict'
  BY DEF CallbackInv, OwnVerdict, Results
<1>7. FoundOnlyIfWired'
  BY DEF CallbackInv, FoundOnlyIfWired, AnsweredOnlyIfWired, Wired, AnswerType, OwnVerdict,
     AnswersDecided, Results
<1> QED BY <1>1, <1>2, <1>3, <1>4, <1>5, <1>6, <1>7 DEF CallbackInv

\* A call that goes on to wait stays in the map, or answered.
LEMMA SentKeeps ==
  ASSUME NEW c \in Calls, CallbackInv, TypeOK', Sent(c)
  PROVE  CallbackInv'
<1> USE DEF Sent, caller, handler, TypeOK, None
<1>1. (\A d \in pending : Unanswered(d))'
  BY DEF CallbackInv, Unanswered
<1>2. SendersApart'
  BY DEF CallbackInv, SendersApart
<1>3. AnswersDecided'
  BY DEF CallbackInv, AnswersDecided, AnswerType
<1>4. ChannelsOwn'
  BY DEF CallbackInv, ChannelsOwn
<1>5. WaitersFound'
  BY DEF CallbackInv, WaitersFound, Answered
<1>6. OwnVerdict'
  BY DEF CallbackInv, OwnVerdict
<1>7. FoundOnlyIfWired'
  BY DEF CallbackInv, FoundOnlyIfWired, AnsweredOnlyIfWired, Wired, AnswerType
<1> QED BY <1>1, <1>2, <1>3, <1>4, <1>5, <1>6, <1>7 DEF CallbackInv

\* A call that gives up takes its channel out of the map.
LEMMA SendFailsKeeps ==
  ASSUME NEW c \in Calls, CallbackInv, TypeOK', SendFails(c)
  PROVE  CallbackInv'
<1> USE DEF SendFails, Return, caller, handler, TypeOK, None
<1>1. (\A d \in pending : Unanswered(d))'
  BY DEF CallbackInv, Unanswered
<1>2. SendersApart'
  BY DEF CallbackInv, SendersApart
<1>3. AnswersDecided'
  BY DEF CallbackInv, AnswersDecided, AnswerType
<1>4. ChannelsOwn'
  BY DEF CallbackInv, ChannelsOwn
<1>5. WaitersFound'
  BY DEF CallbackInv, WaitersFound, Answered
<1>6. OwnVerdict'
  BY DEF CallbackInv, OwnVerdict, Results
<1>7. FoundOnlyIfWired'
  BY DEF CallbackInv, FoundOnlyIfWired, AnsweredOnlyIfWired, Wired, AnswerType, Results
<1> QED BY <1>1, <1>2, <1>3, <1>4, <1>5, <1>6, <1>7 DEF CallbackInv

\* The answer taken from a channel is the one of its call.
LEMMA TakeAnswerKeeps ==
  ASSUME NEW c \in Calls, CallbackInv, TypeOK', TakeAnswer(c)
  PROVE  CallbackInv'
<1> USE DEF TakeAnswer, Return, caller, handler, TypeOK, None
<1>1. (\A d \in pending : Unanswered(d))'
  BY DEF CallbackInv, Unanswered
<1>2. SendersApart'
  BY DEF CallbackInv, SendersApart
<1>3. AnswersDecided'
  BY DEF CallbackInv, AnswersDecided, AnswerType
<1>4. ChannelsOwn'
  BY DEF CallbackInv, ChannelsOwn
<1>5. WaitersFound'
  BY DEF CallbackInv, WaitersFound, Answered
<1>6. OwnVerdict'
  BY DEF CallbackInv, ChannelsOwn, Tells, OwnVerdict, Returned, Answers, Results
<1>7. FoundOnlyIfWired'
  BY DEF CallbackInv, FoundOnlyIfWired, AnsweredOnlyIfWired, Wired, AnswerType
<1> QED BY <1>1, <1>2, <1>3, <1>4, <1>5, <1>6, <1>7 DEF CallbackInv

\* A call whose timer runs out leaves an answer on its way to no one.
LEMMA TimesOutKeeps ==
  ASSUME NEW c \in Calls, CallbackInv, TypeOK', TimesOut(c)
  PROVE  CallbackInv'
<1> USE DEF TimesOut, Return, caller, handler, TypeOK, None
<1>1. (\A d \in pending : Unanswered(d))'
  BY DEF CallbackInv, Unanswered
<1>2. SendersApart'
  BY DEF CallbackInv, SendersApart
<1>3. AnswersDecided'
  BY DEF CallbackInv, AnswersDecided, AnswerType
<1>4. ChannelsOwn'
  BY DEF CallbackInv, ChannelsOwn
<1>5. WaitersFound'
  BY DEF CallbackInv, WaitersFound, Answered
<1>6. OwnVerdict'
  BY DEF CallbackInv, OwnVerdict, Results
<1>7. FoundOnlyIfWired'
  BY DEF CallbackInv, FoundOnlyIfWired, AnsweredOnlyIfWired, Wired, AnswerType, Results
<1> QED BY <1>1, <1>2, <1>3, <1>4, <1>5, <1>6, <1>7 DEF CallbackInv

\* An answer that arrives is about a decided message.
LEMMA DeliverKeeps ==
  ASSUME NEW h \in Handlers, NEW c \in Calls, CallbackInv, TypeOK', Deliver(h, c)
  PROVE  CallbackInv'
<1> USE DEF Deliver, caller, handler, TypeOK, None
<1>1. (\A d \in pending : Unanswered(d))'
  BY DEF CallbackInv, Unanswered
<1>2. SendersApart'
  BY DEF CallbackInv, SendersApart
<1>3. AnswersDecided'
  BY DEF CallbackInv, AnswersDecided, AnswerType
<1>4. ChannelsOwn'
  BY DEF CallbackInv, ChannelsOwn
<1>5. WaitersFound'
  BY DEF CallbackInv, WaitersFound, Answered
<1>6. OwnVerdict'
  BY DEF CallbackInv, OwnVerdict
<1>7. FoundOnlyIfWired'
  BY DEF CallbackInv, FoundOnlyIfWired, AnsweredOnlyIfWired, Wired, AnswerType
<1> QED BY <1>1, <1>2, <1>3, <1>4, <1>5, <1>6, <1>7 DEF CallbackInv

\* The request that takes a channel out of the map is the only one with it.
LEMMA LoadAndDeleteKeeps ==
  ASSUME NEW h \in Handlers, CallbackInv, TypeOK', LoadAndDelete(h)
  PROVE  CallbackInv'
<1> USE DEF LoadAndDelete, caller, handler, TypeOK, None
<1>1. (\A d \in pending : Unanswered(d))'
  BY DEF CallbackInv, Unanswered
<1>2. SendersApart'
  <2>1. answer[h].call \in pending /\ answer[h].call \in Calls
    BY DEF Found, CallbackInv, AnswersDecided
  <2>2. chan[answer[h].call] = << >>
    BY <2>1 DEF CallbackInv, Unanswered
  <2>3. \A g \in Handlers \ {h} : hpc[g] = "send" => reached[g] # answer[h].call
    BY <2>1 DEF CallbackInv, SendersApart
  <2> QED BY <2>1, <2>2, <2>3 DEF CallbackInv, SendersApart
<1>3. AnswersDecided'
  BY DEF CallbackInv, AnswersDecided, AnswerType
<1>4. ChannelsOwn'
  BY DEF CallbackInv, ChannelsOwn
<1>5. WaitersFound'
  BY DEF CallbackInv, WaitersFound, Answered
<1>6. OwnVerdict'
  BY DEF CallbackInv, OwnVerdict
<1>7. FoundOnlyIfWired'
  BY DEF CallbackInv, FoundOnlyIfWired, AnsweredOnlyIfWired, Wired, AnswerType, Found
<1> QED BY <1>1, <1>2, <1>3, <1>4, <1>5, <1>6, <1>7 DEF CallbackInv

\* A dropped answer changes nothing of the calls.
LEMMA DropAnswerKeeps ==
  ASSUME NEW h \in Handlers, CallbackInv, TypeOK', DropAnswer(h)
  PROVE  CallbackInv'
<1> USE DEF DropAnswer, caller, handler, TypeOK, None
<1>1. (\A d \in pending : Unanswered(d))'
  BY DEF CallbackInv, Unanswered
<1>2. SendersApart'
  BY DEF CallbackInv, SendersApart
<1>3. AnswersDecided'
  BY DEF CallbackInv, AnswersDecided, AnswerType
<1>4. ChannelsOwn'
  BY DEF CallbackInv, ChannelsOwn
<1>5. WaitersFound'
  BY DEF CallbackInv, WaitersFound, Answered
<1>6. OwnVerdict'
  BY DEF CallbackInv, OwnVerdict
<1>7. FoundOnlyIfWired'
  BY DEF CallbackInv, FoundOnlyIfWired, AnsweredOnlyIfWired, Wired, AnswerType
<1> QED BY <1>1, <1>2, <1>3, <1>4, <1>5, <1>6, <1>7 DEF CallbackInv

\* The answer put in a channel is the only one there.
LEMMA SendToCallerKeeps ==
  ASSUME NEW h \in Handlers, CallbackInv, TypeOK', SendToCaller(h)
  PROVE  CallbackInv'
<1> USE DEF SendToCaller, caller, handler, TypeOK, None
<1>1. (\A d \in pending : Unanswered(d))'
  BY DEF CallbackInv, Unanswered, SendersApart
<1>2. SendersApart'
  BY DEF CallbackInv, SendersApart
<1>3. AnswersDecided'
  BY DEF CallbackInv, AnswersDecided, AnswerType
<1>4. ChannelsOwn'
  <2>1. reached[h] \in Calls /\ reached[h] = answer[h].call /\ chan[reached[h]] = << >> /\ pc[reached[h]] # "idle"
    BY DEF CallbackInv, SendersApart, AnswersDecided
  <2>2. Outcome(h) \in Answers /\ Tells(verdict[reached[h]], Outcome(h))
    BY <2>1 DEF Outcome, Refusal, Answers, Results, CallbackInv, AnswersDecided, AnswerType, Tells, Verdicts
  <2>3. chan'[reached[h]] = <<Outcome(h)>>
    BY <2>1, <2>2
  <2>4. \A d \in Calls : d # reached[h] => chan'[d] = chan[d]
    OBVIOUS
  <2>5. verdict' = verdict /\ pc' = pc
    OBVIOUS
  <2>6. Len(<<Outcome(h)>>) = 1 /\ Head(<<Outcome(h)>>) = Outcome(h) /\ <<Outcome(h)>> # << >>
    BY <2>2
  <2>7. SUFFICES ASSUME NEW d \in Calls
                 PROVE  /\ pc'[d] = "idle" => chan'[d] = << >>
                        /\ chan'[d] # << >> => Len(chan'[d]) = 1 /\ Tells(verdict[d], Head(chan'[d]))
    BY <2>5 DEF ChannelsOwn
  <2>8. CASE d = reached[h]
    BY <2>1, <2>2, <2>3, <2>5, <2>6, <2>8
  <2>9. CASE d # reached[h]
    BY <2>4, <2>5, <2>9 DEF CallbackInv, ChannelsOwn
  <2> QED BY <2>8, <2>9
<1>5. WaitersFound'
  BY DEF CallbackInv, WaitersFound, Answered
<1>6. OwnVerdict'
  BY DEF CallbackInv, OwnVerdict
<1>7. FoundOnlyIfWired'
  BY DEF CallbackInv, FoundOnlyIfWired, AnsweredOnlyIfWired, Wired, AnswerType, SendersApart,
     AnswersDecided
<1> QED BY <1>1, <1>2, <1>3, <1>4, <1>5, <1>6, <1>7 DEF CallbackInv

\* Nothing a caller, a callback request or NIBSS does breaks CallbackInv.
THEOREM InductiveInvariant == Spec => []CallbackInv
<1>1. Init => CallbackInv
  BY DEF Init, CallbackInv, TypeOK, SendersApart, AnswersDecided, ChannelsOwn, WaitersFound,
     OwnVerdict, FoundOnlyIfWired, AnsweredOnlyIfWired, Results, None
<1>2. CallbackInv /\ TypeOK' /\ [Next]_vars => CallbackInv'
  <2> SUFFICES ASSUME CallbackInv, TypeOK', [Next]_vars PROVE CallbackInv'
    OBVIOUS
  <2>1. CASE Next
    BY <2>1, RegisterKeeps, NibssDecidesKeeps, SentKeeps, SendFailsKeeps, TakeAnswerKeeps,
       TimesOutKeeps, DeliverKeeps, LoadAndDeleteKeeps, DropAnswerKeeps, SendToCallerKeeps
       DEF Next, CallerStep, HandlerStep
  <2>2. CASE UNCHANGED vars
    BY <2>2 DEF vars, CallbackInv, Unanswered, SendersApart, AnswersDecided, AnswerType,
       ChannelsOwn, WaitersFound, Answered, OwnVerdict, FoundOnlyIfWired, AnsweredOnlyIfWired,
       Wired
  <2> QED BY <2>1, <2>2
<1> QED BY <1>1, <1>2, TypeCorrect, PTL DEF Spec

\* A callback request that has taken a channel finds it empty: the handler of
\* NIBSS's callback is never blocked by the service it notifies.
THEOREM NeverBlocked == Spec => []NotifierNeverBlocks
<1>1. CallbackInv => NotifierNeverBlocks
  BY DEF CallbackInv, SendersApart, NotifierNeverBlocks
<1> QED BY <1>1, InductiveInvariant, PTL

\* The map holds the channels of calls under way and no others.
THEOREM NothingLeft == Spec => []NoLeak
<1>1. CallbackInv => NoLeak
  BY DEF CallbackInv, Unanswered, NoLeak
<1> QED BY <1>1, InductiveInvariant, PTL

\* What a call returns is NIBSS's own verdict on it, a status that is not a
\* rejection unaltered.
THEOREM OwnAnswer == Spec => []OwnVerdict
<1>1. CallbackInv => OwnVerdict
  BY DEF CallbackInv
<1> QED BY <1>1, InductiveInvariant, PTL

\* However the server is wired: an answer is dropped only if nobody waits for
\* it any more, or if the wiring keeps it from the call.
THEOREM DroppedOnlyUnwired == Spec => DropsExplained
<1>1. CallbackInv /\ [Next]_vars =>
        [\A h \in Handlers :
           hpc[h] = "lookup" /\ hpc'[h] = "done" =>
             LET c == answer[h].call IN Over(c) \/ Answered(c) \/ ~Wired(c)]_vars
  <2> SUFFICES ASSUME CallbackInv, Next, NEW h \in Handlers, hpc[h] = "lookup", hpc'[h] = "done",
                      Wired(answer[h].call)
               PROVE  Over(answer[h].call) \/ Answered(answer[h].call)
    OBVIOUS
  <2>1. ~Found(h)
    BY DEF Next, CallerStep, HandlerStep, Register, NibssDecides, Sent, SendFails,
       TakeAnswer, TimesOut, Return, Deliver, LoadAndDelete, DropAnswer, SendToCaller,
       caller, handler, CallbackInv, TypeOK
  <2>2. answer[h].call \in Calls /\ pc[answer[h].call] # "idle" /\ answer[h].call \notin pending
    BY <2>1 DEF Found, CallbackInv, AnswersDecided
  <2> QED BY <2>2 DEF Over, CallbackInv, TypeOK, WaitersFound
<1> QED BY <1>1, InductiveInvariant, PTL DEF Spec, DropsExplained

\* And a call the wiring keeps the answers from returns none: as main.go wires
\* the handler (SameInstance is FALSE), every call ends by its timer or unsent.
THEOREM UnwiredUnanswered == Spec => []AnsweredOnlyIfWired
<1>1. CallbackInv => AnsweredOnlyIfWired
  BY DEF CallbackInv, FoundOnlyIfWired
<1> QED BY <1>1, InductiveInvariant, PTL

-----------------------------------------------------------------------------
(* The exchange around the wait                                            *)

\* Types, whole bodies and the format, which hold together.
IsoInv == IsoTypeOK /\ BodiesWhole /\ FormatRestored

\* A conversion under way is what lets the format be another one.
LEMMA ConversionKeeps ==
  ASSUME NEW c \in Calls, IsoInv, SetFormat(c) \/ Marshal(c) \/ Restore(c) \/ Unconverted(c)
  PROVE  IsoInv'
<1> USE DEF IsoInv, To
<1>1. IsoTypeOK'
  BY DEF IsoTypeOK, SetFormat, Marshal, Restore, Unconverted, Seen
<1>2. BodiesWhole'
  BY DEF BodiesWhole, SetFormat, Marshal, Restore, Unconverted
<1>3. CASE SetFormat(c) \/ Marshal(c)
  <2>1. Converting(c)'
    BY <1>3 DEF SetFormat, Marshal, Converting, IsoTypeOK
  <2> QED BY <1>1, <1>2, <2>1 DEF FormatRestored
<1>4. CASE Restore(c) \/ Unconverted(c)
  BY <1>1, <1>2, <1>4 DEF Restore, Unconverted, FormatRestored
<1> QED BY <1>3, <1>4

\* Counting a request, or its end, keeps the breaker's type.
LEMMA Counted ==
  ASSUME NEW b \in Breakers, NEW c \in Calls, NEW ok \in BOOLEAN
  PROVE  /\ [b EXCEPT !.requests = @ + 1, !.open = @ \cup {c}] \in Breakers
         /\ [b EXCEPT !.open = @ \ {c}, !.failures = @ + IF ok THEN 0 ELSE 1] \in Breakers
<1>1. b.requests + 1 \in Nat /\ b.failures + (IF ok THEN 0 ELSE 1) \in Nat
  BY DEF Breakers
<1> QED BY <1>1 DEF Breakers

\* From the breaker on, a call leaves format and bodies alone.
LEMMA PostKeeps ==
  ASSUME NEW c \in Calls, IsoInv,
         Begin(c) \/ Execute(c) \/ Refuse(c) \/ Accepted(c) \/ PostFails(c) \/ Wait(c) \/ Decide(c)
  PROVE  IsoInv'
<1> USE DEF IsoInv
<1>1. UNCHANGED <<config, format, stamp, hstage, body>>
  BY DEF Begin, Execute, Refuse, Accepted, PostFails, Wait, Decide, iso
<1>2. stage' = stage \/ \E s \in {"flight", "over", "refused"} : To(c, s) /\ ~Converting(c)
  BY DEF Begin, Execute, Refuse, Accepted, PostFails, Wait, Decide, iso, Converting
<1>3. breaker' \in Breakers
  <2>1. breaker \in Breakers
    BY DEF IsoTypeOK
  <2>2. CASE Execute(c)
    BY <2>1, <2>2, Counted DEF Execute
  <2>3. ASSUME NEW ok \in BOOLEAN, Report(c, ok)
        PROVE  breaker' \in Breakers
    BY <2>1, <2>3, Counted DEF Report, Generation, Breakers
  <2> QED BY <2>1, <2>2, <2>3 DEF Begin, Refuse, Accepted, PostFails, Wait, Decide, iso
<1>4. IsoTypeOK'
  BY <1>1, <1>2, <1>3 DEF IsoTypeOK, To
<1>5. FormatRestored'
  BY <1>1, <1>2 DEF FormatRestored, Converting, To, IsoTypeOK
<1>6. BodiesWhole'
  BY <1>1 DEF BodiesWhole
<1> QED BY <1>4, <1>5, <1>6

\* A request's body is whole until it is taken.
LEMMA RequestKeeps ==
  ASSUME NEW h \in Handlers, IsoInv,
         \/ RequestStep(h) \/ ArriveInbound(h) \/ ConvertToISO20022(h)
         \/ ProcessSettlement(h) \/ \E c \in Calls : Arrive(h, c)
  PROVE  IsoInv'
<1> USE DEF IsoInv, Arrive, ArriveInbound, ReceiveInbound, ReceivePacs008, ReceivePacs028,
            ReceiveAcmt023, ProcessInbound
<1>1. UNCHANGED <<config, format, stage, stamp, breaker>>
  BY DEF RequestStep, VerifyHMAC, VerifyTLS, Unauthorized, Read, Confirm, Misread, Hand, Carries,
         ConvertToISO20022, ProcessSettlement, iso, wire
<1>2. IsoTypeOK' /\ BodiesWhole'
  <2>1. ASSUME NEW m \in Calls \cup {Inbound}, Carries(h, m) PROVE IsoTypeOK' /\ BodiesWhole'
    BY <1>1, <2>1 DEF Carries, IsoTypeOK, BodiesWhole
  <2>2. CASE VerifyHMAC(h) \/ VerifyTLS(h) \/ Unauthorized(h)
    BY <1>1, <2>2 DEF VerifyHMAC, VerifyTLS, Unauthorized, IsoTypeOK, BodiesWhole
  <2>3. CASE Read(h) \/ ReceiveInbound(h) \/ Misread(h)
    BY <1>1, <2>3 DEF Read, Confirm, Misread, Taken, NoBody, IsoTypeOK, BodiesWhole
  <2>4. CASE Hand(h)
    BY <2>4 DEF Hand, iso, IsoTypeOK, BodiesWhole
  <2>5. CASE ConvertToISO20022(h) \/ ProcessSettlement(h)
    BY <1>1, <2>5 DEF ConvertToISO20022, ProcessSettlement, Seen, IsoTypeOK, BodiesWhole
  <2> QED BY <2>1, <2>2, <2>3, <2>4, <2>5 DEF RequestStep
<1>3. FormatRestored'
  BY <1>1 DEF FormatRestored, Converting
<1> QED BY <1>2, <1>3

\* Types of the exchange, whole bodies, and the format put back.
THEOREM ExchangeInvariant == IsoSpec => []IsoInv
<1>1. IsoInit => IsoInv
  BY ConfigsAssumption DEF IsoInit, IsoInv, IsoTypeOK, BodiesWhole, FormatRestored, Generation,
     Breakers, NoBody
<1>2. IsoInv /\ [IsoNext]_all => IsoInv'
  <2> SUFFICES ASSUME IsoInv, [IsoNext]_all PROVE IsoInv'
    OBVIOUS
  <2>1. CASE IntervalOver \/ CoolDown
    BY <2>1 DEF IntervalOver, CoolDown, wire, IsoInv, IsoTypeOK, Generation, Breakers,
       BodiesWhole, FormatRestored, Converting
  <2>2. CASE UNCHANGED all
    BY <2>2 DEF all, iso, IsoInv, IsoTypeOK, BodiesWhole, FormatRestored, Converting
  <2> QED BY <2>1, <2>2, ConversionKeeps, PostKeeps, RequestKeeps DEF IsoNext, CallStep
<1> QED BY <1>1, <1>2, PTL DEF IsoSpec

\* Whatever conversions overlap, the process's format is the default between
\* them.
THEOREM FormatIsRestored == IsoSpec => []FormatRestored
<1>1. IsoInv => FormatRestored
  BY DEF IsoInv
<1> QED BY <1>1, ExchangeInvariant, PTL

\* And a user's message shows another format only while one is under way.
THEOREM TimestampsOwn == IsoSpec => OwnTimestamps
<1>1. IsoInv /\ [IsoNext]_all =>
        [\A h \in Handlers : body'[h].form = "seconds" =>
           body[h].form = "seconds" \/ \E c \in Calls : Converting(c)]_all
  <2> SUFFICES ASSUME IsoInv, IsoNext, NEW h \in Handlers,
                      body'[h].form = "seconds", body[h].form # "seconds"
               PROVE  \E c \in Calls : Converting(c)
    OBVIOUS
  <2>1. ConvertToISO20022(h)
    <3> USE DEF IsoInv, IsoTypeOK, iso, wire, Arrive, ArriveInbound, ReceiveInbound,
                ReceivePacs008, ReceivePacs028, ReceiveAcmt023, ProcessInbound
    <3>1. \E g \in Handlers : \/ Read(g) \/ ReceiveInbound(g) \/ Misread(g)
                              \/ ArriveInbound(g) \/ ConvertToISO20022(g)
                              \/ \E c \in Calls : Arrive(g, c)
      BY DEF IsoNext, CallStep, RequestStep, Begin, SetFormat, Marshal, Restore, Unconverted,
         Execute, Refuse, Accepted, PostFails, Wait, Decide, VerifyHMAC, VerifyTLS,
         Unauthorized, Hand, IntervalOver, CoolDown, ProcessSettlement
    <3> QED BY <3>1 DEF Carries, Read, Confirm, Misread, Taken, NoBody, ConvertToISO20022, None
  <2>2. PICK f \in Seen(None) : f = "seconds"
    BY <2>1 DEF ConvertToISO20022, IsoInv, IsoTypeOK
  <2> QED BY <2>2 DEF Seen, IsoInv, FormatRestored
<1> QED BY <1>1, ExchangeInvariant, PTL DEF IsoSpec, OwnTimestamps

\* No envelope that the service's keys open is refused for what it holds.
THEOREM EnvelopesRead == IsoSpec => []EnvelopeRead
<1>1. IsoInit => EnvelopeRead
  BY DEF IsoInit, EnvelopeRead
<1>2. IsoInv /\ EnvelopeRead /\ [IsoNext]_all => EnvelopeRead'
  <2> SUFFICES ASSUME IsoInv, EnvelopeRead, [IsoNext]_all, config'.shared,
                      NEW h \in Handlers, hstage'[h] = "unopened"
               PROVE  FALSE
    BY DEF EnvelopeRead
  <2> USE DEF IsoInv, IsoTypeOK, iso, wire, Arrive, ArriveInbound, ReceiveInbound,
              ReceivePacs008, ReceivePacs028, ReceiveAcmt023, ProcessInbound
  <2>1. config' = config /\ hstage[h] # "unopened"
    <3>1. config' = config
      BY DEF IsoNext, CallStep, RequestStep, all, Begin, SetFormat, Marshal, Restore, Unconverted,
         Execute, Refuse, Accepted, PostFails, Wait, Decide, Carries, VerifyHMAC, VerifyTLS,
         Unauthorized, Read, Confirm, Misread, Hand, ConvertToISO20022, ProcessSettlement,
         IntervalOver, CoolDown
    <3> QED BY <3>1 DEF EnvelopeRead
  <2>2. \E g \in Handlers : \/ RequestStep(g) \/ ArriveInbound(g) \/ \E c \in Calls : Arrive(g, c)
                            \/ ConvertToISO20022(g) \/ ProcessSettlement(g)
    BY <2>1 DEF IsoNext, CallStep, all, Begin, SetFormat, Marshal, Restore, Unconverted, Execute, Refuse,
       Accepted, PostFails, Wait, Decide, IntervalOver, CoolDown
  <2>3. Misread(h) /\ body[h].form = "sealed"
    BY <2>1, <2>2 DEF RequestStep, Carries, VerifyHMAC, VerifyTLS, Unauthorized, Read, Confirm,
       Misread, Hand, ConvertToISO20022, ProcessSettlement
  <2>4. body[h].left = "whole"
    BY <2>3 DEF Misread, BodiesWhole
  <2> QED BY <2>1, <2>3, <2>4 DEF Misread, Decoded, Opened
<1> QED BY <1>1, <1>2, ExchangeInvariant, PTL DEF IsoSpec

\* Converting, posting, breaking, authenticating and decoding do to the wait
\* only what CallbackWait allows: each step of IsoExchange is one of its steps
\* or leaves its variables alone.
THEOREM ExchangeImplementsWait == IsoSpec => Spec
<1>1. IsoInit => Init
  BY DEF IsoInit
<1>2. IsoInv /\ [IsoNext]_all => [Next]_vars
  <2> SUFFICES ASSUME IsoInv, [IsoNext]_all PROVE [Next]_vars
    OBVIOUS
  <2>1. ASSUME NEW c \in Calls, Begin(c) PROVE [Next]_vars
    BY <2>1 DEF Begin, Next
  <2>2. ASSUME NEW c \in Calls, SetFormat(c) \/ Marshal(c) \/ Restore(c) \/ Execute(c)
        PROVE  [Next]_vars
    BY <2>2 DEF SetFormat, Marshal, Restore, Execute, vars
  <2>3. ASSUME NEW c \in Calls, Unconverted(c) \/ Refuse(c) \/ PostFails(c) PROVE [Next]_vars
    BY <2>3 DEF Unconverted, Refuse, PostFails, Next, CallerStep
  <2>4. ASSUME NEW c \in Calls, Accepted(c) PROVE [Next]_vars
    BY <2>4 DEF Accepted, Next, CallerStep
  <2>5. ASSUME NEW c \in Calls, Wait(c) PROVE [Next]_vars
    BY <2>5 DEF Wait, Next, CallerStep
  <2>6. ASSUME NEW c \in Calls, Decide(c) PROVE [Next]_vars
    BY <2>6 DEF Decide, Next
  <2>7. ASSUME NEW h \in Handlers,
               \/ ArriveInbound(h) \/ \E c \in Calls : Arrive(h, c)
               \/ ConvertToISO20022(h) \/ ProcessSettlement(h)
        PROVE  [Next]_vars
    BY <2>7 DEF Arrive, ArriveInbound, Carries, ConvertToISO20022, ProcessSettlement, vars
  <2>8. ASSUME NEW h \in Handlers,
               VerifyHMAC(h) \/ VerifyTLS(h) \/ Unauthorized(h) \/ ReceiveInbound(h) \/ Misread(h)
        PROVE  [Next]_vars
    BY <2>8 DEF VerifyHMAC, VerifyTLS, Unauthorized, ReceiveInbound, ReceivePacs008,
       ReceivePacs028, ReceiveAcmt023, ProcessInbound, Misread, vars
  <2>9. ASSUME NEW h \in Handlers, Read(h) PROVE [Next]_vars
    BY <2>9 DEF Read, Next, IsoInv, BodiesWhole
  <2>10. ASSUME NEW h \in Handlers, Hand(h) PROVE [Next]_vars
    BY <2>10 DEF Hand, Next
  <2>11. CASE IntervalOver \/ CoolDown
    BY <2>11 DEF IntervalOver, CoolDown, vars
  <2>12. CASE UNCHANGED all
    BY <2>12 DEF all, vars
  <2> QED
    BY <2>1, <2>2, <2>3, <2>4, <2>5, <2>6, <2>7, <2>8, <2>9, <2>10, <2>11, <2>12
       DEF IsoNext, CallStep, RequestStep
<1> QED BY <1>1, <1>2, ExchangeInvariant, PTL DEF IsoSpec, Spec

\* So the exchange as a whole has what CallbackWait has.
THEOREM ExchangeSafe ==
  IsoSpec => [](NotifierNeverBlocks /\ NoLeak /\ OwnVerdict /\ AnsweredOnlyIfWired)
BY ExchangeImplementsWait, NeverBlocked, NothingLeft, OwnAnswer, UnwiredUnanswered, PTL

\* And it drops no answer that CallbackWait would keep.
THEOREM ExchangeDropsNoMore == IsoSpec => DropsExplained
BY ExchangeImplementsWait, DroppedOnlyUnwired, PTL

=============================================================================
