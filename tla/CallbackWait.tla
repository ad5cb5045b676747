---------------------------- MODULE CallbackWait ----------------------------
(***************************************************************************)
(* The wait for an asynchronous answer of NIBSS: DoTransaction of          *)
(* ISO20022FundsTransferImpl (funds_transfer.go) sends a pacs.008 and      *)
(* EnquireName of ISO20022NameEnquiry (name_enquiry.go) an acmt.023; each  *)
(* then waits on a channel it has stored under its MsgId in a sync.Map,    *)
(* until ISO20022CallbackHandler puts the answer in or a timer runs out.   *)
(*                                                                         *)
(* The two services have the same code for this, so a call is of one kind  *)
(* or the other and only the message types differ.  MsgIds are random, and *)
(* a call stands for its own.  NIBSS and the network are the environment:  *)
(* an answer is late, lost or repeated, and may overtake the response to   *)
(* the request it answers.                                                 *)
(***************************************************************************)
EXTENDS Integers, Sequences

CONSTANTS
  Transfers,      \* calls of DoTransaction
  Enquiries,      \* calls of EnquireName
  Handlers,       \* callback requests, each served by its own goroutine
  SameInstance,   \* the handler notifies the service object that waits
  MsgIdEchoed     \* OrgnlTxId of a pacs.002 is the MsgId of the pacs.008

Calls == Transfers \cup Enquiries

ASSUME KindsAssumption == Transfers \cap Enquiries = {}
ASSUME WiringAssumption == SameInstance \in BOOLEAN /\ MsgIdEchoed \in BOOLEAN

None == "none"
ASSUME NoneAssumption == None \notin Calls

VARIABLES
  pc,        \* a call: idle, sending, waiting or done
  pending,   \* calls whose channel is in the sync.Map of their service
  chan,      \* resultCh of a call, made with room for one
  result,    \* what a call returned
  verdict,   \* what NIBSS decided about a message it received
  hpc,       \* a callback request: idle, lookup, send or done
  answer,    \* the answer it carries: [type, call]
  reached    \* the call whose channel LoadAndDelete gave it, or None

caller  == <<pc, chan, result>>
handler == <<hpc, answer, reached>>
vars    == <<pc, pending, chan, result, verdict, hpc, answer, reached>>

\* A transfer is accepted (ACSC, ACCP), still pending (PDNG; any other status,
\* or none, stands with it) or rejected (RJCT), an account verified or not;
\* admi.002 says that NIBSS could not read the message.
Verdicts == {"accepted", "pending", "rejected", "malformed"}
Types    == {"pacs.002", "acmt.024", "admi.002"}

\* What a callback request puts in a channel: a result with its status, the
\* report of an account that could not be verified, or an error.
Results == {"accepted", "pending"}
Answers == Results \cup {"unverified", "error"}

Over(c) == pc[c] = "done"

TypeOK ==
  /\ pc      \in [Calls -> {"idle", "sending", "waiting", "done"}]
  /\ pending \in SUBSET Calls
  /\ chan    \in [Calls -> Seq(Answers)]
  /\ result  \in [Calls -> Results \cup {None, "error", "timeout", "unsent"}]
  /\ verdict \in [Calls -> Verdicts \cup {None}]
  /\ hpc     \in [Handlers -> {"idle", "lookup", "send", "done"}]
  /\ answer  \in [Handlers -> [type : Types \cup {None}, call : Calls \cup {None}]]
  /\ reached \in [Handlers -> Calls \cup {None}]

Init ==
  /\ pc      = [c \in Calls |-> "idle"]
  /\ pending = {}
  /\ chan    = [c \in Calls |-> << >>]
  /\ result  = [c \in Calls |-> None]
  /\ verdict = [c \in Calls |-> None]
  /\ hpc     = [h \in Handlers |-> "idle"]
  /\ answer  = [h \in Handlers |-> [type |-> None, call |-> None]]
  /\ reached = [h \in Handlers |-> None]

-----------------------------------------------------------------------------
(* The caller                                                              *)

\* Fault: the channel is stored when the POST has returned.
Unregistered(c) ==
  /\ pc[c] = "idle"
  /\ pc' = [pc EXCEPT ![c] = "sending"]
  /\ UNCHANGED <<pending, chan, result, verdict, handler>>

\* The message is built and its channel stored before anything is sent.
Register(c) ==
  /\ pc[c] = "idle"
  /\ pc' = [pc EXCEPT ![c] = "sending"]
  /\ pending' = pending \cup {c}
  /\ UNCHANGED <<chan, result, verdict, handler>>

\* The POST reaches NIBSS, which decides; it may still do so when the caller
\* has given up.
NibssDecides(c) ==
  /\ pc[c] # "idle" /\ verdict[c] = None
  /\ \E v \in Verdicts :
       /\ v = "pending" => c \in Transfers
       /\ verdict' = [verdict EXCEPT ![c] = v]
  /\ UNCHANGED <<pending, caller, handler>>

\* sendPacs008 / sendAcmt023 returns nil: NIBSS answered the POST itself with
\* a status below 400.
Sent(c) ==
  /\ pc[c] = "sending" /\ verdict[c] # None
  /\ pc' = [pc EXCEPT ![c] = "waiting"]
  /\ UNCHANGED <<pending, chan, result, verdict, handler>>

\* Fault: no deferred pending.Delete.
LeftPending(c, r) ==
  /\ pc' = [pc EXCEPT ![c] = "done"]
  /\ result' = [result EXCEPT ![c] = r]
  /\ UNCHANGED pending

\* The call returns r, and its deferred pending.Delete runs.
Return(c, r) ==
  /\ pc' = [pc EXCEPT ![c] = "done"]
  /\ result' = [result EXCEPT ![c] = r]
  /\ pending' = pending \ {c}

\* The breaker is open, the connection fails, the response is lost or is an
\* error: whether NIBSS has the message is not known.
SendFails(c) ==
  /\ pc[c] = "sending"
  /\ Return(c, "unsent")
  /\ UNCHANGED <<chan, verdict, handler>>

\* EnquireName returns an error for an account that is not verified.
Returned(a) == IF a \in Results THEN a ELSE "error"

\* The select.  With an answer in the channel and the timer run out, Go picks
\* either branch.
TakeAnswer(c) ==
  /\ pc[c] = "waiting" /\ chan[c] # << >>
  /\ Return(c, Returned(Head(chan[c])))
  /\ chan' = [chan EXCEPT ![c] = Tail(@)]
  /\ UNCHANGED <<verdict, handler>>

TimesOut(c) ==
  /\ pc[c] = "waiting"
  /\ Return(c, "timeout")
  /\ UNCHANGED <<chan, verdict, handler>>

-----------------------------------------------------------------------------
(* The callback handler                                                    *)

\* The type of the message that tells a verdict about a call of this kind.
AnswerType(c) ==
  IF verdict[c] = "malformed" THEN "admi.002"
  ELSE IF c \in Transfers THEN "pacs.002" ELSE "acmt.024"

\* An answer arrives, for the first time or again, and is parsed; one that is
\* not is an answer lost.
Deliver(h, c) ==
  /\ hpc[h] = "idle"
  /\ verdict[c] # None
  /\ hpc' = [hpc EXCEPT ![h] = "lookup"]
  /\ answer' = [answer EXCEPT ![h] = [type |-> AnswerType(c), call |-> c]]
  /\ UNCHANGED <<pending, caller, verdict, reached>>

\* An answer about a call can be found: the handler has the service object
\* that waits, and its key is the MsgId.  A pacs.002 is looked up by its
\* OrgnlTxId, an acmt.024 and an admi.002 by a MsgId (the admi.002 in both
\* services, of which one knows it).
Wired(c) == SameInstance /\ (AnswerType(c) = "pacs.002" => MsgIdEchoed)

Found(h) == Wired(answer[h].call) /\ answer[h].call \in pending

\* Fault: Load in place of LoadAndDelete.
LoadOnly(h) ==
  /\ hpc[h] = "lookup" /\ Found(h)
  /\ hpc' = [hpc EXCEPT ![h] = "send"]
  /\ reached' = [reached EXCEPT ![h] = answer[h].call]
  /\ UNCHANGED <<pending, answer, caller, verdict>>

\* pending.LoadAndDelete finds the channel: this request alone has it now.
LoadAndDelete(h) ==
  /\ hpc[h] = "lookup" /\ Found(h)
  /\ hpc' = [hpc EXCEPT ![h] = "send"]
  /\ reached' = [reached EXCEPT ![h] = answer[h].call]
  /\ pending' = pending \ {answer[h].call}
  /\ UNCHANGED <<answer, caller, verdict>>

\* Nobody waits under that key: the answer is dropped, NIBSS gets its 200.
DropAnswer(h) ==
  /\ hpc[h] = "lookup" /\ ~Found(h)
  /\ hpc' = [hpc EXCEPT ![h] = "done"]
  /\ UNCHANGED <<pending, answer, reached, caller, verdict>>

\* What becomes of an answer that is no result: admi.002 and the status RJCT are
\* errors, an acmt.024 reports an account that could not be verified.
Refusal(h) == IF answer[h].type = "acmt.024" THEN "unverified" ELSE "error"

\* Fault: whatever is not RJCT is passed on as settled.
TakenForSettled(h) ==
  IF verdict[answer[h].call] \in Results THEN "accepted" ELSE Refusal(h)

\* What the handler makes of the answer: every other status becomes a result,
\* which carries it.
Outcome(h) ==
  LET v == verdict[answer[h].call] IN IF v \in Results THEN v ELSE Refusal(h)

\* ch <- ..., which blocks while the channel is full.
SendToCaller(h) ==
  /\ hpc[h] = "send"
  /\ Len(chan[reached[h]]) < 1
  /\ chan' = [chan EXCEPT ![reached[h]] = Append(@, Outcome(h))]
  /\ hpc' = [hpc EXCEPT ![h] = "done"]
  /\ reached' = [reached EXCEPT ![h] = None]
  /\ UNCHANGED <<pending, pc, result, verdict, answer>>

CallerStep(c) == Sent(c) \/ SendFails(c) \/ TakeAnswer(c) \/ TimesOut(c)
HandlerStep(h) == LoadAndDelete(h) \/ DropAnswer(h) \/ SendToCaller(h)

Next ==
  \/ \E c \in Calls : Register(c) \/ NibssDecides(c) \/ CallerStep(c)
  \/ \E h \in Handlers : HandlerStep(h) \/ \E c \in Calls : Deliver(h, c)

Spec == Init /\ [][Next]_vars

\* The HTTP client, the timer and both goroutines make progress.
FairSpec ==
  /\ Spec
  /\ \A c \in Calls : WF_vars(CallerStep(c))
  /\ \A h \in Handlers : WF_vars(HandlerStep(h))

-----------------------------------------------------------------------------
(* Properties                                                              *)

\* The request that has taken a channel out of the map can always put its
\* answer in: NotifyPacs002 and NotifyAcmt024 never block the callback.
NotifierNeverBlocks ==
  \A h \in Handlers : hpc[h] = "send" => chan[reached[h]] = << >>

\* Nothing is left in the sync.Map for a call that is over (the deferred
\* pending.Delete runs on every way out, LoadAndDelete on the other side).
NoLeak == \A c \in pending : pc[c] \in {"sending", "waiting"}

\* A result has the status NIBSS gave this very call, and an error of NIBSS is
\* about a rejection: no answer goes to another call.  A result is not a
\* settlement: a payment that is pending comes back as one too, and the
\* provider, which does not look at the status, answers it a success.
OwnVerdict ==
  \A c \in Calls :
     /\ result[c] \in Results => verdict[c] = result[c]
     /\ result[c] = "error"   => verdict[c] \in {"rejected", "malformed"}

\* An answer that reaches the handler is put in, or on its way, or the call
\* it answers is over: the first one to come is never dropped.  This is what
\* storing the channel before sending is for, and what the comment of
\* NotifyPacs002 (funds_transfer.go:201) promises.
Answered(c) ==
  chan[c] # << >> \/ \E h \in Handlers : hpc[h] = "send" /\ reached[h] = c

FirstAnswerKept ==
  [][\A h \in Handlers :
        hpc[h] = "lookup" /\ hpc'[h] = "done" =>
          Over(answer[h].call) \/ Answered(answer[h].call)]_vars

-----------------------------------------------------------------------------
(* What the proofs of CallbackProofs carry from step to step               *)

\* Whether it is so or not: an answer is dropped only when its call is over,
\* answered, or not wired to the handler.
DropsExplained ==
  [][\A h \in Handlers :
        hpc[h] = "lookup" /\ hpc'[h] = "done" =>
          LET c == answer[h].call IN Over(c) \/ Answered(c) \/ ~Wired(c)]_vars

\* And a call that is not wired gets no answer, whatever NIBSS says of it: it
\* ends by its timer or by a failed send.
AnsweredOnlyIfWired == \A c \in Calls : result[c] \in Results \cup {"error"} => Wired(c)

\* A call waits to be answered, and nothing has been put in its channel yet.
Unanswered(c) ==
  pc[c] \in {"sending", "waiting"} /\ chan[c] = << >>

\* A callback request that has taken a channel out of the map is the only one
\* that has it, and carries an answer to that call.
SendersApart ==
  \A h \in Handlers : hpc[h] = "send" =>
     /\ reached[h] = answer[h].call
     /\ reached[h] \in Calls \ pending
     /\ chan[reached[h]] = << >>
     /\ \A g \in Handlers \ {h} : hpc[g] = "send" => reached[g] # reached[h]

\* An answer is about a message NIBSS has decided on, of a call that began.
AnswersDecided ==
  /\ \A c \in Calls : verdict[c] # None => pc[c] # "idle"
  /\ \A h \in Handlers : hpc[h] \in {"lookup", "send"} =>
       /\ answer[h].call \in Calls
       /\ verdict[answer[h].call] # None
       /\ answer[h].type = AnswerType(answer[h].call)

\* What a verdict v can be told as.
Tells(v, a) ==
  IF a \in Results THEN v = a ELSE v \in {"rejected", "malformed"}

\* What has been found was wired.
FoundOnlyIfWired ==
  /\ \A h \in Handlers : hpc[h] = "send" => Wired(answer[h].call)
  /\ \A c \in Calls : chan[c] # << >> => verdict[c] # None /\ Wired(c)
  /\ AnsweredOnlyIfWired

\* A channel holds at most one answer, and the one of its own call.
ChannelsOwn ==
  \A c \in Calls :
     /\ pc[c] = "idle" => chan[c] = << >>
     /\ chan[c] # << >> => Len(chan[c]) = 1 /\ Tells(verdict[c], Head(chan[c]))

\* A call that waits is in the map until it has its answer or a callback
\* request brings it.
WaitersFound ==
  \A c \in Calls : pc[c] \in {"sending", "waiting"} => c \in pending \/ Answered(c)

\* The inductive invariant: the parts above, with NoLeak and OwnVerdict.
CallbackInv ==
  /\ TypeOK
  /\ \A c \in pending : Unanswered(c)
  /\ SendersApart
  /\ AnswersDecided
  /\ ChannelsOwn
  /\ WaitersFound
  /\ OwnVerdict
  /\ FoundOnlyIfWired

\* A call that has begun returns, whatever is lost, and every callback
\* request is finished: at last nothing is under way.
EveryoneReturns ==
  <>[](/\ \A c \in Calls : pc[c] \in {"idle", "done"}
       /\ \A h \in Handlers : hpc[h] \in {"idle", "done"})

=============================================================================
