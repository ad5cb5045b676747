---------------------------- MODULE IsoExchange ----------------------------
(***************************************************************************)
(* The exchange of ISO 20022 messages around the wait of CallbackWait,     *)
(* which this module extends: how a pacs.008 or acmt.023 becomes XML       *)
(* (iso20022_service.go), is posted under the circuit breaker payments and *)
(* enquiries share (breaker.go), and how the request that brings the       *)
(* answer gets past the callback authentication (iso20022_callback_auth.go)*)
(* and decryptBody (iso20022_callback_handler.go).  Requests that NIBSS    *)
(* makes of its own take the same way and change nothing.                  *)
(*                                                                         *)
(* A step of a call or of a callback request in CallbackWait is one here,  *)
(* with what it takes to get there; the other steps leave the variables of *)
(* CallbackWait alone.                                                     *)
(***************************************************************************)
EXTENDS CallbackWait, FiniteSets

CONSTANTS
  MinRequests,   \* requests the breaker counts before it may trip
  MaxProbes,     \* requests it lets through while half-open
  Configs,       \* ways the server may have been started
  Unasked        \* bound: callback requests that may bring more than answers

ASSUME BreakerAssumption == MinRequests \in Nat \ {0} /\ MaxProbes \in Nat \ {0}

\* How callbacks are authenticated.  VerifyAndOpenXML verifies with the
\* service's own key pair: it opens the envelopes of a NIBSS (or of what stands
\* for it) that shares the pair.
ASSUME ConfigsAssumption == Configs \subseteq [auth : {"none", "hmac", "tls"}, shared : BOOLEAN]

\* A message NIBSS sends of its own, a pacs.008, pacs.028 or acmt.023.
Inbound == "inbound"
ASSUME InboundAssumption == Inbound \notin Calls

VARIABLES
  config,    \* how the server was started
  format,    \* common.DateTimeFormatString, one variable of the whole process
  stage,     \* where a call in "sending" is
  stamp,     \* the form of the timestamps in a call's message
  breaker,   \* the breaker "NIBSS-ISO20022"
  hstage,    \* where a callback request is before (and after) its lookup
  body       \* what it carries: [about, form, left]

iso  == <<config, format, stage, stamp, breaker, hstage, body>>
all  == <<vars, iso>>
wire == <<config, format, stage, stamp>>

\* A generation of the breaker: its state, the requests and failures counted
\* in it, and its requests that have not come back.
Generation(s) == [state |-> s, requests |-> 0, failures |-> 0, open |-> {}]
Breakers == [state : {"closed", "open", "half-open"}, requests : Nat, failures : Nat,
             open : SUBSET Calls]

NoBody == [about |-> None, form |-> None, left |-> "none"]

IsoTypeOK ==
  /\ config  \in Configs
  /\ format  \in {"default", "seconds"}
  /\ stage   \in [Calls -> {"format", "marshal", "restore", "execute", "flight", "over", "refused"}]
  /\ stamp   \in [Calls -> {"default", "seconds", None}]
  /\ breaker \in Breakers
  /\ hstage  \in [Handlers -> {"idle", "auth", "decode", "over", "unopened"}]
  /\ body    \in [Handlers -> [about : Calls \cup {Inbound, None},
                               form : {"sealed", "xml", "default", "seconds", None},
                               left : {"whole", "none"}]]

IsoInit ==
  /\ Init
  /\ config \in Configs
  /\ format = "default"
  /\ stage   = [c \in Calls |-> "format"]
  /\ stamp   = [c \in Calls |-> None]
  /\ breaker = Generation("closed")
  /\ hstage  = [h \in Handlers |-> "idle"]
  /\ body    = [h \in Handlers |-> NoBody]

-----------------------------------------------------------------------------
(* The message: convertToNIBSSXML and ConvertAcmt023ToXML                  *)

Begin(c) == Register(c) /\ UNCHANGED iso

To(c, s) == stage' = [stage EXCEPT ![c] = s]

\* common.DateTimeFormatString = "2006-01-02T15:04:05"
SetFormat(c) ==
  /\ pc[c] = "sending" /\ stage[c] = "format"
  /\ format' = "seconds"
  /\ To(c, "marshal")
  /\ UNCHANGED <<vars, config, stamp, breaker, hstage, body>>

Converting(c) == stage[c] \in {"marshal", "restore"}

\* The formats xml.Marshal may find.  While another conversion is under way
\* its assignments race with the reading: nothing orders them, and a string
\* is two words ("default" stands for whatever is not the seconds' format).
Seen(c) ==
  IF \E d \in Calls \ {c} : Converting(d) THEN {"seconds", "default"} ELSE {format}

Marshal(c) ==
  /\ stage[c] = "marshal"
  /\ \E f \in Seen(c) : stamp' = [stamp EXCEPT ![c] = f]
  /\ To(c, "restore")
  /\ UNCHANGED <<vars, config, format, breaker, hstage, body>>

\* Fault: the deferred function puts back what the conversion found, which is
\* another conversion's format.
FormatKept(c) ==
  /\ stage[c] = "restore"
  /\ format' = IF \E d \in Calls \ {c} : Converting(d) THEN "seconds" ELSE format
  /\ To(c, "execute")
  /\ UNCHANGED <<vars, config, stamp, breaker, hstage, body>>

\* The deferred common.DateTimeFormatString = common.DefaultDateTimeFormat;
\* the text is signed.
Restore(c) ==
  /\ stage[c] = "restore"
  /\ format' = "default"
  /\ To(c, "execute")
  /\ UNCHANGED <<vars, config, stamp, breaker, hstage, body>>

\* The document cannot be marshalled or signed.
Unconverted(c) ==
  /\ stage[c] = "restore"
  /\ format' = "default"
  /\ SendFails(c)
  /\ To(c, "refused")
  /\ UNCHANGED <<config, stamp, breaker, hstage, body>>

-----------------------------------------------------------------------------
(* The breaker: ISO20022Breaker.Execute in sendPacs008 and sendAcmt023     *)

\* ReadyToTrip of NIBSSISO20022Settings, with five requests for MinRequests.
ReadyToTrip(b) == b.requests >= MinRequests /\ 2 * b.failures >= b.requests

Admits ==
  \/ breaker.state = "closed"
  \/ breaker.state = "half-open" /\ breaker.requests < MaxProbes

Execute(c) ==
  /\ stage[c] = "execute" /\ Admits
  /\ breaker' = [breaker EXCEPT !.requests = @ + 1, !.open = @ \cup {c}]
  /\ To(c, "flight")
  /\ UNCHANGED <<vars, config, format, stamp, hstage, body>>

\* ErrOpenState or ErrTooManyRequests: nothing is sent.
Refuse(c) ==
  /\ stage[c] = "execute" /\ ~Admits
  /\ SendFails(c)
  /\ To(c, "refused")
  /\ UNCHANGED <<config, format, stamp, breaker, hstage, body>>

\* Fault: successes are not reported.
ReportFailure(c, ok) ==
  breaker' = IF ok \/ c \notin breaker.open THEN breaker
             ELSE Generation("open")

\* What gobreaker makes of a request's outcome; one of an earlier generation
\* does not count.
Report(c, ok) ==
  LET back == [breaker EXCEPT !.open = @ \ {c}, !.failures = @ + IF ok THEN 0 ELSE 1]
      half == breaker.state = "half-open"
  IN breaker' =
       IF c \notin breaker.open THEN breaker
       ELSE IF ~ok /\ (half \/ ReadyToTrip(back)) THEN Generation("open")
       ELSE IF half /\ back.requests - Cardinality(back.open) >= MaxProbes THEN Generation("closed")
       ELSE back

\* NIBSS answers the POST with a status below 400.
Accepted(c) ==
  /\ stage[c] = "flight"
  /\ Sent(c)
  /\ Report(c, TRUE)
  /\ To(c, "over")
  /\ UNCHANGED <<config, format, stamp, hstage, body>>

PostFails(c) ==
  /\ stage[c] = "flight"
  /\ SendFails(c)
  /\ Report(c, FALSE)
  /\ To(c, "over")
  /\ UNCHANGED <<config, format, stamp, hstage, body>>

\* Interval: the counts of a closed breaker are dropped.
IntervalOver ==
  /\ breaker.state = "closed" /\ breaker # Generation("closed")
  /\ breaker' = Generation("closed")
  /\ UNCHANGED <<vars, wire, hstage, body>>

\* Timeout: an open breaker becomes half-open.
CoolDown ==
  /\ breaker.state = "open"
  /\ breaker' = Generation("half-open")
  /\ UNCHANGED <<vars, wire, hstage, body>>

-----------------------------------------------------------------------------
(* NIBSS and the callback request                                          *)

\* NIBSS cannot read a message with other timestamps than it prescribes.
Decide(c) ==
  /\ stage[c] \in {"flight", "over"}
  /\ NibssDecides(c)
  /\ stamp[c] # "seconds" => verdict'[c] = "malformed"
  /\ UNCHANGED iso

Reject(m) == m \in Calls /\ verdict[m] = "malformed"

\* A request brings an answer to /pacs002, /acmt024 or /admi002, or another
\* message to its endpoint: in a SignedMessage or as XML, an admi.002 as XML.
\* The middleware is installed by require_auth, and lets through what is not
\* one of its five endpoints.
Carries(h, m) ==
  /\ hstage[h] = "idle"
  /\ \E f \in {"sealed", "xml"} :
       /\ Reject(m) => f = "xml"
       /\ body' = [body EXCEPT ![h] = [about |-> m, form |-> f, left |-> "whole"]]
  /\ hstage' = [hstage EXCEPT ![h] =
                  IF config.auth # "none" /\ ~Reject(m) THEN "auth" ELSE "decode"]
  /\ UNCHANGED <<vars, wire, breaker>>

Arrive(h, c)     == verdict[c] # None /\ Carries(h, c)
ArriveInbound(h) == h \in Unasked /\ Carries(h, Inbound)

\* Fault: what the HMAC was computed over is not put back.
HMACReads(h) ==
  /\ hstage[h] = "auth" /\ config.auth = "hmac"
  /\ hstage' = [hstage EXCEPT ![h] = "decode"]
  /\ body' = [body EXCEPT ![h].left = "none"]
  /\ UNCHANGED <<vars, wire, breaker>>

\* The signature is that of the body, which is read for it and put back.
VerifyHMAC(h) ==
  /\ hstage[h] = "auth" /\ config.auth = "hmac"
  /\ hstage' = [hstage EXCEPT ![h] = "decode"]
  /\ UNCHANGED <<vars, wire, breaker, body>>

\* The certificate is valid and from an issuer, with a serial, that may call.
VerifyTLS(h) ==
  /\ hstage[h] = "auth" /\ config.auth = "tls"
  /\ hstage' = [hstage EXCEPT ![h] = "decode"]
  /\ UNCHANGED <<vars, wire, breaker, body>>

Unauthorized(h) ==
  /\ hstage[h] = "auth"
  /\ hstage' = [hstage EXCEPT ![h] = "over"]
  /\ UNCHANGED <<vars, wire, breaker, body>>

\* VerifyAndOpenXML of an envelope.
Opened == config.shared

\* What decryptBody and xml.Unmarshal can make of the body.  ReceiveAdmi002
\* reads it as it is.  Elsewhere the JSON decoder takes the first 512 bytes
\* of an XML text, and the rest is parsed: it is no XML, or an element without
\* the identifiers, unless the message begins behind them.
Decoded(h) ==
  LET b == body[h] IN
  CASE b.left = "none"    -> {"misread"}
    [] Reject(b.about)    -> {"handled"}
    [] b.form = "sealed"  -> IF Opened THEN {"handled"} ELSE {"misread"}
    [] OTHER              -> {"misread", "handled"}

Taken(h) == body' = [body EXCEPT ![h] = NoBody]

\* The message is read, and CallbackWait goes on with it.
Read(h) ==
  /\ hstage[h] = "decode" /\ "handled" \in Decoded(h)
  /\ body[h].about \in Calls /\ Deliver(h, body[h].about)
  /\ hstage' = [hstage EXCEPT ![h] = "over"]
  /\ Taken(h)
  /\ UNCHANGED <<wire, breaker>>

\* Or it is another message, parsed, logged and confirmed with 200.
Confirm(h) ==
  /\ hstage[h] = "decode" /\ "handled" \in Decoded(h)
  /\ body[h].about = Inbound
  /\ hstage' = [hstage EXCEPT ![h] = "over"]
  /\ Taken(h)
  /\ UNCHANGED <<wire, breaker>>

\* ProcessInboundPacs008 and ProcessInboundPacs028 only log.
ProcessInbound == UNCHANGED vars

ReceivePacs008(h) == Confirm(h) /\ ProcessInbound
ReceivePacs028(h) == Confirm(h) /\ ProcessInbound
ReceiveAcmt023(h) == Confirm(h) /\ UNCHANGED vars

ReceiveInbound(h) == ReceivePacs008(h) \/ ReceivePacs028(h) \/ ReceiveAcmt023(h)

\* The request is refused, or answered 200 although nothing was in it.
Misread(h) ==
  /\ hstage[h] = "decode"
  /\ "misread" \in Decoded(h)
  /\ hstage' = [hstage EXCEPT ![h] = IF body[h].form = "sealed" THEN "unopened" ELSE "over"]
  /\ Taken(h)
  /\ UNCHANGED <<vars, wire, breaker>>

-----------------------------------------------------------------------------
(* What users ask of the converter                                         *)

\* POST /iso20022/convert answers with a pacs.008 from ConvertToXML, which
\* sets no format of its own and marshals with the one it finds.
ConvertToISO20022(h) ==
  /\ h \in Unasked /\ hstage[h] = "idle"
  /\ \E f \in Seen(None) :
       body' = [body EXCEPT ![h] = [about |-> None, form |-> f, left |-> "none"]]
  /\ hstage' = [hstage EXCEPT ![h] = "over"]
  /\ UNCHANGED <<vars, wire, breaker>>

\* POST /iso20022/settlement converts one too, but the service has no client
\* to send it with, and the answer is an error.
ProcessSettlement(h) ==
  /\ h \in Unasked /\ hstage[h] = "idle"
  /\ hstage' = [hstage EXCEPT ![h] = "over"]
  /\ UNCHANGED <<vars, wire, breaker, body>>

-----------------------------------------------------------------------------
Wait(c) == (TakeAnswer(c) \/ TimesOut(c)) /\ UNCHANGED iso
Hand(h) == HandlerStep(h) /\ UNCHANGED iso

CallStep(c) ==
  \/ SetFormat(c) \/ Marshal(c) \/ Restore(c) \/ Unconverted(c)
  \/ Execute(c) \/ Refuse(c) \/ Accepted(c) \/ PostFails(c) \/ Wait(c)

RequestStep(h) ==
  \/ VerifyHMAC(h) \/ VerifyTLS(h) \/ Unauthorized(h)
  \/ Read(h) \/ ReceiveInbound(h) \/ Misread(h) \/ Hand(h)

IsoNext ==
  \/ \E c \in Calls : Begin(c) \/ CallStep(c) \/ Decide(c)
  \/ \E h \in Handlers :
       \/ RequestStep(h) \/ ArriveInbound(h)
       \/ ConvertToISO20022(h) \/ ProcessSettlement(h)
       \/ \E c \in Calls : Arrive(h, c)
  \/ IntervalOver \/ CoolDown

IsoSpec == IsoInit /\ [][IsoNext]_all

\* As in CallbackWait; the breaker's timeout runs out.
IsoFairSpec ==
  /\ IsoSpec
  /\ \A c \in Calls : WF_all(CallStep(c))
  /\ \A h \in Handlers : WF_all(RequestStep(h))
  /\ WF_all(CoolDown)

-----------------------------------------------------------------------------
(* Properties                                                              *)

\* What a request that has not been read carries is all there.
BodiesWhole ==
  \A h \in Handlers :
     hstage[h] \in {"auth", "decode"} =>
       body[h].about \in Calls \cup {Inbound} /\ body[h].left = "whole"

\* When no conversion is under way the process-wide format is the default
\* again, however conversions have overlapped: what else marshals dates
\* (ConvertToXML) relies on it.
FormatRestored == (\A c \in Calls : ~Converting(c)) => format = "default"

\* So a message converted for a user, who asks with no regard to what goes to
\* NIBSS, has NIBSS's timestamps only if one to NIBSS is being converted
\* meanwhile: no conversion leaves them behind (iso20022_service.go:591-592).
OwnTimestamps ==
  [][\A h \in Handlers : body'[h].form = "seconds" =>
       body[h].form = "seconds" \/ \E c \in Calls : Converting(c)]_all

\* What the comment of convertToNIBSSXML says of every message it serialises.
SecondsOnly == \A c \in Calls : stamp[c] \in {None, "seconds"}

\* A message in an envelope the service's keys open is read, after whatever
\* the authentication did with the body: it is refused only for want of
\* authentication.
EnvelopeRead ==
  config.shared => \A h \in Handlers : hstage[h] # "unopened"

\* The breaker, which payments and enquiries share, lets a request through
\* again and again: no outcome leaves it refusing for good.
AdmitsAgain == []<>Admits

=============================================================================
