---------------------------- MODULE BackendClient ---------------------------
(***************************************************************************)
(* The HTTP client for model backends (internal/providers/backendhttp):    *)
(* DoRaw (and DoJSON, which is DoRaw) and DoStream of fetchClient inside   *)
(* the meteredClient, called by several goroutines.  A call fails to be    *)
(* built, fails in transport, fails while the body is read, or returns a   *)
(* status; recordOutcome then writes the metrics one after the other.      *)
(* The cap on the counters is the subject of CapVec.                       *)
(*                                                                         *)
(* A definition named D_Flaw is definition D with a plausible bug; nothing *)
(* uses it but the mutation runs.                                          *)
(***************************************************************************)
EXTENDS Integers, FiniteSets

CONSTANTS
  Callers,
  Status,  \* the statuses a backend may answer with
  Urls,    \* the backends' URLs, each by the Words it contains
  MaxCalls \* bound: calls in all

(* What classifyTransportError looks for in the text of an error. *)
TimeoutWords == {"timeout", "deadline exceeded"}
MalformedWords == {"read body", "unexpected eof", "malformed"}
Words == TimeoutWords \cup MalformedWords

ASSUME BackendAssumption ==
  /\ IsFiniteSet(Callers) /\ Status \subseteq 100..599 /\ MaxCalls \in Nat
  /\ Urls \subseteq SUBSET Words

VARIABLES
  pc, kind, \* of each caller: where it is, "raw" or "stream"
  status,   \* what the call returns: the status, 0 without a response
  err,      \* and the error: the stage, why, the URL it quotes; or NoError
  body,     \* the response body on the wire: "none", "open" or "closed"
  now,      \* the time a caller has read for SetBackendLastSuccess
  observed, requests, errors, lastSuccess, \* the metrics
  clock,    \* history: successful responses, which the time stands for
  causes,   \* history: errors returned, by cause
  named,    \* history: those not TimedOut whose URL has a TimeoutWord
  swallowed,\* history: deadlines met in a body whose error is dropped
  left

callVars == <<pc, kind, status, err, body, now>>
metricVars == <<observed, requests, errors, lastSuccess>>
history == <<causes, named, swallowed>>
vars == <<callVars, metricVars, clock, history, left>>

(* Why a call fails, by what net/http and io say of it: the deadline of    *)
(* the context, a lookup's "i/o timeout", the system's "connection timed   *)
(* out", "unexpected EOF", a malformed answer; or a refusal, a reset, an   *)
(* EOF, a cancelled context, a URL that does not parse.                    *)
CauseText ==
  [deadline |-> {"deadline exceeded"}, lookup |-> {"timeout"}, etimedout |-> {},
   cutoff |-> {"unexpected eof"}, malformed |-> {"malformed"}, other |-> {}]
Causes == DOMAIN CauseText
TimedOut == {"deadline", "lookup"}

NoError == [stage |-> "none", cause |-> "none", url |-> {}]
Classes == {"timeout", "malformed", "connect", "5xx"}

Init ==
  /\ pc = [c \in Callers |-> "idle"] /\ kind = [c \in Callers |-> "raw"]
  /\ status = [c \in Callers |-> 0] /\ err = [c \in Callers |-> NoError]
  /\ body = [c \in Callers |-> "none"] /\ now = [c \in Callers |-> 0]
  /\ observed = 0 /\ requests = [o \in {"ok", "error"} |-> 0]
  /\ errors = [k \in Classes |-> 0] /\ lastSuccess = 0
  /\ clock = 0 /\ causes = [k \in Causes |-> 0] /\ named = 0
  /\ swallowed = 0 /\ left = MaxCalls

Step(c, from, to) == pc[c] = from /\ pc' = [pc EXCEPT ![c] = to]

(* The call returns an error to recordOutcome. *)
Fails(c, stage, cause, url) ==
  /\ err' = [err EXCEPT ![c] = [stage |-> stage, cause |-> cause, url |-> url]]
  /\ causes' = [causes EXCEPT ![cause] = @ + 1]
  /\ named' = IF cause \notin TimedOut /\ url \cap TimeoutWords # {}
              THEN named + 1 ELSE named
  /\ UNCHANGED swallowed

-----------------------------------------------------------------------------
(* fetchClient. *)

Call(c, k) ==
  /\ left > 0 /\ body[c] # "open"
  /\ Step(c, "idle", "do")
  /\ kind' = [kind EXCEPT ![c] = k]
  /\ status' = [status EXCEPT ![c] = 0] /\ err' = [err EXCEPT ![c] = NoError]
  /\ body' = [body EXCEPT ![c] = "none"] /\ left' = left - 1
  /\ UNCHANGED <<now, metricVars, clock, history>>

(* NewRequestWithContext or inner.Do fails: there is no response, and the  *)
(* error quotes the URL.                                                   *)
NoResponse(c) ==
  /\ Step(c, "do", "observe")
  /\ \E url \in Urls :
       \/ Fails(c, "build request", "other", url)
       \/ \E cause \in Causes : Fails(c, "do", cause, url)
  /\ UNCHANGED <<kind, status, body, now, metricVars, clock, left>>

Response(c, st) ==
  /\ Step(c, "do", "read")
  /\ status' = [status EXCEPT ![c] = st]
  /\ body' = [body EXCEPT ![c] = "open"]
  /\ UNCHANGED <<kind, err, now, metricVars, clock, history, left>>

(* DoRaw reads the whole body; it is closed when DoRaw returns. *)
ReadRaw(c) ==
  /\ kind[c] = "raw"
  /\ Step(c, "read", "observe")
  /\ body' = [body EXCEPT ![c] = "closed"]
  /\ \/ UNCHANGED <<err, history>>
     \/ \E cause \in Causes \ {"lookup"} : Fails(c, "read body", cause, {})
  /\ UNCHANGED <<kind, status, now, metricVars, clock, left>>

TwoHundred(c) == status[c] \in 200..299

ReturnStream_LeavesOpen(c) ==
  /\ kind[c] = "stream"
  /\ Step(c, "read", "observe")
  /\ UNCHANGED <<kind, status, err, body, now, metricVars, clock, history, left>>

(* DoStream hands the body of a 2xx to the caller; it reads any other      *)
(* itself, ignoring an error, and closes it.                               *)
ReturnStream(c) ==
  /\ kind[c] = "stream"
  /\ Step(c, "read", "observe")
  /\ body' = [body EXCEPT ![c] = IF TwoHundred(c) THEN @ ELSE "closed"]
  /\ \/ UNCHANGED swallowed
     \/ ~ TwoHundred(c) /\ swallowed' = swallowed + 1
  /\ UNCHANGED <<kind, status, err, now, metricVars, clock, causes, named, left>>

(* The caller is done with its stream. *)
CloseStream(c) ==
  /\ pc[c] = "idle" /\ body[c] = "open"
  /\ body' = [body EXCEPT ![c] = "closed"]
  /\ UNCHANGED <<pc, kind, status, err, now, metricVars, clock, history, left>>

-----------------------------------------------------------------------------
(* recordOutcome. *)

(* err.Error() in lower case: the stage, the URL quoted, the cause. *)
Text(e) == {e.stage} \cup e.url \cup CauseText[e.cause]

classifyTransportError_StageFirst(e) ==
  IF Text(e) \cap MalformedWords # {} THEN "malformed"
  ELSE IF e.cause = "deadline" \/ Text(e) \cap TimeoutWords # {} THEN "timeout"
  ELSE "connect"

(* errors.Is and the text: a timeout before the stage. *)
classifyTransportError(e) ==
  IF e.cause = "deadline" \/ Text(e) \cap TimeoutWords # {} THEN "timeout"
  ELSE IF Text(e) \cap MalformedWords # {} THEN "malformed"
  ELSE "connect"

Failed(c) == err[c] # NoError \/ status[c] >= 500

errorClass(c) ==
  IF err[c] # NoError THEN classifyTransportError(err[c]) ELSE "5xx"

ObserveBackendRequest(c) ==
  /\ Step(c, "observe", "count")
  /\ observed' = observed + 1
  /\ UNCHANGED <<kind, status, err, body, now, requests, errors, lastSuccess,
                 clock, history, left>>

IncBackendRequest(c) ==
  /\ Step(c, "count", IF Failed(c) THEN "class" ELSE "now")
  /\ requests' = [requests EXCEPT ![IF Failed(c) THEN "error" ELSE "ok"] = @ + 1]
  /\ UNCHANGED <<kind, status, err, body, now, observed, errors, lastSuccess,
                 clock, history, left>>

IncBackendError_TransportOnly(c) ==
  /\ Step(c, "class", "idle")
  /\ errors' = IF err[c] = NoError THEN errors
               ELSE [errors EXCEPT ![errorClass(c)] = @ + 1]
  /\ UNCHANGED <<kind, status, err, body, now, observed, requests, lastSuccess,
                 clock, history, left>>

IncBackendError(c) ==
  /\ Step(c, "class", "idle")
  /\ errors' = [errors EXCEPT ![errorClass(c)] = @ + 1]
  /\ UNCHANGED <<kind, status, err, body, now, observed, requests, lastSuccess,
                 clock, history, left>>

(* time.Now is read before the gauge is set. *)
ReadClock(c) ==
  /\ Step(c, "now", "success")
  /\ clock' = clock + 1
  /\ now' = [now EXCEPT ![c] = clock + 1]
  /\ UNCHANGED <<kind, status, err, body, metricVars, history, left>>

SetBackendLastSuccess(c) ==
  /\ Step(c, "success", "idle")
  /\ lastSuccess' = now[c]
  /\ UNCHANGED <<kind, status, err, body, now, observed, requests, errors,
                 clock, history, left>>

-----------------------------------------------------------------------------
Next ==
  \E c \in Callers :
    \/ \E k \in {"raw", "stream"} : Call(c, k)
    \/ \E st \in Status : Response(c, st)
    \/ NoResponse(c) \/ ReadRaw(c) \/ ReturnStream(c) \/ CloseStream(c)
    \/ ObserveBackendRequest(c) \/ IncBackendRequest(c) \/ IncBackendError(c)
    \/ ReadClock(c) \/ SetBackendLastSuccess(c)

Spec == Init /\ [][Next]_vars

-----------------------------------------------------------------------------
(* Properties. *)

(* The places of a call, the statuses it may carry, and times no later     *)
(* than the last one read: fetchClient and recordOutcome keep their types. *)
TypeOK ==
  /\ pc \in [Callers -> {"idle", "do", "read", "observe", "count", "class",
                         "now", "success"}]
  /\ status \in [Callers -> {0} \cup Status]
  /\ body \in [Callers -> {"none", "open", "closed"}]
  /\ requests \in [{"ok", "error"} -> Nat] /\ errors \in [Classes -> Nat]
  /\ \A c \in Callers : now[c] \in 0..clock
  /\ lastSuccess \in 0..clock

At(l) == {c \in Callers : pc[c] = l}

(* fetchClient leaks no connection: outside the call a body is open only   *)
(* if it is the stream of a 2xx, which the caller closes.                  *)
BodiesClosed ==
  \A c \in Callers : body[c] = "open" /\ pc[c] # "read" =>
    kind[c] = "stream" /\ TwoHundred(c) /\ err[c] = NoError

(* recordOutcome counts every call once, with one class for every error    *)
(* and a success for every other, but for the callers between two metrics. *)
CallsAccounted ==
  /\ observed = requests["ok"] + requests["error"] + Cardinality(At("count"))
  /\ requests["error"] = errors["timeout"] + errors["malformed"]
       + errors["connect"] + errors["5xx"] + Cardinality(At("class"))
  /\ requests["ok"] = clock + Cardinality(At("now"))

(* The callers with an error not yet counted in a class. *)
Unclassed == {c \in Callers : pc[c] \in {"observe", "count", "class"}
                                /\ err[c] # NoError}

(* "a deadline exceeded on the dial is still a timeout from the operator's *)
(* perspective" (classifyTransportError), and so are a lookup's and one in *)
(* the body: the timeout class counts each of them once, and besides them  *)
(* only the failures whose URL reads like a timeout.                       *)
DeadlinesAreTimeouts ==
  causes["deadline"] + causes["lookup"] + named
    = errors["timeout"] + Cardinality({c \in Unclassed :
        err[c].cause \in TimedOut \/ err[c].url \cap TimeoutWords # {}})

-----------------------------------------------------------------------------
(* Statements of the repository that do not hold of the code. *)

(* "the underlying err string from net/http and io is well-known"          *)
(* (classifyTransportError): then the class counts the calls that timed    *)
(* out and no other.  It misses the system's "connection timed out" and    *)
(* the errors DoStream drops, and counts what a URL names.                 *)
TimeoutsAreTimeouts ==
  causes["deadline"] + causes["lookup"] + causes["etimedout"] + swallowed
    = errors["timeout"] + Cardinality({c \in Unclassed :
        err[c].cause \in TimedOut \cup {"etimedout"}})

(* "the unix timestamp of the most recent successful backend response"     *)
(* (recorder.go), with no call on its way.                                 *)
LastSuccessNewest ==
  (\A c \in Callers : pc[c] = "idle") => lastSuccess = clock

(* "SetBackendLastSuccess on a successful 2xx" (recordOutcome). *)
LastSuccessIs2xx ==
  \A c \in Callers : pc[c] = "success" => TwoHundred(c)
=============================================================================
