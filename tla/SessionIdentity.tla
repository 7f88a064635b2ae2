-------------------------- MODULE SessionIdentity ---------------------------
(***************************************************************************)
(* Who a streaming session is, from the start request to the stop of its   *)
(* backend.  The start handler (internal/runtime/http/streaming.go) reads  *)
(* the session's ids and offering from headers or body, writes its own     *)
(* values over the X-Vtuber headers, and hands the request to              *)
(* vtuber_session.Serve, which reads them back.  /end finds the session by *)
(* the id in its path and names it to the backend in a URL.  A gateway may *)
(* send any of these headers itself, padded or not.                        *)
(*                                                                         *)
(* The semaphore, the debits and the races of /end with a start are the    *)
(* subject of StreamingRoute.  The daemon binds a work id to one offering  *)
(* as payeedaemon.Fake does.  The backend is another program: it knows a   *)
(* session by the session_id of the body the worker forwards.              *)
(*                                                                         *)
(* A definition named D_Flaw is definition D with a plausible bug; nothing *)
(* uses it but the mutation runs.                                          *)
(***************************************************************************)
EXTENDS Integers, FiniteSets, Text

CONSTANTS
  Starts, Ends,
  Inputs,     \* start requests: hdr (the X-Vtuber headers), body, payment
  PathIds,    \* what the path of an end request may hold
  Works,      \* work ids; a decodable payment stands for the one it gives
  WorkerName, \* the worker session id made of each work id
  Route,      \* Lookup: offering -> [price, url]
  BackendURL, \* Config.BackendURL, the URL of the first offering
  PathEscape, \* url.PathEscape
  Unknown     \* "unknown"

RequestHeaders == [session : Text, offering : Text, url : Text, worker : Text,
                   work : Text]
RequestBodies == [json : BOOLEAN, gatewaySession : Text, session : Text,
                  offering : Text]

ASSUME IdentityAssumption ==
  /\ Inputs \subseteq [hdr : RequestHeaders, body : RequestBodies, payment : Text]
  /\ Works \subseteq Text \ {Empty} /\ WorkerName \in [Works -> Text \ {Empty}]
  /\ DOMAIN Route \subseteq Text \ {Empty}
  /\ \A o \in DOMAIN Route : Route[o].url \in {t \in Text \ {Empty} : Trimmed(t)}
  /\ PathIds \subseteq Text /\ PathEscape \in [Text -> Text]

VARIABLES
  input,     \* the request each start carries; never changes
  header,    \* its X-Vtuber headers, as the handler leaves them
  pc,
  daemon,    \* the offering and price each work id is bound to, or none
  registry,  \* streamingSessionRegistry: at most one entry for an id
  session,   \* what Serve took from the request
  rendering, \* <<url, id>>: the sessions the backends render
  epc, path, found \* end requests: where, the path's id, the entry found

startVars == <<input, header, pc, session>>
endVars == <<epc, path, found>>
vars == <<startVars, daemon, registry, rendering, endVars>>

NoSession == [id |-> Empty, worker |-> Empty, work |-> Empty, url |-> Empty]

Init ==
  /\ input \in [Starts -> Inputs]
  /\ header = [s \in Starts |-> input[s].hdr]
  /\ pc = [s \in Starts |-> "request"]
  /\ daemon = [w \in Works |-> {}]
  /\ registry = [g \in Text |-> {}]
  /\ session = [s \in Starts |-> NoSession]
  /\ rendering = {}
  /\ epc = [e \in Ends |-> "idle"]
  /\ path \in [Ends -> PathIds]
  /\ found = [e \in Ends |-> {}]

Goto(s, l) == pc' = [pc EXCEPT ![s] = l]
GotoEnd(e, l) == epc' = [epc EXCEPT ![e] = l]

-----------------------------------------------------------------------------
(* The start handler. *)

(* The first of the texts that is not blank, trimmed. *)
FirstOf(ts) ==
  LET given == {i \in DOMAIN ts : Trim[ts[i]] # Empty}
  IN IF given = {} THEN Empty
     ELSE Trim[ts[CHOOSE i \in given : \A j \in given : i <= j]]

(* A body that is not JSON is an error only where the body is needed. *)
BodyField(s, f) == IF input[s].body.json THEN input[s].body[f] ELSE Empty

(* gatewaySessionID and offering: read once, from the request as it came,  *)
(* and kept in locals of the handler that onClose has too.                 *)
extractGatewaySessionID(s) ==
  FirstOf(<<input[s].hdr.session, BodyField(s, "gatewaySession"),
            BodyField(s, "session")>>)

extractStreamingOffering(s) ==
  FirstOf(<<input[s].hdr.offering, BodyField(s, "offering")>>)

deriveWorkerSessionID(w) == WorkerName[w]

Accepted(s) ==
  /\ input[s].payment \in Works
  /\ extractGatewaySessionID(s) # Empty
  /\ extractStreamingOffering(s) \in DOMAIN Route

Binding(s) ==
  LET o == extractStreamingOffering(s) IN [offering |-> o, price |-> Route[o].price]

(* OpenSession at the daemon: a work id keeps its first binding. *)
Bindable(s) == daemon[input[s].payment] \subseteq {Binding(s)}

(* Turned away; the headers of such a request are never read again. *)
Reject(s) ==
  /\ pc[s] = "request"
  /\ ~(Accepted(s) /\ Bindable(s))
  /\ Goto(s, "rejected")
  /\ UNCHANGED <<input, header, session, daemon, registry, rendering, endVars>>

Rewritten_KeepsURL(s) ==
  LET o == extractStreamingOffering(s)
  IN [session |-> extractGatewaySessionID(s), offering |-> o,
      url |-> IF header[s].url = Empty THEN Route[o].url ELSE header[s].url,
      worker |-> deriveWorkerSessionID(input[s].payment),
      work |-> input[s].payment]

Rewritten_KeepsID(s) ==
  LET o == extractStreamingOffering(s)
  IN [session |-> header[s].session, offering |-> o, url |-> Route[o].url,
      worker |-> deriveWorkerSessionID(input[s].payment),
      work |-> input[s].payment]

(* The headers the handler sets over whatever the gateway sent. *)
Rewritten(s) ==
  LET o == extractStreamingOffering(s)
  IN [session |-> extractGatewaySessionID(s), offering |-> o,
      url |-> Route[o].url,
      worker |-> deriveWorkerSessionID(input[s].payment),
      work |-> input[s].payment]

(* The checks passed: headers set, session opened at the daemon. *)
OpenAtDaemon(s) ==
  /\ pc[s] = "request" /\ Accepted(s) /\ Bindable(s)
  /\ header' = [header EXCEPT ![s] = Rewritten(s)]
  /\ daemon' = [daemon EXCEPT ![input[s].payment] = {Binding(s)}]
  /\ Goto(s, "pay")
  /\ UNCHANGED <<input, session, registry, rendering, endVars>>

(* OpenSession fails, or takes effect and its reply is lost. *)
OpenFails(s) ==
  /\ pc[s] = "request" /\ Accepted(s) /\ Bindable(s)
  /\ header' = [header EXCEPT ![s] = Rewritten(s)]
  /\ \/ daemon' = [daemon EXCEPT ![input[s].payment] = {Binding(s)}]
     \/ UNCHANGED daemon
  /\ Goto(s, "rejected")
  /\ UNCHANGED <<input, session, registry, rendering, endVars>>

PaymentFails(s) ==
  /\ pc[s] = "pay"
  /\ Goto(s, "rejected")
  /\ UNCHANGED <<input, header, session, daemon, registry, rendering, endVars>>

(* What the handler registers: its locals, not the headers it wrote. *)
Entry(s) ==
  [id |-> extractGatewaySessionID(s),
   worker |-> deriveWorkerSessionID(input[s].payment),
   work |-> input[s].payment, url |-> Route[extractStreamingOffering(s)].url]

(* ProcessPayment succeeds; Upsert; 202; the goroutine starts. *)
Accept(s) ==
  /\ pc[s] = "pay"
  /\ registry' = [registry EXCEPT ![Entry(s).id] = {Entry(s)}]
  /\ Goto(s, "serve")
  /\ UNCHANGED <<input, header, session, daemon, rendering, endVars>>

-----------------------------------------------------------------------------
(* vtuber_session.Serve. *)

extractSessionID(s) ==
  IF header[s].session # Empty THEN header[s].session ELSE Unknown

extractWorkerSessionID(s, fallback) ==
  IF header[s].worker # Empty THEN header[s].worker ELSE fallback

backendURLForRequest(u, fallback) == IF Trim[u] # Empty THEN Trim[u] ELSE fallback

Serve(s) ==
  /\ pc[s] = "serve"
  /\ session' = [session EXCEPT ![s] =
       [id |-> extractSessionID(s),
        worker |-> extractWorkerSessionID(s, extractSessionID(s)),
        work |-> header[s].work,
        url |-> backendURLForRequest(header[s].url, BackendURL)]]
  /\ Goto(s, "open")
  /\ UNCHANGED <<input, header, daemon, registry, rendering, endVars>>

(* HTTPBackend.OpenSession forwards the body: a 2xx means it is rendering. *)
OpenSession(s) ==
  /\ pc[s] = "open"
  /\ rendering' = rendering \cup {<<session[s].url, input[s].body.session>>}
  /\ Goto(s, "serving")
  /\ UNCHANGED <<input, header, session, daemon, registry, endVars>>

(* The session ends, or its backend refused it: PaymentSession.Close, whose *)
(* onClose deletes the entry under the gateway's id.                        *)
Return(s) ==
  /\ pc[s] \in {"open", "serving"}
  /\ registry' = [registry EXCEPT ![extractGatewaySessionID(s)] = {}]
  /\ Goto(s, "done")
  /\ UNCHANGED <<input, header, session, daemon, rendering, endVars>>

-----------------------------------------------------------------------------
(* The end handler. *)

EndNotFound(e) ==
  /\ epc[e] = "idle"
  /\ Trim[path[e]] = Empty \/ registry[Trim[path[e]]] = {}
  /\ GotoEnd(e, "refused")
  /\ UNCHANGED <<startVars, daemon, registry, rendering, path, found>>

EndLookup(e) ==
  /\ epc[e] = "idle"
  /\ Trim[path[e]] # Empty /\ registry[Trim[path[e]]] # {}
  /\ found' = [found EXCEPT ![e] = registry[Trim[path[e]]]]
  /\ GotoEnd(e, "stop")
  /\ UNCHANGED <<startVars, daemon, registry, rendering, path>>

(* sessionStopURL puts the escaped id into u.Path, which u.String escapes  *)
(* once more; the backend undoes one of the two.                           *)
sessionStopURL(u, id) == <<u, PathEscape[id]>>

(* TerminateSession stops the backend of the entry found.  The backend     *)
(* tears down a session it has; of one it has not it says "no active       *)
(* session" with a 409, which Close takes for success.                     *)
StopBackend_OtherURL(e) ==
  /\ epc[e] = "stop"
  /\ \E i \in found[e] :
       rendering' = rendering \ {sessionStopURL(BackendURL, Trim[path[e]])}
  /\ GotoEnd(e, "close")
  /\ UNCHANGED <<startVars, daemon, registry, path, found>>

StopBackend(e) ==
  /\ epc[e] = "stop"
  /\ \E i \in found[e] :
       rendering' = rendering \ {sessionStopURL(i.url, Trim[path[e]])}
  /\ GotoEnd(e, "close")
  /\ UNCHANGED <<startVars, daemon, registry, path, found>>

(* Any other status, or no answer: 502, and nothing else is done. *)
StopFails(e) ==
  /\ epc[e] = "stop"
  /\ GotoEnd(e, "refused")
  /\ UNCHANGED <<startVars, daemon, registry, rendering, path, found>>

(* CloseSession at the daemon, then the entry goes. *)
EndSession(e) ==
  /\ epc[e] = "close"
  /\ registry' = [registry EXCEPT ![Trim[path[e]]] = {}]
  /\ GotoEnd(e, "ended")
  /\ UNCHANGED <<startVars, daemon, rendering, path, found>>

CloseFails(e) ==
  /\ epc[e] = "close"
  /\ GotoEnd(e, "refused")
  /\ UNCHANGED <<startVars, daemon, registry, rendering, path, found>>

-----------------------------------------------------------------------------
Next ==
  \/ \E s \in Starts :
       \/ Reject(s) \/ OpenAtDaemon(s) \/ OpenFails(s) \/ PaymentFails(s)
       \/ Accept(s) \/ Serve(s) \/ OpenSession(s) \/ Return(s)
  \/ \E e \in Ends :
       \/ EndNotFound(e) \/ EndLookup(e) \/ StopBackend(e) \/ StopFails(e)
       \/ EndSession(e) \/ CloseFails(e)

Spec == Init /\ [][Next]_vars

-----------------------------------------------------------------------------
(* Properties. *)

Entries == [id : Text, worker : Text, work : Text, url : Text]

(* The headers, the registry with one entry at most for an id, and what    *)
(* Serve took from the request are of their types.                         *)
TypeOK ==
  /\ header \in [Starts -> RequestHeaders]
  /\ pc \in [Starts -> {"request", "pay", "rejected", "serve", "open",
                        "serving", "done"}]
  /\ \A w \in Works : Cardinality(daemon[w]) <= 1
  /\ \A g \in Text : registry[g] \subseteq Entries /\ Cardinality(registry[g]) <= 1
  /\ session \in [Starts -> Entries]
  /\ rendering \subseteq Text \X Text
  /\ epc \in [Ends -> {"idle", "refused", "stop", "close", "ended"}]

Served(s) == pc[s] \in {"open", "serving", "done"}

(* What Serve takes from the request is what the handler charged for,      *)
(* whatever X-Vtuber headers the gateway sent: the work id is its          *)
(* payment's, the daemon has it bound to an offering at that offering's    *)
(* price, and the backend is that offering's.                              *)
ServesWhatWasPaid ==
  \A s \in Starts : Served(s) =>
    /\ session[s].work = input[s].payment
    /\ \E b \in daemon[session[s].work] :
         /\ b.price = Route[b.offering].price
         /\ session[s].url = Route[b.offering].url

(* The ids of a session's events are those of its registry entry, so the   *)
(* id a gateway hears is one under which /topup and /end can find the      *)
(* session: trimmed and not blank, so that no fallback is ever taken.  A   *)
(* payment that no other start presents has no entry under another id.     *)
KnownByItsEntry ==
  \A s \in Starts : pc[s] \in {"open", "serving"} =>
    /\ Trimmed(session[s].id) /\ session[s].id # Empty
    /\ \A g \in Text : \A i \in registry[g] :
         /\ i.work = session[s].work
         /\ \/ g = session[s].id
            \/ \A o \in Starts \ {s} : input[o].payment # input[s].payment
         => i = session[s]

(* s is the session of the entry an end request found. *)
FoundBy(e, s) ==
  \E i \in found[e] : i.id = session[s].id /\ i.work = session[s].work

(* /end stops the session it found: after a stop that Close took for       *)
(* success, the backend does not render the session opened under the       *)
(* entry's ids, if its body names it by the gateway's id ("Close instructs *)
(* the backend to tear down one session", system.go).                      *)
StopTearsDown ==
  [][\A e \in Ends, s \in Starts :
       /\ epc[e] = "stop" /\ epc'[e] = "close" /\ FoundBy(e, s)
       /\ input[s].body.session = session[s].id
       => <<session[s].url, input[s].body.session>> \notin rendering']_vars

(* The same of every session, however its id came in: "the module forwards *)
(* body + relevant headers" (deps.go), so that the backend knows it.       *)
StopReachesAll ==
  [][\A e \in Ends, s \in Starts :
       epc[e] = "stop" /\ epc'[e] = "close" /\ FoundBy(e, s)
       => <<session[s].url, input[s].body.session>> \notin rendering']_vars
=============================================================================
