--------------------------- MODULE StreamingRoute ---------------------------
(***************************************************************************)
(* The streaming routes of the worker: POST /api/sessions/start            *)
(* (streamingMiddleware), .../topup and .../end, the paid-route semaphore, *)
(* the registry of streaming sessions and the backend, over the payment    *)
(* daemon.  Handlers run concurrently and interleave at every call that    *)
(* leaves the goroutine.  Serve is abstracted to what PaymentSession       *)
(* allows it: in-order debits, any reason to end, one Close.               *)
(*                                                                         *)
(* A definition named D_Flaw is definition D with a plausible bug; nothing *)
(* uses it but the mutation runs.                                          *)
(***************************************************************************)
EXTENDS PayeeDaemon, FiniteSets

CONSTANTS
  Starts, Ends, Topups, \* the requests
  Gateways,             \* gateway session ids
  Offering,
  Units,                \* work units per debit
  MaxConcurrent,        \* cap(paidSem)
  MaxDebits             \* bound: debits per session

NoEntry == "none"
Handlers == Starts \cup Ends \cup Topups

ASSUME RouteAssumption ==
  /\ IsFiniteSet(Starts) /\ Starts \cap (Ends \cup Topups) = {} /\ Ends \cap Topups = {}
  /\ Offering \in Offerings
  /\ Units \in Nat \ {0}
  /\ MaxConcurrent \in Nat \ {0}
  /\ MaxDebits \in Nat

VARIABLES
  work,     \* the work id each start request's payment hashes to
  payer,    \* the sender of each work id's payment blob
  gateway,  \* the gateway session id each request names
  pc,       \* where each handler is
  debitSeq, \* session.debitSeq of each start request's Serve
  paidSem,  \* len(paidSem)
  registry, \* streamingSessionRegistry.byGatewayID: gateway id -> work id
  info,     \* the registry entry an end or topup handler read
  backend,  \* gateway ids the session-runner is rendering
  server    \* "up", "draining" (srv.Shutdown), "exited"

requestVars == <<work, payer, gateway>>
vars == <<daemonVars, requestVars, pc, debitSeq, paidSem, registry, info, backend,
          server>>

(* Control points of a start request. *)
Handling == {"held", "opened", "paid"}
Serving  == {"backend", "running", "close", "onClose", "release"}
Replied  == {"busy", "rejected", "done", "ok", "notFound", "failed"}

Init ==
  /\ DaemonInit
  /\ work \in [Starts -> WorkIDs]
  /\ payer \in [WorkIDs -> Senders]
  /\ gateway \in [Handlers -> Gateways]
  /\ pc = [h \in Handlers |-> "idle"]
  /\ debitSeq = [s \in Starts |-> 0]
  /\ paidSem = 0
  /\ registry = [g \in Gateways |-> NoEntry]
  /\ info = [h \in Ends \cup Topups |-> NoEntry]
  /\ backend = {}
  /\ server = "up"

(* The places of the handlers, the registry, the semaphore and the backend *)
(* are of their types.                                                     *)
TypeOK ==
  /\ DaemonTypeOK
  /\ work \in [Starts -> WorkIDs]
  /\ payer \in [WorkIDs -> Senders]
  /\ gateway \in [Handlers -> Gateways]
  /\ pc \in [Handlers -> {"idle", "stop", "closing", "delete", "pay"}
                           \cup Handling \cup Serving \cup Replied]
  /\ debitSeq \in [Starts -> Nat]
  /\ paidSem \in 0..MaxConcurrent
  /\ registry \in [Gateways -> WorkIDs \cup {NoEntry}]
  /\ info \in [Ends \cup Topups -> WorkIDs \cup {NoEntry}]
  /\ backend \subseteq Gateways
  /\ server \in {"up", "draining", "exited"}

Running == server # "exited"
Goto(h, l) == pc' = [pc EXCEPT ![h] = l]

-----------------------------------------------------------------------------
(* streamingMiddleware. *)

(* The non-blocking send on the semaphore. *)
Acquire(s) ==
  /\ server = "up" /\ pc[s] = "idle"
  /\ \/ /\ paidSem < MaxConcurrent
        /\ paidSem' = paidSem + 1
        /\ Goto(s, "held")
     \/ /\ paidSem = MaxConcurrent
        /\ Goto(s, "busy")
        /\ UNCHANGED paidSem
  /\ UNCHANGED <<daemonVars, requestVars, debitSeq, registry, info, backend, server>>

Reject_Twice(s) == Goto(s, "rejected") /\ paidSem' = paidSem - 2

(* Every early return of the handler: the deferred release. *)
Reject(s) == Goto(s, "rejected") /\ paidSem' = paidSem - 1

(* Body, payment header, session id, offering, lookup or price refused. *)
Invalid(s) ==
  /\ Running /\ pc[s] = "held"
  /\ Reject(s)
  /\ UNCHANGED <<daemonVars, requestVars, debitSeq, registry, info, backend, server>>

Open_Registers(s) ==
  /\ Running /\ pc[s] = "held"
  /\ OpenSession(work[s], Offering)
  /\ registry' = [registry EXCEPT ![gateway[s]] = work[s]]
  /\ Goto(s, "opened")
  /\ UNCHANGED <<requestVars, debitSeq, paidSem, info, backend, server>>

Open(s) ==
  /\ Running /\ pc[s] = "held"
  /\ OpenSession(work[s], Offering)
  /\ Goto(s, "opened")
  /\ UNCHANGED <<requestVars, debitSeq, paidSem, registry, info, backend, server>>

(* Refused, failed, or applied with the reply lost. *)
OpenFails(s) ==
  /\ Running /\ pc[s] = "held"
  /\ OpenSession(work[s], Offering) \/ UNCHANGED daemonVars
  /\ Reject(s)
  /\ UNCHANGED <<requestVars, debitSeq, registry, info, backend, server>>

Pay(s) ==
  /\ Running /\ pc[s] = "opened"
  /\ \E ev \in Credits : ProcessPayment(work[s], payer[work[s]], ev)
  /\ Goto(s, "paid")
  /\ UNCHANGED <<requestVars, debitSeq, paidSem, registry, info, backend, server>>

PayFails(s) ==
  /\ Running /\ pc[s] = "opened"
  /\ \/ \E ev \in Credits : ProcessPayment(work[s], payer[work[s]], ev)
     \/ UNCHANGED daemonVars
  /\ Reject(s)
  /\ UNCHANGED <<requestVars, debitSeq, registry, info, backend, server>>

Accept_DebitsUpfront(s) ==
  /\ Running /\ pc[s] = "paid"
  /\ DebitBalance(work[s], payer[work[s]], Units, 1)
  /\ IF DebitReply(work[s], Units, 1) <= 0
     THEN Reject(s) /\ UNCHANGED registry
     ELSE /\ registry' = [registry EXCEPT ![gateway[s]] = work[s]]
          /\ Goto(s, "backend") /\ UNCHANGED paidSem
  /\ UNCHANGED <<requestVars, debitSeq, info, backend, server>>

(* Upsert, 202, and the hand-over of the slot to the session goroutine. *)
Accept(s) ==
  /\ Running /\ pc[s] = "paid"
  /\ registry' = [registry EXCEPT ![gateway[s]] = work[s]]
  /\ Goto(s, "backend")
  /\ UNCHANGED <<daemonVars, requestVars, debitSeq, paidSem, info, backend, server>>

-----------------------------------------------------------------------------
(* The session goroutine: Serve, then the release of the slot. *)
BackendOpens(s) ==
  /\ Running /\ pc[s] = "backend"
  /\ backend' = backend \cup {gateway[s]}
  /\ Goto(s, "running")
  /\ UNCHANGED <<daemonVars, requestVars, debitSeq, paidSem, registry, info, server>>

(* Refused or failed, or opened with the reply lost. *)
BackendFails(s) ==
  /\ Running /\ pc[s] = "backend"
  /\ backend' \in {backend, backend \cup {gateway[s]}}
  /\ Goto(s, "close")
  /\ UNCHANGED <<daemonVars, requestVars, debitSeq, paidSem, registry, info, server>>

Debit_OffByOne(s) ==
  /\ Running /\ pc[s] = "running" /\ debitSeq[s] < MaxDebits
  /\ DebitBalance(work[s], payer[work[s]], Units, debitSeq[s])
  /\ debitSeq' = [debitSeq EXCEPT ![s] = @ + 1]
  /\ UNCHANGED <<requestVars, pc, paidSem, registry, info, backend, server>>

(* Whatever the balance: the client main.go wires loses its sign. *)
Debit(s) ==
  /\ Running /\ pc[s] = "running" /\ debitSeq[s] < MaxDebits
  /\ DebitBalance(work[s], payer[work[s]], Units, debitSeq[s] + 1)
  /\ debitSeq' = [debitSeq EXCEPT ![s] = @ + 1]
  /\ UNCHANGED <<requestVars, pc, paidSem, registry, info, backend, server>>

(* The debit is applied and every reply lost, until the budget is spent. *)
DebitLost(s) ==
  /\ Running /\ pc[s] = "running" /\ debitSeq[s] < MaxDebits
  /\ DebitBalance(work[s], payer[work[s]], Units, debitSeq[s] + 1)
  /\ Goto(s, "close")
  /\ UNCHANGED <<requestVars, debitSeq, paidSem, registry, info, backend, server>>

(* Any other end: session.end, grace expiry, retry budget, panic; and a    *)
(* balance below zero, with a client that keeps its sign.                  *)
ServeEnds(s) ==
  /\ Running /\ pc[s] = "running"
  /\ Goto(s, "close")
  /\ UNCHANGED <<daemonVars, requestVars, debitSeq, paidSem, registry, info, backend,
                 server>>

AdapterClose_ErrorSkipsOnClose(s) ==
  /\ Running /\ pc[s] = "close"
  /\ \/ CloseSession(work[s], payer[work[s]]) /\ Goto(s, "onClose")
     \/ UNCHANGED daemonVars /\ Goto(s, "release")
  /\ UNCHANGED <<requestVars, debitSeq, paidSem, registry, info, backend, server>>

(* paymentSessionAdapter.Close: CloseSession once, then onClose whatever it *)
(* returned.                                                                *)
AdapterClose(s) ==
  /\ Running /\ pc[s] = "close"
  /\ CloseSession(work[s], payer[work[s]]) \/ UNCHANGED daemonVars
  /\ Goto(s, "onClose")
  /\ UNCHANGED <<requestVars, debitSeq, paidSem, registry, info, backend, server>>

OnClose(s) ==
  /\ Running /\ pc[s] = "onClose"
  /\ registry' = [registry EXCEPT ![gateway[s]] = NoEntry]
  /\ Goto(s, "release")
  /\ UNCHANGED <<daemonVars, requestVars, debitSeq, paidSem, info, backend, server>>

ReleaseSem_Leaks(s) ==
  /\ Running /\ pc[s] = "release"
  /\ Goto(s, "done")
  /\ UNCHANGED <<daemonVars, requestVars, debitSeq, paidSem, registry, info, backend,
                 server>>

ReleaseSem(s) ==
  /\ Running /\ pc[s] = "release"
  /\ paidSem' = paidSem - 1
  /\ Goto(s, "done")
  /\ UNCHANGED <<daemonVars, requestVars, debitSeq, registry, info, backend, server>>

-----------------------------------------------------------------------------
(* streamingEndHandler and streamingTopupHandler: read the registry, then  *)
(* act on what was read.                                                   *)
Get(h, found) ==
  /\ server = "up" /\ pc[h] = "idle"
  /\ info' = [info EXCEPT ![h] = registry[gateway[h]]]
  /\ Goto(h, IF registry[gateway[h]] = NoEntry THEN "notFound" ELSE found)
  /\ UNCHANGED <<daemonVars, requestVars, debitSeq, paidSem, registry, backend, server>>

EndGet(e) == Get(e, "stop")

EndStops_DeletesFirst(e) ==
  /\ Running /\ pc[e] = "stop"
  /\ backend' = backend \ {gateway[e]}
  /\ registry' = [registry EXCEPT ![gateway[e]] = NoEntry]
  /\ Goto(e, "closing")
  /\ UNCHANGED <<daemonVars, requestVars, debitSeq, paidSem, info, server>>

(* TerminateSession; a backend with no such session counts as stopped. *)
EndStops(e) ==
  /\ Running /\ pc[e] = "stop"
  /\ backend' = backend \ {gateway[e]}
  /\ Goto(e, "closing")
  /\ UNCHANGED <<daemonVars, requestVars, debitSeq, paidSem, registry, info, server>>

EndStopFails(e) ==
  /\ Running /\ pc[e] = "stop"
  /\ backend' \in {backend, backend \ {gateway[e]}}
  /\ Goto(e, "failed")
  /\ UNCHANGED <<daemonVars, requestVars, debitSeq, paidSem, registry, info, server>>

EndCloses_Skipped(e) ==
  /\ Running /\ pc[e] = "closing"
  /\ Goto(e, "delete")
  /\ UNCHANGED <<daemonVars, requestVars, debitSeq, paidSem, registry, info, backend,
                 server>>

EndCloses(e) ==
  /\ Running /\ pc[e] = "closing"
  /\ CloseSession(info[e], payer[info[e]])
  /\ Goto(e, "delete")
  /\ UNCHANGED <<requestVars, debitSeq, paidSem, registry, info, backend, server>>

EndCloseFails(e) ==
  /\ Running /\ pc[e] = "closing"
  /\ CloseSession(info[e], payer[info[e]]) \/ UNCHANGED daemonVars
  /\ Goto(e, "failed")
  /\ UNCHANGED <<requestVars, debitSeq, paidSem, registry, info, backend, server>>

EndDeletes(e) ==
  /\ Running /\ pc[e] = "delete"
  /\ registry' = [registry EXCEPT ![gateway[e]] = NoEntry]
  /\ Goto(e, "ok")
  /\ UNCHANGED <<daemonVars, requestVars, debitSeq, paidSem, info, backend, server>>

TopupGet(t) == Get(t, "pay")

TopupPays(t) ==
  /\ Running /\ pc[t] = "pay"
  /\ \E s \in Senders, ev \in Credits : ProcessPayment(info[t], s, ev)
  /\ Goto(t, "ok")
  /\ UNCHANGED <<requestVars, debitSeq, paidSem, registry, info, backend, server>>

(* No or bad payment header, refused, failed, or the reply lost. *)
TopupFails(t) ==
  /\ Running /\ pc[t] = "pay"
  /\ \/ \E s \in Senders, ev \in Credits : ProcessPayment(info[t], s, ev)
     \/ UNCHANGED daemonVars
  /\ Goto(t, "failed")
  /\ UNCHANGED <<requestVars, debitSeq, paidSem, registry, info, backend, server>>

-----------------------------------------------------------------------------
(* main.run: the signal stops the listener; the process exits when the     *)
(* handlers have drained or the deadline passes, or at once when a         *)
(* listener fails, whatever Serve is doing.                                *)
Shutdown ==
  /\ server = "up"
  /\ server' = "draining"
  /\ UNCHANGED <<daemonVars, requestVars, pc, debitSeq, paidSem, registry, info, backend>>

Exit ==
  /\ Running
  /\ server' = "exited"
  /\ UNCHANGED <<daemonVars, requestVars, pc, debitSeq, paidSem, registry, info, backend>>

Start(s) ==
  \/ Acquire(s) \/ Invalid(s) \/ Open(s) \/ OpenFails(s) \/ Pay(s) \/ PayFails(s)
  \/ Accept(s)
Session(s) ==
  \/ BackendOpens(s) \/ BackendFails(s) \/ Debit(s) \/ DebitLost(s) \/ ServeEnds(s)
  \/ AdapterClose(s) \/ OnClose(s) \/ ReleaseSem(s)
End(e) ==
  \/ EndGet(e) \/ EndStops(e) \/ EndStopFails(e) \/ EndCloses(e) \/ EndCloseFails(e)
  \/ EndDeletes(e)
Topup(t) == TopupGet(t) \/ TopupPays(t) \/ TopupFails(t)

Next ==
  \/ \E s \in Starts : Start(s) \/ Session(s)
  \/ \E e \in Ends : End(e)
  \/ \E t \in Topups : Topup(t)
  \/ Shutdown \/ Exit

(* A handler in flight makes progress, as every call it makes returns; a   *)
(* session ends at some point (SessionEnds of VtuberSession).  Requests,   *)
(* debits and shutdown need not happen.                                    *)
Fairness ==
  /\ \A s \in Starts :
       /\ WF_vars(pc[s] # "idle" /\ Start(s))
       /\ WF_vars(Session(s) /\ (pc[s] = "running" => pc'[s] # "running"))
  /\ \A e \in Ends : WF_vars(pc[e] # "idle" /\ End(e))
  /\ \A t \in Topups : WF_vars(pc[t] # "idle" /\ Topup(t))

Spec == Init /\ [][Next]_vars
FairSpec == Spec /\ Fairness

-----------------------------------------------------------------------------
(* Properties. *)

(* The paid-route semaphore counts exactly the start handlers and the      *)
(* session goroutines alive: the hand-over of the slot from the handler to *)
(* the goroutine neither leaks it nor releases it twice.                   *)
SlotsConserved ==
  paidSem = Cardinality({s \in Starts : pc[s] \in Handling \cup Serving})

(* A registry entry always names a session whose goroutine is still alive  *)
(* and will delete it, whichever sessions reused the gateway id before.    *)
NoRegistryLeak ==
  \A g \in Gateways : registry[g] # NoEntry =>
    \E s \in Starts : /\ gateway[s] = g /\ work[s] = registry[g]
                      /\ pc[s] \in Serving \ {"release"}

(* What /end and /topup act on was paid for: an entry they read names a    *)
(* session opened for the offering and bound to the sender of its payment. *)
EntriesArePaid ==
  \A h \in Ends \cup Topups : info[h] # NoEntry =>
    /\ status[info[h]] # "none"
    /\ binding[info[h]] = Offering
    /\ sender[info[h]] = payer[info[h]]

Others(s) == Starts \ {s}

(* While Serve runs, a session that shares its gateway id with no other    *)
(* start can be topped up and ended through the registry, until an /end    *)
(* for it has reached its last step.                                       *)
Addressable ==
  \A s \in Starts :
    /\ pc[s] \in {"backend", "running", "close"}
    /\ \A o \in Others(s) : gateway[o] # gateway[s]
    /\ \A e \in Ends : gateway[e] = gateway[s] => pc[e] # "ok"
    => registry[gateway[s]] = work[s]

(* A session whose payment no other start presents is charged for its own  *)
(* debits and nothing else: the sequence numbers on the ledger are those   *)
(* its Serve used, and the balance is the credit less their cost.          *)
ChargedForItself ==
  \A s \in Starts : (\A o \in Others(s) : work[o] # work[s]) =>
    \E n \in {debitSeq[s], debitSeq[s] + 1} :
      /\ DOMAIN debitReplays[work[s]] = 1..n
      /\ balances[work[s]] = credited[work[s]] - n * PriceOf[Offering] * Units

(* "No upfront Debit before invoking the module" (streamingMiddleware): a  *)
(* payment is charged only once a start that presents it was accepted, so  *)
(* one whose requests were all refused, even with the session opened and   *)
(* credited at the daemon and the reply lost, costs its sender nothing.    *)
RefusedNotCharged ==
  \A w \in WorkIDs :
    DOMAIN debitReplays[w] # {} \/ balances[w] # credited[w] =>
      \E s \in Starts : work[s] = w /\ pc[s] \in Serving \cup {"done"}

(* After /end answered "ended" nothing moves the session's money: neither  *)
(* a Serve still ticking nor a top-up that read the registry before.       *)
SettledAfterEnd ==
  [][\A e \in Ends : pc[e] = "ok" =>
       UNCHANGED <<balances[info[e]], credited[info[e]]>>]_vars

(* Every slot comes back: once requests stop, the semaphore is empty       *)
(* unless the process has exited, whichever calls failed on the way.       *)
SlotsReturned == <>[](server = "exited" \/ paidSem = 0)

-----------------------------------------------------------------------------
(* What comments of the code say of the routes; the runs that check these  *)
(* show behaviours that contradict them.                                   *)

(* "gateway-triggered end requests tear down the render runtime before the *)
(* worker releases payment state" (module.go): when /end has answered, the *)
(* backend renders for the session no more.                                *)
EndTearsDown == \A e \in Ends : pc[e] = "ok" => gateway[e] \notin backend

(* Serve returns "context-cancelled (worker shutdown)" and closes the      *)
(* payment session on every path: no session is still running when the     *)
(* process exits.                                                          *)
ShutdownEndsSessions ==
  server = "exited" => \A s \in Starts : pc[s] \notin {"backend", "running", "close"}

(* "session correlation for Pattern B topups (`gateway_session_id ->       *)
(* worker_session_id -> work_id`)" (exec plan 0002): an entry is deleted   *)
(* by the close of its own session or by an /end that found it.  Upsert    *)
(* and Delete know the gateway's id alone, so of two sessions under one id *)
(* the first to close deletes the entry of the other.                      *)
EntryIsItsOwn ==
  [][\A g \in Gateways : registry[g] # NoEntry /\ registry'[g] = NoEntry =>
       \/ \E s \in Starts : gateway[s] = g /\ work[s] = registry[g] /\ OnClose(s)
       \/ \E e \in Ends : gateway[e] = g /\ info[e] = registry[g] /\ EndDeletes(e)]_vars
=============================================================================
