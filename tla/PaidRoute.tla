----------------------------- MODULE PaidRoute -----------------------------
(***************************************************************************)
(* One-shot paid routes: paymentMiddleware over the payment daemon.  Many  *)
(* requests run it concurrently, sharing the paid-route semaphore, the     *)
(* in-flight gauge and, when they present the same payment, one ledger     *)
(* session.                                                                *)
(*                                                                         *)
(* A definition named D_Flaw is definition D with a plausible bug; nothing *)
(* uses it but the mutation runs.                                          *)
(***************************************************************************)
EXTENDS PayeeDaemon, FiniteSets

CONSTANTS
  Requests,
  MaxConcurrent, \* cap(paidSem)
  Estimates,     \* what EstimateWorkUnits may return
  Actuals,       \* what Module.Serve may return
  SignedClient   \* does the daemon client keep a balance's sign?  The one
                 \* main.go wires does not.

ASSUME PaidAssumption ==
  /\ IsFiniteSet(Requests)
  /\ MaxConcurrent \in Nat \ {0}
  /\ Estimates \subseteq Int /\ Actuals \subseteq Nat
  /\ SignedClient \in BOOLEAN

VARIABLES
  work, model, \* the payment's work id and the model of each request
  payer,       \* the sender of each work id's payment blob
  pc,
  estimate, actual,
  sw,          \* statusWriter.status; 0 before a write
  outcome,     \* the bucket IncRequest counted the request in, or "none"
  paidSem,     \* len(paidSem)
  depth,       \* the len(sem) each request is about to report
  inflight,    \* the in-flight gauge
  uncollected  \* history: the requests whose reconciling debit failed

requestVars == <<work, model, payer>>
serveVars == <<estimate, actual>>
gaugeVars == <<depth, inflight>>
vars == <<daemonVars, requestVars, serveVars, pc, sw, outcome, paidSem, gaugeVars,
          uncollected>>

Outcomes == {"2xx", "402", "4xx", "5xx", "canceled"}

Init ==
  /\ DaemonInit
  /\ work \in [Requests -> WorkIDs]
  /\ model \in [Requests -> Offerings]
  /\ payer \in [WorkIDs -> Senders]
  /\ pc = [r \in Requests |-> "idle"]
  /\ estimate = [r \in Requests |-> 0] /\ actual = [r \in Requests |-> 0]
  /\ sw = [r \in Requests |-> 0]
  /\ outcome = [r \in Requests |-> "none"]
  /\ paidSem = 0
  /\ depth = [r \in Requests |-> 0] /\ inflight = 0
  /\ uncollected = {}

(* The places and the numbers of paymentMiddleware are of their types.     *)
TypeOK ==
  /\ DaemonTypeOK
  /\ pc \in [Requests -> {"idle", "entered", "setIn", "held", "opened", "paid", "debit",
                          "serve", "reconcile", "deferred", "release", "left", "setOut",
                          "done"}]
  /\ estimate \in [Requests -> Nat] /\ actual \in [Requests -> Nat]
  /\ sw \in [Requests -> {0, 200, 400, 402, 404, 500, 502, 503}]
  /\ outcome \in [Requests -> Outcomes \cup {"none"}]
  /\ paidSem \in 0..MaxConcurrent
  /\ depth \in [Requests -> 0..MaxConcurrent] /\ inflight \in 0..MaxConcurrent
  /\ uncollected \subseteq Requests

Goto(r, l) == pc' = [pc EXCEPT ![r] = l]

-----------------------------------------------------------------------------
(* classifyOutcome: a cancelled request context wins over the status. *)
classifyOutcome(cancelled, status_) ==
  CASE cancelled            -> "canceled"
    [] status_ \in 200..299 -> "2xx"
    [] status_ = 402        -> "402"
    [] status_ \in 400..499 -> "4xx"
    [] OTHER                -> "5xx"

(* The concurrency gate: a slot, or 503 counted at once. *)
Acquire(r) ==
  /\ pc[r] = "idle"
  /\ \/ /\ paidSem < MaxConcurrent
        /\ paidSem' = paidSem + 1
        /\ Goto(r, "entered")
        /\ UNCHANGED <<sw, outcome>>
     \/ /\ paidSem = MaxConcurrent
        /\ sw' = [sw EXCEPT ![r] = 503]
        /\ outcome' = [outcome EXCEPT ![r] = "5xx"]
        /\ Goto(r, "done")
        /\ UNCHANGED paidSem
  /\ UNCHANGED <<daemonVars, requestVars, serveVars, gaugeVars, uncollected>>

(* SetInflightRequests(len(sem)): the read, then the store. *)
ReadDepth(r) ==
  /\ pc[r] \in {"entered", "left"}
  /\ depth' = [depth EXCEPT ![r] = paidSem]
  /\ Goto(r, IF pc[r] = "entered" THEN "setIn" ELSE "setOut")
  /\ UNCHANGED <<daemonVars, requestVars, serveVars, sw, outcome, paidSem, inflight,
                 uncollected>>

SetInflightRequests(r) ==
  /\ pc[r] \in {"setIn", "setOut"}
  /\ inflight' = depth[r]
  /\ Goto(r, IF pc[r] = "setIn" THEN "held" ELSE "done")
  /\ UNCHANGED <<daemonVars, requestVars, serveVars, sw, outcome, paidSem, depth,
                 uncollected>>

(* writeJSONError and return. *)
Refuse(r, code) ==
  /\ sw' = [sw EXCEPT ![r] = code]
  /\ Goto(r, "deferred")
  /\ UNCHANGED <<requestVars, serveVars, outcome, paidSem, gaugeVars, uncollected>>

Proceed(r, l) ==
  /\ Goto(r, l)
  /\ UNCHANGED <<requestVars, serveVars, sw, outcome, paidSem, gaugeVars, uncollected>>

(* Body, payment header, model, route or price refused. *)
Invalid(r) ==
  /\ pc[r] = "held"
  /\ \E code \in {400, 402, 404, 500} : Refuse(r, code)
  /\ UNCHANGED daemonVars

Open(r) ==
  /\ pc[r] = "held"
  /\ OpenSession(work[r], model[r])
  /\ Proceed(r, "opened")

OpenFails(r) ==
  /\ pc[r] = "held"
  /\ OpenSession(work[r], model[r]) \/ UNCHANGED daemonVars
  /\ Refuse(r, 402)

Pay(r) ==
  /\ pc[r] = "opened"
  /\ \E ev \in Credits : ProcessPayment(work[r], payer[work[r]], ev)
  /\ Proceed(r, "paid")

PayFails(r) ==
  /\ pc[r] = "opened"
  /\ \/ \E ev \in Credits : ProcessPayment(work[r], payer[work[r]], ev)
     \/ UNCHANGED daemonVars
  /\ Refuse(r, 402)

Estimate_Negative(r) ==
  /\ pc[r] = "paid"
  /\ \E e \in Estimates : estimate' = [estimate EXCEPT ![r] = e]
  /\ Goto(r, "debit")
  /\ UNCHANGED <<daemonVars, requestVars, actual, sw, outcome, paidSem, gaugeVars,
                 uncollected>>

(* EstimateWorkUnits; a negative estimate is taken as none. *)
Estimate(r) ==
  /\ pc[r] = "paid"
  /\ \E e \in Estimates : estimate' = [estimate EXCEPT ![r] = IF e < 0 THEN 0 ELSE e]
  /\ Goto(r, "debit")
  /\ UNCHANGED <<daemonVars, requestVars, actual, sw, outcome, paidSem, gaugeVars,
                 uncollected>>

EstimateFails(r) ==
  /\ pc[r] = "paid"
  /\ Refuse(r, 400)
  /\ UNCHANGED daemonVars

(* The gRPC client rebuilds the balance from bytes that carry no sign. *)
DecodeBalance(b) == IF SignedClient \/ b >= 0 THEN b ELSE -b

(* The upfront debit, and the refusal of what it overdraws. *)
Debit(r) ==
  /\ pc[r] = "debit"
  /\ DebitBalance(work[r], payer[work[r]], estimate[r], 1)
  /\ IF DecodeBalance(DebitReply(work[r], estimate[r], 1)) < 0
     THEN Refuse(r, 402)
     ELSE Proceed(r, "serve")

DebitFails_Serves(r) ==
  /\ pc[r] = "debit"
  /\ \/ DebitBalance(work[r], payer[work[r]], estimate[r], 1)
     \/ UNCHANGED daemonVars
  /\ Proceed(r, "serve")

DebitFails(r) ==
  /\ pc[r] = "debit"
  /\ \/ DebitBalance(work[r], payer[work[r]], estimate[r], 1)
     \/ UNCHANGED daemonVars
  /\ Refuse(r, 502)

(* The status a module leaves: nothing, a success, or an error of its own, *)
(* which may read like a refusal of the middleware.                        *)
Written == {0, 200, 402}

(* Module.Serve writes the response and returns the work done. *)
Serve(r) ==
  /\ pc[r] = "serve"
  /\ \E n \in Actuals, code \in Written :
       /\ actual' = [actual EXCEPT ![r] = n]
       /\ sw' = [sw EXCEPT ![r] = code]
       /\ Goto(r, IF n > estimate[r] THEN "reconcile" ELSE "deferred")
  /\ UNCHANGED <<daemonVars, requestVars, estimate, outcome, paidSem, gaugeVars,
                 uncollected>>

(* Serve fails, perhaps after part of a response. *)
ServeFails(r) ==
  /\ pc[r] = "serve"
  /\ \E code \in Written : Refuse(r, code)
  /\ UNCHANGED daemonVars

Reconcile_WholeActual(r) ==
  /\ pc[r] = "reconcile"
  /\ DebitBalance(work[r], payer[work[r]], actual[r], 2)
  /\ Proceed(r, "deferred")

(* The reconciling debit; its failure is only logged, and one whose reply  *)
(* is lost leaves no other trace than one that succeeds.                   *)
Reconcile(r) ==
  /\ pc[r] = "reconcile"
  /\ DebitBalance(work[r], payer[work[r]], actual[r] - estimate[r], 2)
  /\ Proceed(r, "deferred")

ReconcileFails(r) ==
  /\ pc[r] = "reconcile"
  /\ uncollected' = uncollected \cup {r}
  /\ Goto(r, "deferred")
  /\ UNCHANGED <<daemonVars, requestVars, serveVars, sw, outcome, paidSem, gaugeVars>>

RecordOutcome_OnlyWritten(r) ==
  /\ pc[r] = "deferred"
  /\ \E cancelled \in BOOLEAN :
       outcome' = [outcome EXCEPT
                     ![r] = IF sw[r] = 0 THEN @ ELSE classifyOutcome(cancelled, sw[r])]
  /\ Goto(r, "release")
  /\ UNCHANGED <<daemonVars, requestVars, serveVars, sw, paidSem, gaugeVars, uncollected>>

(* Deferred calls, last first: the outcome, then the slot. *)
RecordOutcome(r) ==
  /\ pc[r] = "deferred"
  /\ \E cancelled \in BOOLEAN :
       outcome' = [outcome EXCEPT ![r] = classifyOutcome(cancelled, sw[r])]
  /\ Goto(r, "release")
  /\ UNCHANGED <<daemonVars, requestVars, serveVars, sw, paidSem, gaugeVars, uncollected>>

Release_Leaks(r) ==
  /\ pc[r] = "release"
  /\ Goto(r, "left")
  /\ UNCHANGED <<daemonVars, requestVars, serveVars, sw, outcome, paidSem, gaugeVars,
                 uncollected>>

Release(r) ==
  /\ pc[r] = "release"
  /\ paidSem' = paidSem - 1
  /\ Goto(r, "left")
  /\ UNCHANGED <<daemonVars, requestVars, serveVars, sw, outcome, gaugeVars, uncollected>>

paymentMiddleware(r) ==
  \/ ReadDepth(r) \/ SetInflightRequests(r)
  \/ Invalid(r) \/ Open(r) \/ OpenFails(r) \/ Pay(r) \/ PayFails(r)
  \/ Estimate(r) \/ EstimateFails(r) \/ Debit(r) \/ DebitFails(r)
  \/ Serve(r) \/ ServeFails(r) \/ Reconcile(r) \/ ReconcileFails(r)
  \/ RecordOutcome(r) \/ Release(r)

Next == \E r \in Requests : Acquire(r) \/ paymentMiddleware(r)

Spec == Init /\ [][Next]_vars

(* Every call a request in flight makes returns. *)
FairSpec == Spec /\ \A r \in Requests : WF_vars(paymentMiddleware(r))

-----------------------------------------------------------------------------
(* Properties. *)

Returned == {"deferred", "release", "left", "setOut", "done"}
Served(r) == pc[r] \in {"serve", "reconcile"} \/ outcome[r] = "2xx"

(* No request reaches the module, and none is counted as a success, unless *)
(* its payment's upfront debit is on the ledger and was answered with a    *)
(* balance the client read as zero or more; and once a request has         *)
(* returned, the work beyond its estimate is on the ledger too, unless the *)
(* reconciling debit itself failed.  Also when requests share a payment.   *)
ServedWasCharged ==
  \A r \in Requests : LET replies == debitReplays[work[r]]
    IN /\ Served(r) => 1 \in DOMAIN replies /\ DecodeBalance(replies[1]) >= 0
       /\ pc[r] \in Returned /\ actual[r] > estimate[r] /\ r \notin uncollected =>
            2 \in DOMAIN replies

(* A payment pays for one upfront estimate and for one request's work      *)
(* beyond its estimate, of the requests that present it, however many they *)
(* are and in whatever order their debits arrive: the others are answered  *)
(* by replay.  One request alone pays for exactly what it did.             *)
ChargedForWork ==
  \A w \in WorkIDs :
    LET seqs == DOMAIN debitReplays[w]
        spent == credited[w] - balances[w]
        presenting == {r \in Requests : work[r] = w}
    IN  \/ seqs = {} /\ spent = 0
        \/ seqs = {1} /\ \E r \in presenting : spent = PriceOf[model[r]] * estimate[r]
        \/ /\ seqs = {1, 2}
           /\ \E r, o \in presenting :
                /\ actual[o] > estimate[o]
                /\ spent = PriceOf[model[r]] * (estimate[r] + actual[o] - estimate[o])

(* The semaphore counts the requests between the gate and the deferred     *)
(* release.                                                                *)
SlotsConserved ==
  paidSem = Cardinality({r \in Requests : pc[r] \notin {"idle", "left", "setOut", "done"}})

(* Every request that came in finishes, gives its slot back and is counted *)
(* in one outcome bucket, whatever the module wrote or left unwritten.     *)
SlotsReturned ==
  <>[](/\ paidSem = 0
       /\ \A r \in Requests : pc[r] # "idle" => pc[r] = "done" /\ outcome[r] # "none")

-----------------------------------------------------------------------------
(* What comments of the code say of the paid routes, or what their payer   *)
(* would expect; these do not hold.                                        *)

(* "Callers MUST treat a negative balance as insufficient and refuse to    *)
(* serve further work" (types.go): a request served left its payment's     *)
(* balance at zero or more.                                                *)
ServedWasPaid ==
  \A r \in Requests : Served(r) =>
    1 \in DOMAIN debitReplays[work[r]] /\ debitReplays[work[r]][1] >= 0

(* Two requests served on one payment are both charged for. *)
EachIsCharged ==
  \A r, o \in Requests : r # o /\ work[r] = work[o] /\ Served(r) /\ Served(o) =>
    credited[work[r]] - balances[work[r]]
      >= PriceOf[model[r]] * (estimate[r] + estimate[o])

(* "SetInflightRequests reports the live semaphore depth" (recorder.go):   *)
(* with no request in flight the gauge reads zero.                         *)
InflightIsDepth ==
  (\A r \in Requests : pc[r] \in {"idle", "done"}) => inflight = paidSem
=============================================================================
