-------------------------- MODULE PaidRouteProofs --------------------------
(***************************************************************************)
(* The slots of the semaphore, what a served request was charged with and  *)
(* what a payment is charged for, for any number of concurrent requests    *)
(* and payments.                                                           *)
(***************************************************************************)
EXTENDS PaidRoute, PayeeDaemonProofs

Step(r) == Acquire(r) \/ paymentMiddleware(r)

(* What the requests bring along does not change. *)
Requested ==
  /\ work \in [Requests -> WorkIDs] /\ model \in [Requests -> Offerings]
  /\ payer \in [WorkIDs -> Senders]

(* The places of a request before its upfront debit, and those at which it *)
(* calls the daemon.                                                       *)
Before == {"idle", "entered", "setIn", "held", "opened", "paid", "debit"}
Calling == {"opened", "paid", "debit", "serve", "reconcile"}

(* From OpenSession to its last call a request's session is bound to its   *)
(* model; it has done no work before Serve returns, and what it reconciles *)
(* is more than it estimated.                                              *)
CallingInv ==
  \A r \in Requests :
    /\ pc[r] \in Calling => status[work[r]] # "none" /\ binding[work[r]] = model[r]
    /\ pc[r] \in Before \cup {"serve"} => actual[r] = 0
    /\ pc[r] = "reconcile" => actual[r] > estimate[r]

(* A response the module began was charged for as one it is at; work       *)
(* beyond the estimate is on the ledger or its debit failed.               *)
Debited(w) == 1 \in DOMAIN debitReplays[w] /\ DecodeBalance(debitReplays[w][1]) >= 0

ServedInv ==
  \A r \in Requests :
    /\ pc[r] \in {"serve", "reconcile"} \/ sw[r] = 200 \/ outcome[r] = "2xx"
         => Debited(work[r])
    /\ pc[r] \in Returned /\ actual[r] > estimate[r] /\ r \notin uncollected
         => 2 \in DOMAIN debitReplays[work[r]]

(* What is on the ledger of a payment was put there by requests that have  *)
(* made their debits, so that what they were charged for is settled.       *)
Spent(w) == credited[w] - balances[w]
Price(r) == PriceOf[model[r]]

Opener(r, w) ==
  work[r] = w /\ pc[r] \notin Before /\ status[w] # "none" /\ binding[w] = model[r]
Reconciler(o, w) ==
  work[o] = w /\ pc[o] \notin Before \cup {"serve"} /\ actual[o] > estimate[o]

PaidFor(w) ==
  \/ DOMAIN debitReplays[w] = {} /\ Spent(w) = 0
  \/ /\ DOMAIN debitReplays[w] = {1}
     /\ \E r \in Requests : Opener(r, w) /\ Spent(w) = Price(r) * estimate[r]
  \/ /\ DOMAIN debitReplays[w] = {1, 2}
     /\ \E r, o \in Requests :
          /\ Opener(r, w) /\ Reconciler(o, w)
          /\ Spent(w) = Price(r) * (estimate[r] + actual[o] - estimate[o])

ChargedInv == \A w \in WorkIDs : PaidFor(w)

(* The inductive invariant. *)
PaidInv ==
  TypeOK /\ Requested /\ SlotsConserved /\ CallingInv /\ ServedInv /\ ChargedInv

-----------------------------------------------------------------------------
(* The steps. *)

(* A step of one request leaves the others where they are. *)
Others(r) ==
  /\ UNCHANGED <<work, model, payer>> /\ uncollected \subseteq uncollected'
  /\ \A o \in Requests \ {r} :
       /\ pc'[o] = pc[o] /\ sw'[o] = sw[o] /\ outcome'[o] = outcome[o]
       /\ estimate'[o] = estimate[o] /\ actual'[o] = actual[o]

(* The life of a request, step by step, but for its calls of the daemon. *)
Keeps(r) == estimate'[r] = estimate[r] /\ actual'[r] = actual[r] /\ outcome'[r] = outcome[r]

Admitted(r) ==
  /\ pc[r] = "idle" /\ estimate'[r] = estimate[r] /\ actual'[r] = actual[r]
  /\ UNCHANGED <<daemonVars, gaugeVars>>
  /\ \/ /\ pc'[r] = "entered" /\ sw'[r] = sw[r] /\ outcome'[r] = outcome[r]
        /\ paidSem < MaxConcurrent /\ paidSem' = paidSem + 1
     \/ /\ pc'[r] = "done" /\ sw'[r] = 503 /\ outcome'[r] = "5xx"
        /\ paidSem' = paidSem

Counted(r) ==
  /\ Keeps(r) /\ sw'[r] = sw[r] /\ UNCHANGED <<daemonVars, paidSem>>
  /\ <<pc[r], pc'[r]>> \in {<<"entered", "setIn">>, <<"setIn", "held">>,
                            <<"left", "setOut">>, <<"setOut", "done">>}

Refused(r) ==
  /\ pc[r] \in {"held", "opened", "paid", "debit", "serve"} /\ pc'[r] = "deferred"
  /\ Keeps(r) /\ UNCHANGED <<paidSem, gaugeVars>>
  /\ \/ sw'[r] \in {400, 402, 404, 500, 502}
     \/ pc[r] = "serve" /\ sw'[r] \in {0, 200, 402}

Advanced(r) ==
  /\ UNCHANGED <<paidSem, gaugeVars>> /\ outcome'[r] = outcome[r]
  /\ \/ /\ \/ pc[r] = "held" /\ pc'[r] = "opened" /\ Open(r)
           \/ pc[r] = "opened" /\ pc'[r] = "paid"
           \/ pc[r] = "debit" /\ pc'[r] = "serve" /\ Debit(r)
              /\ ~ (DecodeBalance(DebitReply(work[r], estimate[r], 1)) < 0)
           \/ pc[r] = "reconcile" /\ pc'[r] = "deferred"
              /\ (Reconcile(r) \/ r \in uncollected')
        /\ Keeps(r) /\ sw'[r] = sw[r]
     \/ /\ pc[r] = "paid" /\ pc'[r] = "debit" /\ UNCHANGED daemonVars
        /\ estimate'[r] \in Nat /\ actual'[r] = actual[r] /\ sw'[r] = sw[r]
     \/ /\ pc[r] = "serve" /\ UNCHANGED daemonVars
        /\ estimate'[r] = estimate[r] /\ actual'[r] \in Nat /\ sw'[r] \in {0, 200, 402}
        /\ \/ pc'[r] = "reconcile" /\ actual'[r] > estimate[r]
           \/ pc'[r] = "deferred" /\ ~ (actual'[r] > estimate[r])

Leaves(r) ==
  /\ estimate'[r] = estimate[r] /\ actual'[r] = actual[r] /\ sw'[r] = sw[r]
  /\ UNCHANGED <<daemonVars, gaugeVars>>
  /\ \/ /\ pc[r] = "deferred" /\ pc'[r] = "release" /\ UNCHANGED paidSem
        /\ outcome'[r] \in Outcomes /\ (outcome'[r] = "2xx" => sw[r] \in 200..299)
     \/ /\ pc[r] = "release" /\ pc'[r] = "left" /\ paidSem' = paidSem - 1
        /\ outcome'[r] = outcome[r]

(* These are all there is: a step is one of them, and of one request. *)
LEMMA Moves ==
  ASSUME TypeOK, NEW r \in Requests, Step(r)
  PROVE  /\ Others(r)
         /\ Admitted(r) \/ Counted(r) \/ Refused(r) \/ Advanced(r) \/ Leaves(r)
<1>a. /\ DOMAIN pc = Requests /\ DOMAIN sw = Requests /\ DOMAIN outcome = Requests
      /\ DOMAIN estimate = Requests /\ DOMAIN actual = Requests
  BY DEF TypeOK
<1>1. CASE Acquire(r)
  BY <1>1, <1>a, SMTT(30) DEF Acquire, Goto, Others, Admitted, requestVars, serveVars
<1>2. CASE ReadDepth(r) \/ SetInflightRequests(r)
  BY <1>2, <1>a, Zenon DEF ReadDepth, SetInflightRequests, Goto, Others, Counted, Keeps,
                    requestVars, serveVars
<1>3. CASE \/ Invalid(r) \/ OpenFails(r) \/ PayFails(r) \/ EstimateFails(r)
           \/ DebitFails(r) \/ ServeFails(r)
  BY <1>3, <1>a, SMTT(30)
     DEF Invalid, OpenFails, PayFails, EstimateFails, DebitFails, ServeFails, Refuse,
         Written, Goto, Others, Refused, Keeps, requestVars, serveVars
<1>b. \A S : S \subseteq S /\ S \subseteq S \cup {r} /\ r \in S \cup {r}
  OBVIOUS
<1>4. CASE Open(r) \/ Pay(r) \/ Reconcile(r) \/ ReconcileFails(r)
  BY <1>4, <1>a, <1>b, Zenon
     DEF Open, Pay, Reconcile, ReconcileFails, Proceed, Goto, Others, Advanced, Keeps,
         requestVars, serveVars
<1>5. CASE Estimate(r)
  <2>1. PICK e \in Estimates : estimate' = [estimate EXCEPT ![r] = IF e < 0 THEN 0 ELSE e]
    BY Zenon, <1>5 DEF Estimate
  <2>2. (IF e < 0 THEN 0 ELSE e) \in Nat
    BY PaidAssumption, SMTT(30)
  <2> QED
    BY <1>5, <1>a, <2>1, <2>2, Zenon DEF Estimate, Goto, Others, Advanced, requestVars
<1>6. CASE Debit(r)
  <2>1. CASE DecodeBalance(DebitReply(work[r], estimate[r], 1)) < 0
    BY <1>6, <2>1, <1>a, SMTT(30)
       DEF Debit, Refuse, Goto, Others, Refused, Keeps, requestVars, serveVars
  <2>2. CASE ~(DecodeBalance(DebitReply(work[r], estimate[r], 1)) < 0)
    BY <1>6, <2>2, <1>a, SMTT(30)
       DEF Debit, Proceed, Goto, Others, Advanced, Keeps, requestVars, serveVars
  <2> QED
    BY <2>1, <2>2, Zenon
<1>7. CASE Serve(r)
  BY <1>7, <1>a, PaidAssumption, SMTT(30)
     DEF Serve, Written, Goto, Others, Advanced, requestVars
<1>8. CASE RecordOutcome(r)
  BY <1>8, <1>a, SMTT(30)
     DEF RecordOutcome, classifyOutcome, Outcomes, Goto, Others, Leaves, requestVars,
         serveVars
<1>9. CASE Release(r)
  BY <1>9, <1>a DEF Release, Goto, Others, Leaves, requestVars, serveVars
<1> QED
  BY <1>1, <1>2, <1>3, <1>4, <1>5, <1>6, <1>7, <1>8, <1>9, Zenon
     DEF Step, paymentMiddleware

(* The calls a request makes are calls of the daemon for its own session.  *)
LEMMA Calls ==
  ASSUME TypeOK, Requested, CallingInv, NEW r \in Requests, Step(r)
  PROVE  /\ DaemonStepOn({work[r]})
         /\ pc[r] \notin {"debit", "reconcile"} => DaemonStepOn({})
         /\ pc[r] = "debit" =>
              \/ UNCHANGED daemonVars
              \/ DebitBalance(work[r], payer[work[r]], estimate[r], 1)
         /\ pc[r] = "reconcile" =>
              \/ UNCHANGED daemonVars
              \/ DebitBalance(work[r], payer[work[r]], actual[r] - estimate[r], 2)
<1>a. /\ work[r] \in WorkIDs /\ model[r] \in Offerings /\ payer[work[r]] \in Senders
      /\ estimate[r] \in Nat /\ actual[r] \in Nat
      /\ pc[r] = "reconcile" => actual[r] - estimate[r] \in Nat
      /\ pc[r] \in {"debit", "reconcile"} => binding[work[r]] = model[r]
  BY SMTT(30) DEF TypeOK, Requested, CallingInv, Calling
<1>1. \/ UNCHANGED daemonVars
      \/ pc[r] = "held" /\ OpenSession(work[r], model[r])
      \/ /\ pc[r] = "opened"
         /\ \E ev \in Credits : ProcessPayment(work[r], payer[work[r]], ev)
      \/ pc[r] = "debit" /\ DebitBalance(work[r], payer[work[r]], estimate[r], 1)
      \/ /\ pc[r] = "reconcile"
         /\ DebitBalance(work[r], payer[work[r]], actual[r] - estimate[r], 2)
  <2>1. CASE \/ Acquire(r) \/ ReadDepth(r) \/ SetInflightRequests(r) \/ Invalid(r)
             \/ Estimate(r) \/ EstimateFails(r) \/ Serve(r) \/ ServeFails(r)
             \/ RecordOutcome(r) \/ Release(r)
    <3>1. UNCHANGED daemonVars
      BY <2>1, ZenonT(30)
         DEF Acquire, ReadDepth, SetInflightRequests, Invalid, Estimate, EstimateFails,
             Serve, ServeFails, RecordOutcome, Release
    <3> QED
      BY <3>1, Zenon
  <2>2. CASE Open(r) \/ OpenFails(r)
    BY <2>2, Zenon DEF Open, OpenFails
  <2>3. CASE Pay(r) \/ PayFails(r)
    BY <2>3, Zenon DEF Pay, PayFails
  <2>4. CASE Debit(r) \/ DebitFails(r)
    BY <2>4, Zenon DEF Debit, DebitFails
  <2>5. CASE Reconcile(r) \/ ReconcileFails(r)
    BY <2>5, Zenon DEF Reconcile, ReconcileFails
  <2> QED
    BY <2>1, <2>2, <2>3, <2>4, <2>5, Zenon DEF Step, paymentMiddleware
<1>2. 1 \in Nat /\ 2 \in Nat
  BY Zenon
<1> QED
  BY <1>a, <1>1, <1>2, Zenon DEF DaemonStepOn

(* What the lemmas about the ledger ask for. *)
LEMMA Ledger ==
  ASSUME TypeOK, Requested, CallingInv, [Next]_vars
  PROVE  DaemonTypeOK /\ DaemonStep
<1>1. ASSUME NEW r \in Requests, Step(r) PROVE DaemonStep
  BY <1>1, Calls, Zenon DEF DaemonStep, DaemonStepOn, Requested
<1>2. ASSUME UNCHANGED vars PROVE DaemonStep
  BY <1>2, Zenon DEF DaemonStep, DaemonStepOn, vars, daemonVars
<1> QED
  BY <1>1, <1>2 DEF Next, Step, TypeOK

-----------------------------------------------------------------------------
(* Every step keeps TypeOK: the gauge reports a depth the semaphore had.   *)
LEMMA TypeOKStep ==
  ASSUME TypeOK, Requested, CallingInv, [Next]_vars, paidSem' \in Nat
  PROVE  TypeOK'
<1>1. DaemonTypeOK' /\ paidSem' \in Nat
  BY Ledger, DaemonStepType, Zenon
<1>2. ASSUME NEW r \in Requests, Acquire(r) \/ Release(r) PROVE TypeOK'
  BY <1>1, <1>2, PaidAssumption, SMTT(30)
     DEF Acquire, Release, Goto, TypeOK, Outcomes, serveVars, gaugeVars
<1>3. ASSUME NEW r \in Requests, ReadDepth(r) \/ SetInflightRequests(r) PROVE TypeOK'
  BY <1>1, <1>3, SMTT(30) DEF ReadDepth, SetInflightRequests, Goto, TypeOK, serveVars
<1>4. ASSUME NEW r \in Requests,
             \E code \in {0, 200, 400, 402, 404, 500, 502, 503} : Refuse(r, code)
      PROVE  TypeOK'
  BY <1>1, <1>4, SMTT(30) DEF Refuse, Goto, TypeOK, serveVars, gaugeVars
<1>5. ASSUME NEW r \in Requests,
             \E l \in {"opened", "paid", "serve", "deferred"} : Proceed(r, l)
      PROVE  TypeOK'
  BY <1>1, <1>5, SMTT(30) DEF Proceed, Goto, TypeOK, serveVars, gaugeVars
<1>6. ASSUME NEW r \in Requests, Estimate(r) \/ Serve(r) PROVE TypeOK'
  BY <1>1, <1>6, PaidAssumption, SMTT(30)
     DEF Estimate, Serve, Written, Goto, TypeOK, gaugeVars
<1>7. ASSUME NEW r \in Requests, RecordOutcome(r) PROVE TypeOK'
  BY <1>1, <1>7, SMTT(30)
     DEF RecordOutcome, classifyOutcome, Outcomes, Goto, TypeOK, serveVars, gaugeVars
<1>8. CASE UNCHANGED vars
  BY <1>1, <1>8, Zenon DEF vars, serveVars, gaugeVars, TypeOK
<1>9. ASSUME NEW r \in Requests, ReconcileFails(r) PROVE TypeOK'
  BY <1>1, <1>9, SMTT(30) DEF ReconcileFails, Goto, TypeOK, serveVars, gaugeVars
<1> QED
  BY <1>2, <1>3, <1>4, <1>5, <1>6, <1>7, <1>8, <1>9, SMTT(30)
     DEF Next, paymentMiddleware, Invalid, Open, OpenFails, Pay, PayFails, EstimateFails,
         Debit, DebitFails, ServeFails, Written, Reconcile

-----------------------------------------------------------------------------
(* What a request calls the daemon with. *)

(* Every step keeps CallingInv: requests that share a payment but not its  *)
(* model cannot both get past OpenSession.                                 *)
LEMMA CallingStep ==
  ASSUME TypeOK, Requested, CallingInv, [Next]_vars
  PROVE  CallingInv'
<1>1. ASSUME NEW o \in Requests,
             pc'[o] \in Calling => pc[o] \in Calling,
             pc'[o] \in Before \cup {"serve"} => actual'[o] = 0,
             pc'[o] = "reconcile" => actual'[o] > estimate'[o],
             work' = work, model' = model
      PROVE  /\ pc'[o] \in Calling => status'[work'[o]] # "none"
                                      /\ binding'[work'[o]] = model'[o]
             /\ pc'[o] \in Before \cup {"serve"} => actual'[o] = 0
             /\ pc'[o] = "reconcile" => actual'[o] > estimate'[o]
  BY <1>1, Ledger, BindingKept, SMTT(30) DEF CallingInv, Requested
<1>2. ASSUME NEW r \in Requests, Step(r), NEW o \in Requests
      PROVE  /\ pc'[o] \in Calling => status'[work'[o]] # "none"
                                      /\ binding'[work'[o]] = model'[o]
             /\ pc'[o] \in Before \cup {"serve"} => actual'[o] = 0
             /\ pc'[o] = "reconcile" => actual'[o] > estimate'[o]
  <2>a. Others(r) /\ (Admitted(r) \/ Counted(r) \/ Refused(r) \/ Advanced(r) \/ Leaves(r))
    BY <1>2, Moves
  <2>1. CASE o # r
    BY <2>1, <2>a, <1>1, SMTT(30) DEF Others, CallingInv
  <2>2. CASE o = r /\ pc[r] = "held" /\ Open(r)
    BY <2>2, <2>a, SMTT(30)
       DEF Open, OpenSession, Proceed, Goto, Requested, TypeOK, DaemonTypeOK, Others,
           CallingInv, Before, serveVars
  <2>3. CASE o = r /\ ~ (pc[r] = "held" /\ Open(r))
    BY <2>3, <2>a, <1>1, SMTT(30)
       DEF Others, Calling, Before, CallingInv, Admitted, Counted, Refused, Advanced,
           Leaves, Keeps
  <2> QED
    BY <2>1, <2>2, <2>3, Zenon
<1>3. ASSUME UNCHANGED vars PROVE CallingInv'
  BY <1>3, SMTT(30) DEF vars, daemonVars, requestVars, serveVars, CallingInv
<1> QED
  BY <1>2, <1>3 DEF Next, Step, CallingInv

-----------------------------------------------------------------------------
(* What is served was charged for. *)

(* A debit the ledger has not seen is charged at the price of the model the *)
(* request asked for, and its reply recorded.                               *)
LEMMA DebitMakes ==
  ASSUME TypeOK, Requested, CallingInv, NEW r \in Requests,
         pc[r] \in {"debit", "reconcile"}, NEW units \in Nat, NEW seq,
         DebitBalance(work[r], payer[work[r]], units, seq),
         seq \notin DOMAIN debitReplays[work[r]], work' = work
  PROVE  /\ DOMAIN debitReplays'[work[r]] = DOMAIN debitReplays[work[r]] \cup {seq}
         /\ debitReplays'[work[r]][seq] = DebitReply(work[r], units, seq)
         /\ DebitReply(work[r], units, seq) \in Int
         /\ Spent(work[r])' = Spent(work[r]) + Price(r) * units
<1> DEFINE w == work[r]
<1>1. /\ w \in WorkIDs /\ binding[w] = model[r] /\ binding[w] \in Offerings
      /\ DebitBalance(w, payer[w], units, seq) /\ seq \notin DOMAIN debitReplays[w]
      /\ DaemonTypeOK
  BY SMTT(30) DEF TypeOK, Requested, CallingInv, Calling
<1>2. WorkCost(w, units) = Price(r) * units /\ WorkCost(w, units) \in Nat
  BY <1>1, WorkCostType, Zenon DEF WorkCost, Price
<1> HIDE DEF w
<1>3. DebitReply(w, units, seq) = balances[w] - WorkCost(w, units)
  BY Zenon DEF DebitReply, w
<1>4. /\ balances'[w] = balances[w] - WorkCost(w, units)
      /\ DOMAIN debitReplays'[w] = DOMAIN debitReplays[w] \cup {seq}
      /\ debitReplays'[w][seq] = balances'[w]
  <2>1. balances'[w] = balances[w] - WorkCost(w, units)
    BY <1>1, DebitFresh, Zenon
  <2>2. DOMAIN debitReplays'[w] = DOMAIN debitReplays[w] \cup {seq}
    BY <1>1, DebitFresh, ZenonT(60)
  <2>3. debitReplays'[w][seq] = balances'[w]
    BY <1>1, DebitFresh, SMTT(30)
  <2> QED
    BY <2>1, <2>2, <2>3, Zenon
<1>5. balances[w] \in Int /\ credited[w] \in Int /\ credited' = credited
  BY <1>1, SMTT(30) DEF DaemonTypeOK, DebitBalance
<1> QED
  BY <1>2, <1>3, <1>4, <1>5, SMTT(30) DEF Spent, w

(* The reply the client lets through is the one on record. *)
LEMMA DebitPaid ==
  ASSUME TypeOK, Requested, CallingInv, NEW r \in Requests, Debit(r),
         ~ (DecodeBalance(DebitReply(work[r], estimate[r], 1)) < 0)
  PROVE  Debited(work[r])'
<1> DEFINE w == work[r]
           q == 1
<1>1. /\ w \in WorkIDs /\ pc[r] = "debit" /\ estimate[r] \in Nat
      /\ DebitBalance(w, payer[w], estimate[r], q) /\ work' = work
      /\ DaemonTypeOK
  BY SMTT(30) DEF Debit, Refuse, Proceed, requestVars, TypeOK, Requested
<1>2. ~ (DecodeBalance(DebitReply(w, estimate[r], q)) < 0)
  BY Zenon
<1>3. Debited(work[r])'
        <=> q \in DOMAIN debitReplays'[w] /\ DecodeBalance(debitReplays'[w][q]) >= 0
  BY <1>1, Zenon DEF Debited, DecodeBalance
<1> HIDE DEF q
<1>d. \A b \in Int : ~ (DecodeBalance(b) < 0) => DecodeBalance(b) >= 0
  BY SMTT(30) DEF DecodeBalance
<1>4. CASE q \in DOMAIN debitReplays[w]
  <2>1. debitReplays' = debitReplays
    BY <1>1, <1>4, DebitReplayed, Zenon DEF daemonVars
  <2>2. debitReplays[w][q] \in Int /\ DebitReply(w, estimate[r], q) = debitReplays[w][q]
    BY <1>1, <1>4, SMTT(30) DEF DebitReply, DaemonTypeOK
  <2> QED
    BY <1>2, <1>3, <1>4, <1>d, <2>1, <2>2, Zenon
<1>5. CASE q \notin DOMAIN debitReplays[w]
  <2>1. /\ q \in DOMAIN debitReplays'[w] /\ DebitReply(w, estimate[r], q) \in Int
        /\ debitReplays'[w][q] = DebitReply(w, estimate[r], q)
    BY <1>1, <1>5, DebitMakes, ZenonT(30)
  <2> QED
    <3>1. DecodeBalance(DebitReply(w, estimate[r], q)) >= 0
      BY <1>2, <1>d, <2>1, Zenon
    <3>2. DecodeBalance(debitReplays'[w][q]) >= 0
      BY <2>1, <3>1, Zenon
    <3> QED
      BY <1>3, <2>1, <3>2, Zenon
<1> QED
  BY <1>4, <1>5, Zenon

(* After the reconciling debit the work beyond the estimate is on record.  *)
LEMMA ReconcileCharges ==
  ASSUME TypeOK, Requested, CallingInv, NEW r \in Requests, Reconcile(r)
  PROVE  2 \in DOMAIN debitReplays'[work[r]]
<1> DEFINE q == 2
           more == actual[r] - estimate[r]
<1>1. /\ pc[r] = "reconcile" /\ more \in Nat /\ work' = work
      /\ DebitBalance(work[r], payer[work[r]], more, q)
  BY SMTT(30) DEF Reconcile, Proceed, requestVars, TypeOK, CallingInv
<1> SUFFICES q \in DOMAIN debitReplays'[work[r]]
  BY Zenon
<1> HIDE DEF q, more
<1>2. CASE q \in DOMAIN debitReplays[work[r]]
  BY <1>1, <1>2, DebitReplayed, Zenon DEF daemonVars
<1>3. CASE q \notin DOMAIN debitReplays[work[r]]
  BY <1>1, <1>3, DebitMakes, ZenonT(30)
<1> QED
  BY <1>2, <1>3, Zenon

(* Every step keeps ServedInv: the record of a debit is never lost. *)
LEMMA ServedStep ==
  ASSUME TypeOK, Requested, CallingInv, ServedInv, [Next]_vars
  PROVE  ServedInv'
<1> DEFINE Began(o) == pc[o] \in {"serve", "reconcile"} \/ sw[o] = 200 \/ outcome[o] = "2xx"
           Owing(o) == /\ pc[o] \in Returned /\ actual[o] > estimate[o]
                       /\ o \notin uncollected
           Collected(o) == 2 \in DOMAIN debitReplays[work[o]]
<1>1. ASSUME NEW o \in Requests, Began(o), work' = work PROVE Debited(work[o])'
  <2>1. Debited(work[o]) /\ work[o] \in WorkIDs
    BY <1>1 DEF ServedInv, Requested
  <2> QED
    BY <1>1, <2>1, Ledger, ReplaysKept, Zenon DEF Debited, DecodeBalance
<1>2. ASSUME NEW o \in Requests, Owing(o), work' = work PROVE Collected(o)'
  <2>1. Collected(o) /\ work[o] \in WorkIDs
    BY <1>2 DEF ServedInv, Requested
  <2> QED
    BY <1>2, <2>1, Ledger, ReplaysKept, Zenon
<1>3. ASSUME NEW r \in Requests, Step(r), NEW o \in Requests
      PROVE  (Began(o)' => Debited(work[o])') /\ (Owing(o)' => Collected(o)')
  <2>a. Others(r) /\ (Admitted(r) \/ Counted(r) \/ Refused(r) \/ Advanced(r) \/ Leaves(r))
    BY <1>3, Moves, Zenon
  <2>b. work' = work
    BY <2>a, Zenon DEF Others
  <2>1. CASE o # r
    <3>1. (Began(o)' => Began(o)) /\ (Owing(o)' => Owing(o))
      BY <2>1, <2>a, SMTT(30) DEF Others
    <3> QED
      BY <1>1, <1>2, <2>b, <3>1, Zenon
  <2>2. CASE o = r
    <3>1. \/ ~ Began(r)' \/ Began(r)
          \/ Debit(r) /\ ~ (DecodeBalance(DebitReply(work[r], estimate[r], 1)) < 0)
      <4>1. sw[r] \in 200..299 => sw[r] = 200
        BY SMTT(30) DEF TypeOK
      <4> QED
        BY <2>a, <4>1, SMTT(30)
           DEF Others, Admitted, Counted, Refused, Advanced, Leaves, Keeps
    <3>2. Began(r)' => Debited(work[r])'
      BY <1>1, <2>b, <3>1, DebitPaid, Zenon
    <3>3. \/ ~ Owing(r)' \/ Owing(r) \/ Reconcile(r)
      <4>1. /\ estimate[r] \in Nat
            /\ pc[r] \in Before \cup {"serve"} => ~ (actual[r] > estimate[r])
            /\ uncollected \subseteq uncollected'
        BY <2>a, SMTT(30) DEF TypeOK, CallingInv, Others
      <4> QED
        BY <2>a, <4>1, SMTT(30)
           DEF Admitted, Counted, Refused, Advanced, Leaves, Keeps, Before, Returned
    <3>4. Owing(r)' => Collected(r)'
      BY <1>2, <2>b, <3>3, ReconcileCharges, Zenon
    <3> QED
      BY <2>2, <3>2, <3>4, Zenon
  <2> QED
    BY <2>1, <2>2, Zenon
<1>4. ASSUME UNCHANGED vars PROVE ServedInv'
  BY <1>4, SMTT(30) DEF vars, daemonVars, requestVars, serveVars, ServedInv, Debited, DecodeBalance
<1> QED
  BY <1>3, <1>4, Zenon DEF Next, Step, ServedInv

-----------------------------------------------------------------------------
(* What a payment is charged for. *)

(* Who has made its debit stays one who has: its estimate was fixed before *)
(* the upfront debit, its work before the reconciling one.                 *)
LEMMA SettledStays ==
  ASSUME TypeOK, Requested, CallingInv, [Next]_vars, NEW r \in Requests, Step(r),
         NEW o \in Requests, NEW w \in WorkIDs
  PROVE  /\ Opener(o, w) =>
              Opener(o, w)' /\ estimate'[o] = estimate[o] /\ Price(o)' = Price(o)
         /\ Reconciler(o, w) =>
              /\ Reconciler(o, w)' /\ actual'[o] = actual[o]
              /\ estimate'[o] = estimate[o]
<1>a. Others(r) /\ (Admitted(r) \/ Counted(r) \/ Refused(r) \/ Advanced(r) \/ Leaves(r))
  BY Moves, Zenon
<1>b. work' = work /\ model' = model
  BY <1>a, Zenon DEF Others
<1>1. /\ pc[o] \notin Before => pc'[o] \notin Before /\ estimate'[o] = estimate[o]
      /\ pc[o] \notin Before \cup {"serve"} =>
           pc'[o] \notin Before \cup {"serve"} /\ actual'[o] = actual[o]
  <2>1. CASE o # r
    BY <1>a, <2>1, Zenon DEF Others
  <2>2. CASE o = r
    BY <1>a, <2>2, SMTT(30)
       DEF Before, Admitted, Counted, Refused, Advanced, Leaves, Keeps
  <2> QED
    BY <2>1, <2>2, Zenon
<1>2. status[w] # "none" => status'[w] # "none" /\ binding'[w] = binding[w]
  BY Ledger, BindingKept, Zenon
<1> QED
  BY <1>b, <1>1, <1>2, SMTT(30) DEF Opener, Reconciler, Price

(* A step that spends nothing of a payment keeps what it was charged for.  *)
LEMMA NothingSpent ==
  ASSUME TypeOK, Requested, CallingInv, [Next]_vars, NEW r \in Requests, Step(r),
         NEW w \in WorkIDs, PaidFor(w),
         debitReplays'[w] = debitReplays[w], Spent(w)' = Spent(w)
  PROVE  PaidFor(w)'
<1>1. CASE DOMAIN debitReplays[w] = {} /\ Spent(w) = 0
  BY <1>1, Zenon DEF PaidFor
<1>2. CASE /\ DOMAIN debitReplays[w] = {1}
           /\ \E o \in Requests : Opener(o, w) /\ Spent(w) = Price(o) * estimate[o]
  <2>1. PICK o \in Requests : Opener(o, w) /\ Spent(w) = Price(o) * estimate[o]
    BY <1>2, Zenon
  <2>2. Opener(o, w)' /\ Spent(w)' = Price(o)' * estimate'[o]
    BY <2>1, SettledStays, Zenon
  <2> QED
    BY <1>2, <2>2, Zenon DEF PaidFor
<1>3. CASE /\ DOMAIN debitReplays[w] = {1, 2}
           /\ \E p, o \in Requests :
                /\ Opener(p, w) /\ Reconciler(o, w)
                /\ Spent(w) = Price(p) * (estimate[p] + actual[o] - estimate[o])
  <2>1. PICK p \in Requests, o \in Requests :
          /\ Opener(p, w) /\ Reconciler(o, w)
          /\ Spent(w) = Price(p) * (estimate[p] + actual[o] - estimate[o])
    BY <1>3, Zenon
  <2>2. /\ Opener(p, w)' /\ Reconciler(o, w)'
        /\ Spent(w)' = Price(p)' * (estimate'[p] + actual'[o] - estimate'[o])
    BY <2>1, SettledStays, Zenon
  <2> QED
    BY <1>3, <2>2, Zenon DEF PaidFor
<1> QED
  BY <1>1, <1>2, <1>3, Zenon DEF PaidFor

(* A new upfront debit is the first on the ledger and charges the estimate *)
(* of the request that made it.                                            *)
LEMMA FirstDebit ==
  ASSUME TypeOK, Requested, CallingInv, [Next]_vars, NEW r \in Requests, Step(r),
         NEW w \in WorkIDs, w = work[r], PaidFor(w),
         pc[r] = "debit", 1 \notin DOMAIN debitReplays[w],
         DebitBalance(w, payer[w], estimate[r], 1)
  PROVE  PaidFor(w)'
<1> DEFINE q == 1
<1>1. /\ work' = work /\ model' = model /\ estimate'[r] = estimate[r]
      /\ pc'[r] \notin Before /\ estimate[r] \in Nat
  BY Moves, SMTT(30)
     DEF Others, Admitted, Counted, Refused, Advanced, Leaves, Keeps, TypeOK, Before
<1>2. /\ DebitBalance(w, payer[w], estimate[r], q)
      /\ DOMAIN debitReplays[w] = {} /\ Spent(w) = 0
  BY SMTT(30) DEF PaidFor
<1>3. /\ w \in WorkIDs /\ status[w] # "none" /\ binding[w] = model[r]
  BY Zenon DEF Requested, CallingInv, Calling
<1>4. status'[w] # "none" /\ binding'[w] = binding[w]
  BY <1>3, Ledger, BindingKept, Zenon
<1>5. /\ DOMAIN debitReplays'[w] = {} \cup {q}
      /\ Spent(w)' = 0 + Price(r) * estimate[r]
  <2> HIDE DEF q
  <2>1. q \notin DOMAIN debitReplays[w]
    BY <1>2, Zenon
  <2>2. /\ DOMAIN debitReplays'[w] = DOMAIN debitReplays[w] \cup {q}
        /\ Spent(w)' = Spent(w) + Price(r) * estimate[r]
    <3>1. /\ DOMAIN debitReplays'[work[r]] = DOMAIN debitReplays[work[r]] \cup {q}
          /\ Spent(work[r])' = Spent(work[r]) + Price(r) * estimate[r]
      BY <1>1, <1>2, <2>1, DebitMakes, Zenon
    <3> QED
      BY <1>1, <3>1, Zenon DEF Spent
  <2> QED
    BY <1>2, <2>2, Zenon
<1>6. Price(r) * estimate[r] \in Int /\ Price(r)' = Price(r)
  BY <1>1, DaemonAssumption, SMTT(30) DEF Price, Requested
<1>7. DOMAIN debitReplays'[w] = {1} /\ Spent(w)' = Price(r) * estimate[r]
  BY <1>5, <1>6, SMTT(30)
<1>8. Opener(r, w)'
  BY <1>1, <1>3, <1>4, Zenon DEF Opener
<1> QED
  BY <1>1, <1>6, <1>7, <1>8, Zenon DEF PaidFor

(* A new reconciling debit is the second and charges, at the same price,   *)
(* the work of its request beyond the estimate.                            *)
LEMMA SecondDebit ==
  ASSUME TypeOK, Requested, CallingInv, ServedInv, [Next]_vars, NEW r \in Requests, Step(r),
         NEW w \in WorkIDs, w = work[r], PaidFor(w),
         pc[r] = "reconcile", 2 \notin DOMAIN debitReplays[w],
         DebitBalance(w, payer[w], actual[r] - estimate[r], 2)
  PROVE  PaidFor(w)'
<1> DEFINE q == 2
           more == actual[r] - estimate[r]
<1>1. /\ work' = work /\ model' = model /\ estimate'[r] = estimate[r]
      /\ actual'[r] = actual[r] /\ pc'[r] = "deferred"
  BY Moves, SMTT(30) DEF Others, Admitted, Counted, Refused, Advanced, Leaves, Keeps
<1>2. /\ actual[r] > estimate[r] /\ more \in Nat
      /\ estimate[r] \in Nat /\ actual[r] \in Nat
      /\ w \in WorkIDs /\ binding[w] = model[r]
  BY SMTT(30) DEF CallingInv, Calling, TypeOK, Requested
<1>3. /\ DebitBalance(w, payer[w], more, q)
      /\ DOMAIN debitReplays[w] = {1} /\ q \notin DOMAIN debitReplays[w]
      /\ \E o \in Requests : Opener(o, w) /\ Spent(w) = Price(o) * estimate[o]
  BY SMTT(30) DEF PaidFor, ServedInv, Debited
<1>4. PICK o \in Requests : Opener(o, w) /\ Spent(w) = Price(o) * estimate[o]
  BY <1>3, Zenon
<1>5. /\ DOMAIN debitReplays'[w] = {1} \cup {q}
      /\ Spent(w)' = Price(o) * estimate[o] + Price(r) * more
  <2> HIDE DEF q, more
  <2>1. /\ DOMAIN debitReplays'[w] = DOMAIN debitReplays[w] \cup {q}
        /\ Spent(w)' = Spent(w) + Price(r) * more
    <3>1. /\ DOMAIN debitReplays'[work[r]] = DOMAIN debitReplays[work[r]] \cup {q}
          /\ Spent(work[r])' = Spent(work[r]) + Price(r) * more
      BY <1>1, <1>2, <1>3, DebitMakes, Zenon
    <3> QED
      BY <1>1, <3>1, Zenon DEF Spent
  <2> QED
    BY <1>3, <1>4, <2>1, Zenon
<1>6. /\ Opener(o, w)' /\ estimate'[o] = estimate[o] /\ Price(o)' = Price(o)
      /\ Price(r) = Price(o)
  BY <1>2, <1>4, SettledStays, Zenon DEF Opener, Price
<1>7. Reconciler(r, w)'
  BY <1>1, <1>2, SMTT(30) DEF Reconciler, Before
<1>8. \A p, d, e, a \in Int : p * d + p * (a - e) = p * (d + a - e)
  BY SMTT(30)
<1>9. Price(o) \in Int /\ estimate[o] \in Int
  BY DaemonAssumption, SMTT(30) DEF Price, Requested, TypeOK
<1>10. /\ DOMAIN debitReplays'[w] = {1, 2}
       /\ Spent(w)' = Price(o)' * (estimate'[o] + actual'[r] - estimate'[r])
  BY <1>1, <1>2, <1>5, <1>6, <1>8, <1>9, SMTT(30)
<1> QED
  BY <1>1, <1>6, <1>7, <1>10, Zenon DEF PaidFor

(* Every step keeps ChargedInv: a debit that is not new is a replay, which *)
(* moves nothing, and no request debits another payment than its own.      *)
LEMMA ChargedStep ==
  ASSUME TypeOK, Requested, CallingInv, ServedInv, ChargedInv, [Next]_vars
  PROVE  ChargedInv'
<1>1. ASSUME NEW r \in Requests, Step(r), NEW w \in WorkIDs
      PROVE  PaidFor(w)'
  <2>a. PaidFor(w) /\ DaemonTypeOK
    BY <1>1, Ledger, Zenon DEF ChargedInv
  <2>1. CASE UNCHANGED daemonVars
    <3>1. debitReplays'[w] = debitReplays[w] /\ Spent(w)' = Spent(w)
      BY <2>1, Zenon DEF daemonVars, Spent
    <3> QED
      BY <1>1, <2>a, <3>1, NothingSpent, Zenon
  <2>2. CASE \E debited : w \notin debited /\ DaemonStepOn(debited)
    <3>1. debitReplays'[w] = debitReplays[w] /\ Spent(w)' = Spent(w)
      BY <2>2, <2>a, SpentKept, Zenon DEF Spent
    <3> QED
      BY <1>1, <2>a, <3>1, NothingSpent, Zenon
  <2>3. CASE /\ w = work[r] /\ pc[r] = "debit"
             /\ DebitBalance(work[r], payer[work[r]], estimate[r], 1)
    <3>1. 1 \in DOMAIN debitReplays[work[r]] => UNCHANGED daemonVars
      BY <2>3, DebitReplayed, Zenon
    <3> QED
      BY <1>1, <2>a, <2>1, <2>3, <3>1, FirstDebit, Zenon
  <2>4. CASE /\ w = work[r] /\ pc[r] = "reconcile"
             /\ DebitBalance(work[r], payer[work[r]], actual[r] - estimate[r], 2)
    <3>1. 2 \in DOMAIN debitReplays[work[r]] => UNCHANGED daemonVars
      BY <2>4, DebitReplayed, Zenon
    <3> QED
      BY <1>1, <2>a, <2>1, <2>4, <3>1, SecondDebit, Zenon
  <2>5. /\ w # work[r] => w \notin {work[r]} /\ DaemonStepOn({work[r]})
        /\ pc[r] \notin {"debit", "reconcile"} => w \notin {} /\ DaemonStepOn({})
    BY <1>1, Calls, Zenon
  <2> QED
    BY <1>1, <2>1, <2>2, <2>3, <2>4, <2>5, Calls, Zenon
<1>2. ASSUME UNCHANGED vars PROVE ChargedInv'
  BY <1>2, SMTT(30)
     DEF vars, daemonVars, requestVars, serveVars, ChargedInv, PaidFor, Opener, Reconciler,
         Spent, Price
<1> QED
  BY <1>1, <1>2, Zenon DEF Next, Step, ChargedInv

-----------------------------------------------------------------------------
(* The semaphore. *)

Outside == {"idle", "left", "setOut", "done"}
Holders == {r \in Requests : pc[r] \notin Outside}

(* The library's facts under a name of their own, after the proofs that do *)
(* not count.                                                              *)
LOCAL Lib == INSTANCE FiniteSetTheorems

(* The library counts as FiniteSets does. *)
LEMMA LibCounts ==
  \A S : Cardinality(S) = Lib!Cardinality(S) /\ (IsFiniteSet(S) <=> Lib!IsFiniteSet(S))
BY DEF Cardinality, Lib!Cardinality, IsFiniteSet, Lib!IsFiniteSet

(* Who takes a slot is one more holder among finitely many requests, who   *)
(* gives it back one less.                                                 *)
LEMMA Counting ==
  ASSUME NEW T, IsFiniteSet(T), NEW S, S \subseteq T
  PROVE  /\ Cardinality({}) = 0 /\ Cardinality(S) \in Nat
         /\ \A x : x \notin S => Cardinality(S \cup {x}) = Cardinality(S) + 1
         /\ \A x \in S : Cardinality(S \ {x}) = Cardinality(S) - 1
<1>1. IsFiniteSet(S)
  BY LibCounts, Lib!FS_Subset
<1>2. Cardinality({}) = 0 /\ Cardinality(S) \in Nat
  BY <1>1, LibCounts, Lib!FS_EmptySet, Lib!FS_CardinalityType
<1>3. \A x : x \notin S => Cardinality(S \cup {x}) = Cardinality(S) + 1
  BY <1>1, LibCounts, Lib!FS_AddElement
<1>4. \A x \in S : Cardinality(S \ {x}) = Cardinality(S) - 1
  BY <1>1, LibCounts, Lib!FS_RemoveElement
<1> QED
  BY <1>2, <1>3, <1>4

(* Every step keeps SlotsConserved, so a release finds a slot to give back. *)
LEMMA SlotsStep ==
  ASSUME TypeOK, SlotsConserved, [Next]_vars
  PROVE  SlotsConserved' /\ paidSem' \in Nat
<1>1. Holders \subseteq Requests /\ Holders' \subseteq Requests /\ IsFiniteSet(Requests)
  BY PaidAssumption DEF Holders
<1>2. paidSem = Cardinality(Holders)
  BY DEF SlotsConserved, Holders, Outside
<1>3. ASSUME NEW r \in Requests, Step(r)
      PROVE  paidSem' = Cardinality(Holders')
  <2>a. \A o \in Requests \ {r} : pc'[o] = pc[o]
    BY <1>3, Moves, Zenon DEF Others
  <2>1. CASE pc[r] \in Outside /\ pc'[r] \notin Outside /\ paidSem' = paidSem + 1
    <3>1. Holders' = Holders \cup {r} /\ r \notin Holders
      BY <2>a, <2>1, SMTT(30) DEF Holders
    <3>2. Cardinality(Holders \cup {r}) = Cardinality(Holders) + 1
      BY <1>1, <3>1, Counting, Zenon
    <3> QED
      BY <1>1, <1>2, <2>1, <3>1, <3>2, Zenon
  <2>2. CASE pc[r] \notin Outside /\ pc'[r] \in Outside /\ paidSem' = paidSem - 1
    <3>1. Holders' = Holders \ {r} /\ r \in Holders
      BY <2>a, <2>2, SMTT(30) DEF Holders
    <3>2. Cardinality(Holders \ {r}) = Cardinality(Holders) - 1
      BY <1>1, <3>1, Counting, Zenon
    <3> QED
      BY <1>1, <1>2, <2>2, <3>1, <3>2, Zenon
  <2>3. CASE (pc[r] \in Outside <=> pc'[r] \in Outside) /\ paidSem' = paidSem
    <3>1. Holders' = Holders
      BY <2>a, <2>3, SMTT(30) DEF Holders
    <3> QED
      BY <1>2, <2>3, <3>1, Zenon
  <2> QED
    BY <1>3, <2>1, <2>2, <2>3, Moves
       DEF Outside, Admitted, Counted, Refused, Advanced, Leaves
<1>4. ASSUME UNCHANGED vars PROVE paidSem' = Cardinality(Holders')
  BY <1>2, <1>4 DEF vars, Holders
<1>5. paidSem' = Cardinality(Holders')
  BY <1>3, <1>4, Zenon DEF Next, Step
<1>6. Cardinality(Holders') \in Nat
  BY <1>1, Counting, Zenon
<1> QED
  BY <1>5, <1>6, Zenon DEF SlotsConserved, Holders, Outside

-----------------------------------------------------------------------------
(* The theorems. *)

(* The invariant holds before the first request. *)
LEMMA PaidInit == Init => PaidInv
<1> SUFFICES ASSUME Init PROVE PaidInv
  BY Zenon
<1>1. TypeOK /\ Requested
  BY DaemonInitType, PaidAssumption, SMTT(30) DEF Init, TypeOK, Requested
<1>2. SlotsConserved
  <2>1. {r \in Requests : pc[r] \notin {"idle", "left", "setOut", "done"}} = {}
    BY Zenon DEF Init
  <2> QED
    BY <2>1, PaidAssumption, Counting, Zenon DEF SlotsConserved, Init
<1>3. CallingInv /\ ServedInv
  <2>1. \A r \in Requests : /\ pc[r] = "idle" /\ actual[r] = 0 /\ sw[r] = 0
                            /\ outcome[r] = "none"
    BY Zenon DEF Init
  <2>2. CallingInv
    BY <2>1, SMTT(30) DEF CallingInv, Calling, Before
  <2>3. ServedInv
    BY <2>1, SMTT(30) DEF ServedInv, Returned
  <2> QED
    BY <2>2, <2>3, Zenon
<1>4. ChargedInv
  <2>1. \A w \in WorkIDs : DOMAIN debitReplays[w] = {} /\ Spent(w) = 0
    <3>1. \A w \in WorkIDs : /\ DOMAIN debitReplays[w] = {}
                             /\ credited[w] = 0 /\ balances[w] = 0
      BY Zenon DEF Init, DaemonInit, NoReplays
    <3>2. 0 - 0 = 0
      BY SMTT(30)
    <3> QED
      BY <3>1, <3>2, Zenon DEF Spent
  <2> QED
    BY <2>1, Zenon DEF ChargedInv, PaidFor
<1> QED
  BY <1>1, <1>2, <1>3, <1>4, Zenon DEF PaidInv

(* Every step keeps it. *)
LEMMA PaidNext == PaidInv /\ [Next]_vars => PaidInv'
<1> SUFFICES ASSUME PaidInv, [Next]_vars PROVE PaidInv'
  BY Zenon
<1>1. TypeOK' /\ SlotsConserved'
  BY TypeOKStep, SlotsStep, Zenon DEF PaidInv
<1>2. Requested'
  BY Moves, Zenon DEF PaidInv, Next, Step, Others, Requested, vars, requestVars
<1>3. CallingInv' /\ ServedInv' /\ ChargedInv'
  BY CallingStep, ServedStep, ChargedStep, Zenon DEF PaidInv
<1> QED
  BY <1>1, <1>2, <1>3, Zenon DEF PaidInv

(* PaidInv is an invariant of the paid route. *)
THEOREM PaidInvariant == Spec => []PaidInv
BY PaidInit, PaidNext, PTL DEF Spec

(* The places, replies and gauges of paymentMiddleware are of their types, *)
(* so the in-flight gauge never shows more than MaxConcurrent.             *)
THEOREM PaidTypesKept == Spec => []TypeOK
BY PaidInvariant, PTL DEF PaidInv

(* The semaphore counts exactly the requests between the gate of           *)
(* paymentMiddleware and its deferred release.                             *)
THEOREM PaidSlotsConserved == Spec => []SlotsConserved
BY PaidInvariant, PTL DEF PaidInv

(* Whatever the number of requests that present a payment, it pays for one *)
(* upfront estimate of theirs and for one excess over an estimate, each    *)
(* debited once at the price of the model.                                 *)
THEOREM AlwaysChargedForWork == Spec => []ChargedForWork
<1>1. ASSUME PaidInv PROVE ChargedForWork
  <2>1. ASSUME NEW w \in WorkIDs
        PROVE  LET seqs == DOMAIN debitReplays[w]
                   presenting == {r \in Requests : work[r] = w}
               IN \/ seqs = {} /\ Spent(w) = 0
                  \/ /\ seqs = {1}
                     /\ \E r \in presenting : Spent(w) = Price(r) * estimate[r]
                  \/ /\ seqs = {1, 2}
                     /\ \E r, o \in presenting :
                          /\ actual[o] > estimate[o]
                          /\ Spent(w) = Price(r) * (estimate[r] + actual[o] - estimate[o])
    BY <1>1, <2>1, SMTT(30) DEF PaidInv, ChargedInv, PaidFor, Opener, Reconciler
  <2> QED
    BY <2>1, Zenon DEF ChargedForWork, Spent, Price
<1> QED
  BY <1>1, PaidInvariant, PTL

(* Whatever client decodes the daemon's replies, nothing is served or      *)
(* counted as a success whose payment has no upfront debit on the ledger   *)
(* that the client read as covered, and work beyond an estimate is on the  *)
(* ledger unless its own debit failed, however requests that share a       *)
(* payment interleave.                                                     *)
THEOREM ServedWasAlwaysCharged == Spec => []ServedWasCharged
<1>1. PaidInv => ServedWasCharged
  BY Zenon DEF PaidInv, ServedInv, Debited, Served, ServedWasCharged
<1> QED
  BY <1>1, PaidInvariant, PTL
=============================================================================
