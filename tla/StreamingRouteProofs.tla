------------------------ MODULE StreamingRouteProofs ------------------------
(***************************************************************************)
(* The slots of the semaphore, the entries of the registry, the payments   *)
(* of refused requests, what the handlers know of the ledger and what a    *)
(* session costs, for any number of concurrent requests.                   *)
(***************************************************************************)
EXTENDS StreamingRoute, PayeeDaemonProofs

Holds == Handling \cup Serving
Owns == Serving \ {"release"}
Accepted == Serving \cup {"done"}

(* The control points of a start request are what their names say. *)
LEMMA Labels ==
  /\ Holds = {"held", "opened", "paid", "backend", "running", "close",
              "onClose", "release"}
  /\ Owns = {"backend", "running", "close", "onClose"}
  /\ Accepted = {"backend", "running", "close", "onClose", "release", "done"}
  /\ Replied = {"busy", "rejected", "done", "ok", "notFound", "failed"}
BY DEF Holds, Owns, Accepted, Handling, Serving, Replied

(* What the handlers know of the ledger.  EntriesArePaid, ChargedForItself *)
(* and SettledAfterEnd say what an entry that was read, a session and an   *)
(* answered /end mean on the ledger; none is inductive without what holds  *)
(* at the control points before.                                           *)

Paid(w) == status[w] # "none" /\ binding[w] = Offering /\ sender[w] = payer[w]

(* A start that was opened and paid is so at the daemon from then on, and  *)
(* so is an entry a handler acts on, read from the registry before.        *)
PaidInv ==
  /\ \A s \in Starts : pc[s] = "opened" =>
       status[work[s]] # "none" /\ binding[work[s]] = Offering
  /\ \A s \in Starts : pc[s] \in {"paid"} \cup Accepted => Paid(work[s])
  /\ \A h \in Ends \cup Topups : info[h] # NoEntry => info[h] \in WorkIDs /\ Paid(info[h])
  /\ \A h \in Ends \cup Topups :
       pc[h] \in {"stop", "closing", "delete", "pay"} => info[h] # NoEntry

(* When /end has closed the payment session it stays closed. *)
SettledInv ==
  \A e \in Ends : pc[e] \in {"delete", "ok"} =>
    info[e] \in WorkIDs /\ status[info[e]] = "closed"

Unshared(s) == \A o \in Others(s) : work[o] # work[s]

(* What n ticks of a session cost. *)
Cost(n) == n * PriceOf[Offering] * Units

ChargedFor(s, n) ==
  /\ DOMAIN debitReplays[work[s]] = 1..n
  /\ balances[work[s]] = credited[work[s]] - Cost(n)

(* Until Serve leaves its loop every debit it made was acknowledged, so    *)
(* the next one is new to the ledger.                                      *)
SoleInv ==
  \A s \in Starts : Unshared(s) =>
    \/ ChargedFor(s, debitSeq[s])
    \/ ChargedFor(s, debitSeq[s] + 1) /\ pc[s] \in Accepted \ {"backend", "running"}

(* The inductive invariant. *)
RouteInv ==
  /\ TypeOK /\ SlotsConserved /\ NoRegistryLeak /\ RefusedNotCharged
  /\ PaidInv /\ SettledInv /\ Addressable /\ SoleInv

-----------------------------------------------------------------------------
(* The steps. *)

(* Every step is a turn of one handler, or leaves all but the server be. *)
LEMMA Turns ==
  ASSUME [Next]_vars
  PROVE  \/ \E s \in Starts : Start(s) \/ Session(s)
         \/ \E e \in Ends : End(e)
         \/ \E t \in Topups : Topup(t)
         \/ UNCHANGED <<daemonVars, work, payer, gateway, pc, debitSeq, paidSem,
                        registry, info, backend>>
BY DEF Next, Shutdown, Exit, vars, requestVars

(* A step leaves the requests be, and every handler but the one whose turn *)
(* it is.                                                                  *)
LEMMA OwnTurn ==
  ASSUME TypeOK, [Next]_vars
  PROVE  /\ UNCHANGED <<work, payer, gateway>>
         /\ \A s \in Starts : \/ Start(s) \/ Session(s)
                              \/ pc'[s] = pc[s] /\ debitSeq'[s] = debitSeq[s]
         /\ \A h \in Ends \cup Topups : \/ h \in Ends /\ End(h)
                                        \/ h \in Topups /\ Topup(h)
                                        \/ pc'[h] = pc[h] /\ info'[h] = info[h]
         /\ \/ \E s \in Starts : Start(s) \/ Session(s)
            \/ paidSem' = paidSem /\ \A s \in Starts : pc'[s] = pc[s]
<1>a. Starts \cap (Ends \cup Topups) = {} /\ Handlers = Starts \cup Ends \cup Topups
  BY RouteAssumption DEF Handlers
<1>1. ASSUME NEW s \in Starts, Start(s)
      PROVE  /\ UNCHANGED <<work, payer, gateway, info, debitSeq>>
             /\ \E l : pc' = [pc EXCEPT ![s] = l]
  BY <1>1, Zenon
     DEF Start, Acquire, Invalid, Open, OpenFails, Pay, PayFails, Accept, Reject, Goto,
         requestVars
<1>2. ASSUME NEW s \in Starts, Session(s)
      PROVE  /\ UNCHANGED <<work, payer, gateway, info>>
             /\ pc' = pc \/ \E l : pc' = [pc EXCEPT ![s] = l]
             /\ debitSeq' = debitSeq \/ debitSeq' = [debitSeq EXCEPT ![s] = @ + 1]
  BY <1>2, Zenon DEF Session, BackendOpens, BackendFails, Debit, DebitLost, ServeEnds,
              AdapterClose, OnClose, ReleaseSem, Goto, requestVars
<1>3. ASSUME NEW h \in Ends \cup Topups, End(h) \/ Topup(h)
      PROVE  /\ UNCHANGED <<work, payer, gateway, debitSeq, paidSem>>
             /\ \E l : pc' = [pc EXCEPT ![h] = l]
             /\ info' = info \/ info' = [info EXCEPT ![h] = registry[gateway[h]]]
  BY <1>3, Zenon DEF End, Topup, EndGet, TopupGet, Get, EndStops, EndStopFails, EndCloses,
              EndCloseFails, EndDeletes, TopupPays, TopupFails, Goto, requestVars
<1> QED
  BY <1>a, <1>1, <1>2, <1>3, Turns, SMTT(30) DEF TypeOK

(* The life of a start request and of its session. *)
LEMMA StartMoves ==
  ASSUME TypeOK, [Next]_vars, NEW s \in Starts
  PROVE  \/ pc'[s] = pc[s] /\ debitSeq'[s] = debitSeq[s]
         \/ /\ Debit(s) /\ pc[s] = "running" /\ pc'[s] \in {"running", "close"}
            /\ debitSeq'[s] = debitSeq[s] + 1
         \/ /\ debitSeq'[s] = debitSeq[s]
            /\ \/ /\ pc[s] \in {"idle", "held", "opened"}
                  /\ pc'[s] \in {"held", "busy", "rejected"}
               \/ Open(s) /\ pc[s] = "held" /\ pc'[s] = "opened"
               \/ Pay(s) /\ pc[s] = "opened" /\ pc'[s] = "paid"
               \/ Accept(s) /\ pc[s] = "paid" /\ pc'[s] = "backend"
               \/ pc[s] = "backend" /\ pc'[s] = "running"
               \/ pc[s] \in {"backend", "running"} /\ pc'[s] = "close"
               \/ pc[s] = "close" /\ pc'[s] = "onClose"
               \/ OnClose(s) /\ pc[s] = "onClose" /\ pc'[s] = "release"
               \/ pc[s] = "release" /\ pc'[s] = "done"
<1>a. DOMAIN pc = Handlers /\ s \in Handlers /\ DOMAIN debitSeq = Starts
  BY DEF TypeOK, Handlers
<1>1. CASE Start(s)
  BY <1>1, <1>a, Zenon
     DEF Start, Acquire, Invalid, Open, OpenFails, Pay, PayFails, Accept, Reject, Goto
<1>2. CASE Session(s)
  BY <1>2, <1>a DEF Session, BackendOpens, BackendFails, Debit, DebitLost, ServeEnds,
                    AdapterClose, OnClose, ReleaseSem, Goto
<1> QED
  BY <1>1, <1>2, OwnTurn, Zenon

(* The calls a handler makes are calls of the daemon for sessions opened   *)
(* for the offering, and Serve's debits are the only ones.                 *)
LEMMA Calls ==
  ASSUME TypeOK, PaidInv, [Next]_vars
  PROVE  DaemonStepOn({work[s] : s \in {o \in Starts : Debit(o) \/ DebitLost(o)}})
<1> DEFINE debited == {work[s] : s \in {o \in Starts : Debit(o) \/ DebitLost(o)}}
<1>a. /\ Offering \in Offerings /\ Units \in Nat
      /\ \A s \in Starts : work[s] \in WorkIDs /\ debitSeq[s] + 1 \in Nat
      /\ \A w \in WorkIDs : payer[w] \in Senders
  BY RouteAssumption, SMTT(30) DEF TypeOK
<1>b. \A s \in Starts : Debit(s) \/ DebitLost(s) => work[s] \in debited
  OBVIOUS
<1> HIDE DEF debited
<1>1. ASSUME NEW s \in Starts, Start(s) PROVE DaemonStepOn(debited)
  <2>1. \/ UNCHANGED daemonVars
        \/ OpenSession(work[s], Offering)
        \/ \E ev \in Credits : ProcessPayment(work[s], payer[work[s]], ev)
    BY <1>1, Zenon DEF Start, Acquire, Invalid, Open, OpenFails, Pay, PayFails, Accept
  <2> QED
    BY <1>a, <2>1 DEF DaemonStepOn
<1>2. ASSUME NEW s \in Starts, Session(s) PROVE DaemonStepOn(debited)
  <2>1. \/ UNCHANGED daemonVars
        \/ /\ pc[s] = "running" /\ (Debit(s) \/ DebitLost(s))
           /\ DebitBalance(work[s], payer[work[s]], Units, debitSeq[s] + 1)
        \/ CloseSession(work[s], payer[work[s]])
    BY <1>2, Zenon DEF Session, BackendOpens, BackendFails, Debit, DebitLost, ServeEnds,
                AdapterClose, OnClose, ReleaseSem
  <2>2. pc[s] = "running" => binding[work[s]] \in Offerings
    BY <1>a, Labels, Zenon DEF PaidInv, Paid
  <2> QED
    BY <1>a, <1>b, <2>1, <2>2, Zenon DEF DaemonStepOn
<1>3. ASSUME NEW e \in Ends, End(e) PROVE DaemonStepOn(debited)
  <2>1. \/ UNCHANGED daemonVars
        \/ info[e] \in WorkIDs /\ CloseSession(info[e], payer[info[e]])
    BY <1>3, Zenon DEF End, EndGet, Get, EndStops, EndStopFails, EndCloses, EndCloseFails,
                EndDeletes, PaidInv
  <2> QED
    BY <1>a, <2>1 DEF DaemonStepOn
<1>4. ASSUME NEW t \in Topups, Topup(t) PROVE DaemonStepOn(debited)
  <2>1. \/ UNCHANGED daemonVars
        \/ /\ info[t] \in WorkIDs
           /\ \E x \in Senders, ev \in Credits : ProcessPayment(info[t], x, ev)
    BY <1>4, Zenon DEF Topup, TopupGet, Get, TopupPays, TopupFails, PaidInv
  <2> QED
    BY <2>1 DEF DaemonStepOn
<1> QED
  BY <1>1, <1>2, <1>3, <1>4, Turns, Zenon DEF DaemonStepOn, debited

(* What the lemmas about the ledger ask for. *)
LEMMA Ledger ==
  ASSUME TypeOK, PaidInv, [Next]_vars
  PROVE  DaemonTypeOK /\ DaemonStep
BY Calls, Zenon DEF TypeOK, DaemonStep, DaemonStepOn

(* How an entry comes to be acted on. *)
LEMMA HandlerMoves ==
  ASSUME TypeOK, [Next]_vars, NEW h \in Ends \cup Topups
  PROVE  \/ pc'[h] = pc[h] /\ info'[h] = info[h]
         \/ pc[h] = "idle" /\ info'[h] = NoEntry /\ pc'[h] = "notFound"
         \/ /\ pc[h] = "idle" /\ info'[h] = registry[gateway[h]] /\ info'[h] # NoEntry
            /\ pc'[h] \in {"stop", "pay"}
         \/ /\ info'[h] = info[h] /\ pc[h] \in {"stop", "closing", "delete", "pay"}
            /\ \/ pc'[h] \in {"closing", "failed"}
               \/ EndCloses(h) /\ pc'[h] = "delete"
               \/ pc[h] = "delete" /\ pc'[h] = "ok"
               \/ h \in Topups /\ pc'[h] = "ok"
<1>a. DOMAIN pc = Handlers /\ h \in Handlers /\ DOMAIN info = Ends \cup Topups
  BY DEF TypeOK, Handlers
<1>1. CASE End(h)
  BY <1>1, <1>a, Zenon
     DEF End, EndGet, Get, EndStops, EndStopFails, EndCloses, EndCloseFails, EndDeletes,
         Goto
<1>2. CASE h \in Topups /\ Topup(h)
  BY <1>2, <1>a, Zenon DEF Topup, TopupGet, Get, TopupPays, TopupFails, Goto
<1> QED
  BY <1>1, <1>2, OwnTurn, Zenon

-----------------------------------------------------------------------------
(* Every step keeps TypeOK; that the semaphore stays within its capacity   *)
(* needs SlotsConserved below and the guard of Acquire above.              *)
LEMMA TypeOKStep ==
  ASSUME TypeOK, PaidInv, [Next]_vars, paidSem' \in Nat
  PROVE  TypeOK'
<1>a. Starts \subseteq Handlers /\ Ends \subseteq Handlers /\ Topups \subseteq Handlers
  BY DEF Handlers
<1>1. DaemonTypeOK' /\ paidSem' \in Nat
  BY Ledger, DaemonStepType, Zenon
<1>2. ASSUME NEW s \in Starts, Start(s) PROVE TypeOK'
  BY <1>1, <1>2, <1>a, RouteAssumption, SMTT(30)
     DEF Start, Acquire, Invalid, Open, OpenFails, Pay, PayFails, Accept, Reject, Goto,
         requestVars, TypeOK, Handling, Serving, Replied
<1>3. ASSUME NEW s \in Starts, Session(s) PROVE TypeOK'
  BY <1>1, <1>3, <1>a, RouteAssumption, SMTT(30)
     DEF Session, BackendOpens, BackendFails, Debit, DebitLost, ServeEnds, AdapterClose,
         OnClose, ReleaseSem, Goto, requestVars, TypeOK, Handling, Serving, Replied
<1>4. ASSUME NEW e \in Ends, End(e) PROVE TypeOK'
  BY <1>1, <1>4, <1>a
     DEF End, EndGet, Get, EndStops, EndStopFails, EndCloses, EndCloseFails, EndDeletes,
         Goto, requestVars, TypeOK, Handling, Serving, Replied
<1>5. ASSUME NEW t \in Topups, Topup(t) PROVE TypeOK'
  BY <1>1, <1>5, <1>a, Zenon
     DEF Topup, TopupGet, Get, TopupPays, TopupFails, Goto, requestVars, TypeOK, Handling,
         Serving, Replied
<1>6. CASE Shutdown \/ Exit \/ UNCHANGED vars
  BY <1>1, <1>6, Zenon DEF Shutdown, Exit, vars, requestVars, TypeOK
<1> QED
  BY <1>2, <1>3, <1>4, <1>5, <1>6, Zenon DEF Next

-----------------------------------------------------------------------------
(* The registry. *)

(* Three steps write the registry. *)
LEMMA RegistryMoves ==
  ASSUME TypeOK, [Next]_vars, NEW g \in Gateways
  PROVE  \/ registry'[g] = registry[g]
         \/ \E s \in Starts : Accept(s) /\ gateway[s] = g /\ registry'[g] = work[s]
         \/ /\ registry'[g] = NoEntry
            /\ \/ \E s \in Starts : OnClose(s) /\ gateway[s] = g
               \/ \E e \in Ends : EndDeletes(e) /\ gateway[e] = g
<1>1. ASSUME NEW s \in Starts, Start(s) PROVE registry' = registry \/ Accept(s)
  BY <1>1, Zenon DEF Start, Acquire, Invalid, Open, OpenFails, Pay, PayFails
<1>2. ASSUME NEW s \in Starts, Session(s) PROVE registry' = registry \/ OnClose(s)
  BY <1>2, Zenon DEF Session, BackendOpens, BackendFails, Debit, DebitLost, ServeEnds,
              AdapterClose, ReleaseSem
<1>3. ASSUME NEW e \in Ends, End(e) PROVE registry' = registry \/ EndDeletes(e)
  BY <1>3, Zenon DEF End, EndGet, Get, EndStops, EndStopFails, EndCloses, EndCloseFails
<1>4. ASSUME NEW t \in Topups, Topup(t) PROVE registry' = registry
  BY <1>4, Zenon DEF Topup, TopupGet, Get, TopupPays, TopupFails
<1>5. \/ registry' = registry
      \/ \E s \in Starts : Accept(s) \/ OnClose(s)
      \/ \E e \in Ends : EndDeletes(e)
  BY <1>1, <1>2, <1>3, <1>4, Turns, Zenon
<1> QED
  BY <1>5 DEF Accept, OnClose, EndDeletes, TypeOK

(* Every step keeps NoRegistryLeak: the goroutine that leaves an entry     *)
(* deletes it.                                                             *)
LEMMA RegistryStep ==
  ASSUME TypeOK, NoRegistryLeak, [Next]_vars
  PROVE  NoRegistryLeak'
<1>a. work' = work /\ gateway' = gateway
  BY OwnTurn
<1> SUFFICES ASSUME NEW g \in Gateways, registry'[g] # NoEntry
             PROVE  \E s \in Starts : /\ gateway[s] = g /\ work[s] = registry'[g]
                                      /\ pc'[s] \in Owns
  BY <1>a, Zenon DEF NoRegistryLeak, Owns
<1>1. ASSUME NEW s \in Starts, Accept(s), gateway[s] = g, registry'[g] = work[s]
      PROVE  pc'[s] \in Owns
  BY <1>1, Labels, Zenon DEF Accept, Goto, TypeOK, Handlers
<1>2. CASE registry'[g] = registry[g]
  <2>1. PICK s \in Starts : /\ gateway[s] = g /\ work[s] = registry[g]
                            /\ pc[s] \in Owns
    BY <1>2 DEF NoRegistryLeak, Owns
  <2>2. ~ OnClose(s)
    BY <1>2, <2>1, Zenon DEF OnClose, TypeOK
  <2>3. pc'[s] \in Owns
    BY <2>1, <2>2, StartMoves, Labels, Zenon
  <2> QED
    BY <1>2, <2>1, <2>3, Zenon
<1> QED
  BY <1>1, <1>2, RegistryMoves, Zenon

(* What was opened and paid stays so. *)
LEMMA PaidKept ==
  ASSUME TypeOK, PaidInv, [Next]_vars, NEW w \in WorkIDs
  PROVE  /\ Paid(w) => Paid(w)'
         /\ status[w] # "none" /\ binding[w] = Offering
              => status'[w] # "none" /\ binding'[w] = Offering
<1>1. payer' = payer /\ payer[w] # NoSender
  BY OwnTurn, DaemonAssumption, SMTT(30) DEF TypeOK
<1>2. /\ status[w] # "none" => status'[w] # "none" /\ binding'[w] = binding[w]
      /\ sender[w] # NoSender => sender'[w] = sender[w]
  BY Ledger, BindingKept, Zenon
<1> QED
  BY <1>1, <1>2 DEF Paid

(* Every step keeps PaidInv.  What a handler reads from the registry is    *)
(* paid because the entry belongs to a goroutine that is.                  *)
LEMMA PaidStep ==
  ASSUME TypeOK, NoRegistryLeak, PaidInv, [Next]_vars
  PROVE  PaidInv'
<1>a. work' = work /\ payer' = payer /\ \A s \in Starts : work[s] \in WorkIDs
  BY OwnTurn, Zenon DEF TypeOK
<1>1. ASSUME NEW s \in Starts, pc'[s] = "opened"
      PROVE  status'[work[s]] # "none" /\ binding'[work[s]] = Offering
  <2>1. CASE pc[s] = "opened"
    BY <1>a, <2>1, PaidKept, Zenon DEF PaidInv
  <2>2. CASE Open(s)
    BY <1>a, <2>2, Zenon DEF Open, OpenSession, TypeOK, DaemonTypeOK
  <2> QED
    BY <1>1, <2>1, <2>2, StartMoves, Zenon
<1>2. ASSUME NEW s \in Starts, pc'[s] \in {"paid"} \cup Accepted
      PROVE  Paid(work[s])'
  <2>1. CASE pc[s] \in {"paid"} \cup Accepted
    BY <1>a, <2>1, PaidKept, Zenon DEF PaidInv, Paid
  <2>2. CASE Pay(s)
    <3>1. sender'[work[s]] = payer[work[s]] /\ status' = status /\ binding' = binding
      BY <1>a, <2>2, Zenon DEF Pay, ProcessPayment, TypeOK, DaemonTypeOK
    <3>2. status[work[s]] # "none" /\ binding[work[s]] = Offering
      BY <2>2, Zenon DEF Pay, PaidInv
    <3> QED
      BY <1>a, <3>1, <3>2, Zenon DEF Paid
  <2> QED
    BY <1>2, <2>1, <2>2, StartMoves, Labels, Zenon
<1>3. ASSUME NEW g \in Gateways, registry[g] # NoEntry
      PROVE  registry[g] \in WorkIDs /\ Paid(registry[g])
  <2>1. PICK s \in Starts : work[s] = registry[g] /\ pc[s] \in Owns
    BY <1>3, Zenon DEF NoRegistryLeak, Owns
  <2>2. pc[s] \in Accepted
    BY <2>1, Labels, Zenon
  <2> QED
    BY <1>a, <2>1, <2>2, Zenon DEF PaidInv
<1>4. ASSUME NEW h \in Ends \cup Topups, info'[h] # NoEntry
      PROVE  info'[h] \in WorkIDs /\ Paid(info[h])'
  <2>1. gateway[h] \in Gateways
    BY DEF TypeOK, Handlers
  <2>2. info'[h] \in WorkIDs /\ Paid(info'[h])
    BY <1>3, <1>4, <2>1, HandlerMoves, Zenon DEF PaidInv
  <2> DEFINE w == info'[h]
  <2>3. status'[w] # "none" /\ binding'[w] = Offering /\ sender'[w] = payer'[w]
    <3>1. w \in WorkIDs /\ Paid(w)
      BY <2>2
    <3> HIDE DEF w
    <3> QED
      BY <3>1, PaidKept, Zenon DEF Paid
  <2> QED
    BY <2>2, <2>3, Zenon DEF Paid
<1>5. ASSUME NEW h \in Ends \cup Topups,
             pc'[h] \in {"stop", "closing", "delete", "pay"}
      PROVE  info'[h] # NoEntry
  BY <1>5, HandlerMoves, Zenon DEF PaidInv
<1> QED
  BY <1>a, <1>1, <1>2, <1>4, <1>5, Zenon DEF PaidInv, Paid

(* Every step keeps SettledInv: nothing reopens a session. *)
LEMMA SettledStep ==
  ASSUME TypeOK, PaidInv, SettledInv, [Next]_vars
  PROVE  SettledInv'
<1> SUFFICES ASSUME NEW e \in Ends, pc'[e] \in {"delete", "ok"}
             PROVE  info'[e] \in WorkIDs /\ status'[info'[e]] = "closed"
  BY DEF SettledInv
<1>1. CASE info'[e] = info[e] /\ pc[e] \in {"delete", "ok"}
  <2>1. info[e] \in WorkIDs /\ status[info[e]] = "closed"
    BY <1>1 DEF SettledInv
  <2> QED
    BY <1>1, <2>1, Ledger, ClosedIsFinal, Zenon
<1>2. CASE EndCloses(e)
  <2>1. info[e] \in WorkIDs
    BY <1>2, Zenon DEF EndCloses, PaidInv
  <2> QED
    BY <1>2, <2>1, Zenon DEF EndCloses, CloseSession, TypeOK, DaemonTypeOK
<1> QED
  BY <1>1, <1>2, HandlerMoves, RouteAssumption, Zenon

(* A session that /end has closed is settled in the step, too. *)
LEMMA SettledNow ==
  ASSUME TypeOK, PaidInv, SettledInv, [Next]_vars, NEW e \in Ends, pc[e] = "ok"
  PROVE  UNCHANGED <<balances[info[e]], credited[info[e]]>>
<1>1. info[e] \in WorkIDs /\ status[info[e]] = "closed"
  BY DEF SettledInv
<1>2. balances'[info[e]] = balances[info[e]] /\ credited'[info[e]] = credited[info[e]]
  BY <1>1, Ledger, ClosedIsFinal, Zenon
<1>3. info'[e] = info[e]
  BY HandlerMoves, Zenon
<1> QED
  BY <1>2, <1>3, Zenon

-----------------------------------------------------------------------------
(* Addressable is inductive as it stands. *)

InServe == {"backend", "running", "close"}

(* Every step keeps Addressable. *)
LEMMA AddressableStep ==
  ASSUME TypeOK, Addressable, [Next]_vars
  PROVE  Addressable'
<1>a. work' = work /\ gateway' = gateway
  BY OwnTurn
<1>b. \A e \in Ends : pc[e] = "ok" => pc'[e] = "ok"
  BY HandlerMoves, Zenon
<1> SUFFICES ASSUME NEW s \in Starts, pc'[s] \in InServe,
                    \A o \in Others(s) : gateway[o] # gateway[s],
                    \A e \in Ends : gateway[e] = gateway[s] => pc'[e] # "ok"
             PROVE  registry'[gateway[s]] = work[s]
  BY <1>a DEF Addressable, InServe, Others
<1>c. /\ s \in Handlers /\ gateway[s] \in Gateways /\ Ends \subseteq Handlers
      /\ DOMAIN registry = Gateways /\ DOMAIN pc = Handlers
  BY DEF TypeOK, Handlers
<1>1. CASE Accept(s)
  BY <1>1, <1>c, Zenon DEF Accept
<1>2. CASE pc[s] \in InServe
  <2>1. registry[gateway[s]] = work[s]
    BY <1>2, <1>b, Zenon DEF Addressable, InServe
  <2>2. ASSUME NEW o \in Starts, Accept(o) \/ OnClose(o) PROVE gateway[o] # gateway[s]
    BY <1>2, <1>c, <2>2, Zenon DEF Accept, OnClose, Goto, InServe, Others
  <2>3. ASSUME NEW e \in Ends, EndDeletes(e) PROVE gateway[e] # gateway[s]
    BY <1>c, <2>3, Zenon DEF EndDeletes, Goto
  <2> QED
    BY <1>c, <2>1, <2>2, <2>3, RegistryMoves, Zenon
<1> QED
  BY <1>1, <1>2, StartMoves, Zenon DEF InServe

-----------------------------------------------------------------------------
(* The charges of a session. *)

(* Every step keeps RefusedNotCharged: only Serve debits, and a start that *)
(* was accepted remains so.                                                *)
LEMMA RefusedStep ==
  ASSUME TypeOK, PaidInv, RefusedNotCharged, TypeOK', [Next]_vars
  PROVE  RefusedNotCharged'
<1>a. work' = work
  BY OwnTurn, Zenon
<1> SUFFICES ASSUME NEW w \in WorkIDs,
                    DOMAIN debitReplays'[w] # {} \/ balances'[w] # credited'[w]
             PROVE  \E s \in Starts : work[s] = w /\ pc'[s] \in Accepted
  BY <1>a, Zenon DEF RefusedNotCharged, Accepted
<1>1. CASE \E s \in Starts : work[s] = w /\ (Debit(s) \/ DebitLost(s))
  <2>1. PICK s \in Starts : work[s] = w /\ pc[s] = "running"
    BY <1>1, Zenon DEF Debit, DebitLost
  <2> QED
    BY <2>1, StartMoves, Labels, Zenon
<1>2. CASE w \notin {work[s] : s \in {o \in Starts : Debit(o) \/ DebitLost(o)}}
  <2>1. /\ debitReplays'[w] = debitReplays[w]
        /\ credited'[w] - balances'[w] = credited[w] - balances[w]
    BY <1>2, Calls, Ledger, SpentKept, Zenon
  <2>2. /\ balances[w] \in Int /\ credited[w] \in Int
        /\ balances'[w] \in Int /\ credited'[w] \in Int
    BY SMTT(30) DEF TypeOK, DaemonTypeOK
  <2>3. DOMAIN debitReplays[w] # {} \/ balances[w] # credited[w]
    BY <2>1, <2>2, SMTT(30)
  <2>4. PICK s \in Starts : work[s] = w /\ pc[s] \in Accepted
    BY <2>3, Zenon DEF RefusedNotCharged, Accepted
  <2> QED
    BY <2>4, StartMoves, Labels, Zenon
<1> QED
  BY <1>1, <1>2, Zenon

(* One more tick costs one tick more. *)
LEMMA CostStep ==
  ASSUME NEW n \in Nat
  PROVE  /\ Cost(n) \in Nat /\ PriceOf[Offering] * Units \in Nat
         /\ Cost(n + 1) = Cost(n) + PriceOf[Offering] * Units
<1>1. PriceOf[Offering] \in Nat /\ Units \in Nat
  BY RouteAssumption, DaemonAssumption, Zenon
<1>2. \A k, p, u \in Nat : /\ k * p * u \in Nat /\ p * u \in Nat
                           /\ (k + 1) * p * u = k * p * u + p * u
  BY SMTT(30)
<1> QED
  BY <1>1, <1>2 DEF Cost

(* A debit of s that the ledger has not seen is charged once. *)
LEMMA TickCharged ==
  ASSUME TypeOK, PaidInv, NEW s \in Starts, NEW n \in Nat, ChargedFor(s, n),
         pc[s] = "running", work' = work,
         DebitBalance(work[s], payer[work[s]], Units, n + 1)
  PROVE  ChargedFor(s, n + 1)'
<1>a. work[s] \in WorkIDs
  BY DEF TypeOK
<1>b. /\ balances \in [WorkIDs -> Int] /\ credited \in [WorkIDs -> Nat]
      /\ DOMAIN debitReplays = WorkIDs
  BY DEF TypeOK, DaemonTypeOK
<1>c. binding[work[s]] = Offering
  BY DEF PaidInv, Paid, Accepted, Serving
<1>d. WorkCost(work[s], Units) = PriceOf[Offering] * Units
  BY <1>c DEF WorkCost
<1>1. n + 1 \notin DOMAIN debitReplays[work[s]]
  BY <1>a, SMTT(30) DEF ChargedFor
<1>2. /\ balances' = [balances EXCEPT ![work[s]] = @ - WorkCost(work[s], Units)]
      /\ DOMAIN debitReplays'[work[s]] = DOMAIN debitReplays[work[s]] \cup {n + 1}
      /\ credited' = credited
  BY <1>1, <1>a, <1>b, Zenon DEF DebitBalance
<1>3. DOMAIN debitReplays'[work[s]] = 1..(n + 1)
  <2>1. (1..n) \cup {n + 1} = 1..(n + 1)
    BY SMTT(30)
  <2> QED
    BY <2>1, <1>2, <1>a, Zenon DEF ChargedFor
<1>4. balances'[work[s]] = credited[work[s]] - Cost(n) - PriceOf[Offering] * Units
  BY <1>2, <1>a, <1>b, <1>d, Zenon DEF ChargedFor
<1>5. credited[work[s]] \in Int
  BY <1>a, <1>b, SMTT(30)
<1>6. balances'[work[s]] = credited[work[s]] - Cost(n + 1)
  BY <1>4, <1>5, <1>a, CostStep, SMTT(30)
<1>7. work'[s] = work[s] /\ credited'[work[s]] = credited[work[s]]
  BY <1>2, Zenon
<1> QED
  <2>1. DOMAIN debitReplays'[work'[s]] = 1..(n + 1)
    BY <1>3, <1>7, Zenon
  <2>2. balances'[work'[s]] = credited'[work'[s]] - Cost(n + 1)
    BY <1>6, <1>7, Zenon
  <2> QED
    BY <2>1, <2>2, Zenon DEF ChargedFor, Cost

(* Every step keeps SoleInv. *)
LEMMA SoleStep ==
  ASSUME TypeOK, TypeOK', PaidInv, SoleInv, [Next]_vars
  PROVE  SoleInv'
<1>1. work' = work
  BY OwnTurn, Zenon
<1> SUFFICES ASSUME NEW s \in Starts, Unshared(s)
             PROVE  (\/ ChargedFor(s, debitSeq[s])
                     \/ /\ ChargedFor(s, debitSeq[s] + 1)
                        /\ pc[s] \in Accepted \ {"backend", "running"})'
  BY <1>1, Zenon DEF SoleInv, Unshared, Others
<1>a. /\ work[s] \in WorkIDs /\ s \in Handlers /\ debitSeq[s] \in Nat
      /\ DOMAIN pc = Handlers /\ DOMAIN debitSeq = Starts
  BY DEF TypeOK, Handlers
<1>2. CASE Debit(s) \/ DebitLost(s)
  <2>1. /\ pc[s] = "running"
        /\ DebitBalance(work[s], payer[work[s]], Units, debitSeq[s] + 1)
    BY <1>2, Zenon DEF Debit, DebitLost
  <2>2. ChargedFor(s, debitSeq[s])
    BY <2>1, Zenon DEF SoleInv
  <2>3. PICK n \in Nat : n = debitSeq[s]
    BY <1>a
  <2>4. ChargedFor(s, n + 1)'
    BY <2>1, <2>2, <2>3, <1>1, TickCharged, Zenon
  <2>5. CASE Debit(s)
    <3>1. debitSeq'[s] = n + 1
      BY <2>3, <2>5, <1>a, Zenon DEF Debit
    <3> QED
      BY <2>4, <3>1, Zenon DEF ChargedFor, Cost
  <2>6. CASE DebitLost(s)
    <3>1. debitSeq'[s] = n /\ pc'[s] = "close"
      BY <2>3, <2>6, <1>a, Zenon DEF DebitLost, Goto
    <3> QED
      BY <2>4, <3>1, Zenon DEF ChargedFor, Cost, Accepted, Serving
  <2> QED
    BY <1>2, <2>5, <2>6, Zenon
<1>3. CASE ~(Debit(s) \/ DebitLost(s))
  <2>1. debitSeq'[s] = debitSeq[s]
    BY <1>3, StartMoves, Zenon
  <2>2. work[s] \notin {work[o] : o \in {o \in Starts : Debit(o) \/ DebitLost(o)}}
    BY <1>3, SMTT(30) DEF Unshared, Others
  <2>3. /\ debitReplays'[work[s]] = debitReplays[work[s]]
        /\ credited'[work[s]] - balances'[work[s]] = credited[work[s]] - balances[work[s]]
    BY <2>2, <1>a, Calls, Ledger, SpentKept, Zenon
  <2>4. /\ balances[work[s]] \in Int /\ credited[work[s]] \in Int
        /\ balances'[work[s]] \in Int /\ credited'[work[s]] \in Int
    BY <1>a, SMTT(30) DEF TypeOK, DaemonTypeOK
  <2>5. ASSUME NEW n \in Nat, ChargedFor(s, n)
        PROVE  ChargedFor(s, n)'
    <3>1. Cost(n) \in Int
      BY CostStep, SMTT(30)
    <3>2. balances'[work[s]] = credited'[work[s]] - Cost(n)
      BY <2>3, <2>4, <2>5, <3>1, SMTT(30) DEF ChargedFor
    <3> QED
      BY <1>1, <2>3, <2>5, <3>2, Zenon DEF ChargedFor, Cost
  <2>6. PICK n \in Nat : n = debitSeq[s]
    BY <1>a, Zenon
  <2>7. CASE ChargedFor(s, debitSeq[s])
    BY <2>1, <2>5, <2>6, <2>7, Zenon DEF ChargedFor, Cost
  <2>8. CASE /\ ChargedFor(s, debitSeq[s] + 1)
             /\ pc[s] \in Accepted \ {"backend", "running"}
    <3>1. ChargedFor(s, n + 1)'
      BY <2>5, <2>6, <2>8, SMTT(30)
    <3>2. pc'[s] \in Accepted \ {"backend", "running"}
      BY <2>8, StartMoves, Labels, Zenon
    <3> QED
      BY <2>1, <2>6, <2>8, <3>1, <3>2, Zenon DEF ChargedFor, Cost
  <2> QED
    BY <2>7, <2>8, Zenon DEF SoleInv
<1> QED
  BY <1>2, <1>3, Zenon

-----------------------------------------------------------------------------
(* The semaphore. *)

Holders == {s \in Starts : pc[s] \in Holds}

(* A start request or its session takes a slot when it comes to hold one   *)
(* and gives it back when it ceases to: the hand-over in Accept moves none. *)
LEMMA SlotMoves ==
  ASSUME TypeOK, NEW s \in Starts, Start(s) \/ Session(s)
  PROVE  /\ \A o \in Starts \ {s} : pc'[o] = pc[o]
         /\ \/ pc[s] \notin Holds /\ pc'[s] \in Holds /\ paidSem' = paidSem + 1
            \/ pc[s] \in Holds /\ pc'[s] \notin Holds /\ paidSem' = paidSem - 1
            \/ (pc[s] \in Holds <=> pc'[s] \in Holds) /\ paidSem' = paidSem
<1>a. Starts \subseteq Handlers /\ DOMAIN pc = Handlers
  BY DEF TypeOK, Handlers
<1>1. CASE Start(s)
  BY <1>1, <1>a, Labels, Zenon
     DEF Start, Acquire, Invalid, Open, OpenFails, Pay, PayFails, Accept, Reject, Goto
<1>2. CASE \/ BackendOpens(s) \/ BackendFails(s) \/ Debit(s) \/ DebitLost(s)
           \/ ServeEnds(s) \/ AdapterClose(s)
  BY <1>2, <1>a, Labels, Zenon
     DEF BackendOpens, BackendFails, Debit, DebitLost, ServeEnds, AdapterClose, Goto
<1>3. CASE OnClose(s) \/ ReleaseSem(s)
  BY <1>3, <1>a, Labels, Zenon DEF OnClose, ReleaseSem, Goto
<1> QED
  BY <1>1, <1>2, <1>3, Zenon DEF Session

(* The library's facts under a name of their own, after the proofs that do *)
(* not count.                                                              *)
LOCAL Lib == INSTANCE FiniteSetTheorems

(* The library counts as FiniteSets does. *)
LEMMA LibCounts ==
  \A S : Cardinality(S) = Lib!Cardinality(S) /\ (IsFiniteSet(S) <=> Lib!IsFiniteSet(S))
BY DEF Cardinality, Lib!Cardinality, IsFiniteSet, Lib!IsFiniteSet

(* Who takes a slot is one more holder among finitely many requests, who   *)
(* gives it back one less.                                                 *)
LEMMA Counting ==
  ASSUME NEW T, IsFiniteSet(T), NEW S, S \subseteq T
  PROVE  /\ Cardinality({}) = 0 /\ Cardinality(S) \in Nat
         /\ \A x : x \notin S => Cardinality(S \cup {x}) = Cardinality(S) + 1
         /\ \A x \in S : Cardinality(S \ {x}) = Cardinality(S) - 1
<1>1. IsFiniteSet(S)
  BY LibCounts, Lib!FS_Subset
<1>2. Cardinality({}) = 0 /\ Cardinality(S) \in Nat
  BY <1>1, LibCounts, Lib!FS_EmptySet, Lib!FS_CardinalityType
<1>3. \A x : x \notin S => Cardinality(S \cup {x}) = Cardinality(S) + 1
  BY <1>1, LibCounts, Lib!FS_AddElement
<1>4. \A x \in S : Cardinality(S \ {x}) = Cardinality(S) - 1
  BY <1>1, LibCounts, Lib!FS_RemoveElement
<1> QED
  BY <1>2, <1>3, <1>4

(* Every step keeps SlotsConserved, so a release finds a slot to give back. *)
LEMMA SlotsStep ==
  ASSUME TypeOK, SlotsConserved, [Next]_vars
  PROVE  SlotsConserved' /\ paidSem' \in Nat
<1>1. Holders \subseteq Starts /\ Holders' \subseteq Starts /\ IsFiniteSet(Starts)
  BY RouteAssumption DEF Holders
<1>2. paidSem = Cardinality(Holders)
  BY DEF SlotsConserved, Holders, Holds
<1>3. ASSUME NEW s \in Starts, Start(s) \/ Session(s)
      PROVE  paidSem' = Cardinality(Holders')
  <2>1. CASE pc[s] \notin Holds /\ pc'[s] \in Holds /\ paidSem' = paidSem + 1
    <3>1. Holders' = Holders \cup {s} /\ s \notin Holders
      BY <1>3, <2>1, SlotMoves, Zenon DEF Holders
    <3>2. Cardinality(Holders \cup {s}) = Cardinality(Holders) + 1
      BY <1>1, <3>1, Counting, Zenon
    <3> QED
      BY <1>1, <1>2, <2>1, <3>1, <3>2, Zenon
  <2>2. CASE pc[s] \in Holds /\ pc'[s] \notin Holds /\ paidSem' = paidSem - 1
    <3>1. Holders' = Holders \ {s} /\ s \in Holders
      BY <1>3, <2>2, SlotMoves, Zenon DEF Holders
    <3>2. Cardinality(Holders \ {s}) = Cardinality(Holders) - 1
      BY <1>1, <3>1, Counting, Zenon
    <3> QED
      BY <1>1, <1>2, <2>2, <3>1, <3>2, Zenon
  <2>3. CASE (pc[s] \in Holds <=> pc'[s] \in Holds) /\ paidSem' = paidSem
    <3>1. Holders' = Holders
      BY <1>3, <2>3, SlotMoves, SMTT(30) DEF Holders
    <3> QED
      BY <1>2, <2>3, <3>1, Zenon
  <2> QED
    BY <1>3, <2>1, <2>2, <2>3, SlotMoves, Zenon
<1>4. ASSUME paidSem' = paidSem, \A s \in Starts : pc'[s] = pc[s]
      PROVE  paidSem' = Cardinality(Holders')
  <2>1. Holders' = Holders
    BY <1>4 DEF Holders
  <2> QED
    BY <1>2, <1>4, <2>1, Zenon
<1>5. paidSem' = Cardinality(Holders')
  BY <1>3, <1>4, OwnTurn, Zenon
<1>6. Cardinality(Holders') \in Nat
  BY <1>1, Counting, Zenon
<1> QED
  BY <1>5, <1>6, Zenon DEF SlotsConserved, Holders, Holds

-----------------------------------------------------------------------------

(* Nothing is held, registered, read or charged at first. *)
LEMMA RouteInit == Init => RouteInv
<1> SUFFICES ASSUME Init PROVE RouteInv
  OBVIOUS
<1>1. \A h \in Starts \cup Ends \cup Topups : pc[h] = "idle"
  BY DEF Init, Handlers
<1>2. TypeOK
  <2>1. DaemonTypeOK
    BY DaemonInitType, Zenon DEF Init
  <2> QED
    BY <2>1, RouteAssumption, SMTT(30) DEF TypeOK, Init
<1>3. SlotsConserved
  <2>1. {s \in Starts : pc[s] \in Handling \cup Serving} = {}
    BY <1>1, Zenon DEF Handling, Serving
  <2> QED
    BY <2>1, RouteAssumption, Counting, Zenon DEF SlotsConserved, Init
<1>4. NoRegistryLeak /\ RefusedNotCharged
  BY DEF NoRegistryLeak, RefusedNotCharged, Init, DaemonInit, NoReplays
<1>5. PaidInv /\ SettledInv /\ Addressable
  BY <1>1, Zenon DEF PaidInv, SettledInv, Addressable, Init, Accepted, Serving
<1>6. SoleInv
  <2> SUFFICES ASSUME NEW s \in Starts PROVE ChargedFor(s, debitSeq[s])
    BY DEF SoleInv
  <2>1. /\ debitSeq[s] = 0 /\ balances[work[s]] = 0 /\ credited[work[s]] = 0
        /\ DOMAIN debitReplays[work[s]] = {}
    BY DEF Init, DaemonInit, NoReplays
  <2>2. Cost(0) = 0
    <3>1. \A p, u \in Nat : 0 * p * u = 0
      BY SMTT(30)
    <3> QED
      BY <3>1, RouteAssumption, DaemonAssumption, Zenon DEF Cost
  <2> QED
    BY <2>1, <2>2, SMTT(30) DEF ChargedFor
<1> QED
  BY <1>2, <1>3, <1>4, <1>5, <1>6, Zenon DEF RouteInv

(* Every step keeps the invariant. *)
LEMMA RouteNext == RouteInv /\ [Next]_vars => RouteInv'
<1> SUFFICES ASSUME RouteInv, [Next]_vars PROVE RouteInv'
  OBVIOUS
<1>1. /\ TypeOK /\ SlotsConserved /\ NoRegistryLeak /\ RefusedNotCharged
      /\ PaidInv /\ SettledInv /\ Addressable /\ SoleInv
  BY DEF RouteInv
<1>2. TypeOK' /\ SlotsConserved' /\ NoRegistryLeak'
  BY <1>1, TypeOKStep, SlotsStep, RegistryStep, Zenon
<1>3. PaidInv' /\ SettledInv' /\ Addressable'
  BY <1>1, PaidStep, SettledStep, AddressableStep, Zenon
<1>4. RefusedNotCharged' /\ SoleInv'
  BY <1>1, <1>2, RefusedStep, SoleStep, Zenon
<1> QED
  BY <1>2, <1>3, <1>4, Zenon DEF RouteInv

(* The invariant of the routes. *)
THEOREM RouteInvariant == Spec => []RouteInv
<1> QED
  BY RouteInit, RouteNext, PTL DEF Spec

(* The semaphore counts exactly the start handlers and the session         *)
(* goroutines alive, whoever fails on the way.                             *)
THEOREM SlotsAlwaysConserved == Spec => []SlotsConserved
<1> QED
  BY RouteInvariant, PTL DEF RouteInv

(* A registry entry names a session whose goroutine is alive and will      *)
(* delete it.                                                              *)
THEOREM RegistryNeverLeaks == Spec => []NoRegistryLeak
<1> QED
  BY RouteInvariant, PTL DEF RouteInv

(* A payment is charged only after a start that presents it was accepted.  *)
THEOREM RefusedNeverCharged == Spec => []RefusedNotCharged
<1> QED
  BY RouteInvariant, PTL DEF RouteInv

(* Handlers, registry, semaphore, backend and ledger keep their types. *)
THEOREM RouteTypesKept == Spec => []TypeOK
<1> QED
  BY RouteInvariant, PTL DEF RouteInv

(* What /end and /topup read from the registry was opened for the offering *)
(* and is bound to the sender who paid for it.                             *)
THEOREM EntriesAlwaysPaid == Spec => []EntriesArePaid
<1>1. RouteInv => EntriesArePaid
  BY DEF RouteInv, PaidInv, Paid, EntriesArePaid
<1> QED
  BY <1>1, RouteInvariant, PTL

(* A session alone on its gateway id is reachable through the registry     *)
(* while Serve runs, until an /end for it answered "ended".                *)
THEOREM AlwaysAddressable == Spec => []Addressable
<1> QED
  BY RouteInvariant, PTL DEF RouteInv

(* Every debit of a session alone on its payment is charged exactly once,  *)
(* also when its reply is lost.                                            *)
THEOREM AlwaysChargedForItself == Spec => []ChargedForItself
<1>1. RouteInv => ChargedForItself
  BY DEF RouteInv, SoleInv, Unshared, ChargedFor, Cost, ChargedForItself
<1> QED
  BY <1>1, RouteInvariant, PTL

(* After /end answered "ended" no step moves the session's money.          *)
THEOREM AlwaysSettledAfterEnd == Spec => SettledAfterEnd
<1>1. RouteInv /\ [Next]_vars =>
        [\A e \in Ends : pc[e] = "ok" =>
           UNCHANGED <<balances[info[e]], credited[info[e]]>>]_vars
  BY SettledNow, Zenon DEF RouteInv
<1> QED
  BY <1>1, RouteInvariant, PTL DEF Spec, SettledAfterEnd
=============================================================================
