------------------------- MODULE PayeeDaemonProofs -------------------------
(***************************************************************************)
(* Facts about the ledger operations of PayeeDaemon that the proofs about  *)
(* its callers rest on: each keeps the ledger well typed, and DebitBalance *)
(* is idempotent in its sequence number.                                   *)
(***************************************************************************)
EXTENDS PayeeDaemon, TLAPS

(* The empty ledger is well typed. *)
LEMMA DaemonInitType == DaemonInit => DaemonTypeOK
BY DEF DaemonInit, DaemonTypeOK, NoReplays

(* OpenSession keeps the ledger well typed. *)
LEMMA OpenSessionType ==
  ASSUME DaemonTypeOK, NEW w \in WorkIDs, NEW o \in Offerings, OpenSession(w, o)
  PROVE  DaemonTypeOK'
BY DEF DaemonTypeOK, OpenSession

(* ProcessPayment keeps the ledger well typed. *)
LEMMA ProcessPaymentType ==
  ASSUME DaemonTypeOK, NEW w \in WorkIDs, NEW s \in Senders, NEW ev \in Credits,
         ProcessPayment(w, s, ev)
  PROVE  DaemonTypeOK'
BY DaemonAssumption DEF DaemonTypeOK, ProcessPayment

(* CloseSession keeps the ledger well typed. *)
LEMMA CloseSessionType ==
  ASSUME DaemonTypeOK, NEW w \in WorkIDs, NEW s, CloseSession(w, s)
  PROVE  DaemonTypeOK'
BY DEF DaemonTypeOK, CloseSession

(* The price of work is a natural number once the session is bound to an   *)
(* offering, as OpenSession leaves it.                                     *)
LEMMA WorkCostType ==
  ASSUME NEW w \in WorkIDs, binding[w] \in Offerings, NEW units \in Nat
  PROVE  WorkCost(w, units) \in Nat
<1>1. PriceOf[binding[w]] \in Nat
  BY DaemonAssumption
<1>2. \A a, b \in Nat : a * b \in Nat
  OBVIOUS
<1> QED
  BY <1>1, <1>2 DEF WorkCost

(* A replayed sequence number changes nothing: the ledger is idempotent.   *)
LEMMA DebitReplayed ==
  ASSUME NEW w, NEW s, NEW units, NEW seq, DebitBalance(w, s, units, seq),
         seq \in DOMAIN debitReplays[w]
  PROVE  UNCHANGED daemonVars
BY DEF DebitBalance, daemonVars

(* A new sequence number is charged once and its reply recorded.           *)
LEMMA DebitFresh ==
  ASSUME DaemonTypeOK, NEW w \in WorkIDs, NEW s, NEW units \in Nat, NEW seq,
         binding[w] \in Offerings,
         DebitBalance(w, s, units, seq), seq \notin DOMAIN debitReplays[w]
  PROVE  /\ balances'[w] = balances[w] - WorkCost(w, units)
         /\ DOMAIN debitReplays'[w] = DOMAIN debitReplays[w] \cup {seq}
         /\ debitReplays'[w][seq] = balances'[w]
         /\ \A q \in DOMAIN debitReplays[w] : debitReplays'[w][q] = debitReplays[w][q]
         /\ DaemonTypeOK'
<1>1. balances'[w] = balances[w] - WorkCost(w, units) /\ balances'[w] \in Int
  <2>1. WorkCost(w, units) \in Nat
    BY WorkCostType
  <2>2. balances' = [balances EXCEPT ![w] = @ - WorkCost(w, units)]
    BY DEF DebitBalance
  <2> QED
    BY <2>1, <2>2 DEF DaemonTypeOK
<1> DEFINE D == DOMAIN debitReplays[w] \cup {seq}
           R == [q \in D |-> IF q = seq THEN balances[w] - WorkCost(w, units)
                                        ELSE debitReplays[w][q]]
<1>2. debitReplays' = [debitReplays EXCEPT ![w] = R]
  BY DEF DebitBalance
<1>3. debitReplays'[w] = R
  BY <1>2 DEF DaemonTypeOK
<1>4. R \in [D -> Int] /\ DOMAIN R = D
  <2>1. \A q \in DOMAIN debitReplays[w] : debitReplays[w][q] \in Int
    BY DEF DaemonTypeOK
  <2> QED
    BY <2>1, <1>1
<1>5. DaemonTypeOK'
  <2>1. /\ status' = status /\ binding' = binding /\ sender' = sender
        /\ credited' = credited
    BY DEF DebitBalance
  <2>2. balances' \in [WorkIDs -> Int]
    BY <1>1 DEF DebitBalance, DaemonTypeOK
  <2>3. DOMAIN debitReplays' = WorkIDs
    BY <1>2 DEF DaemonTypeOK
  <2>4. ASSUME NEW v \in WorkIDs
        PROVE  debitReplays'[v] \in [DOMAIN debitReplays'[v] -> Int]
    <3>1. CASE v = w
      BY <3>1, <1>3, <1>4
    <3>2. CASE v # w
      <4>1. debitReplays'[v] = debitReplays[v]
        BY <3>2, <1>2 DEF DaemonTypeOK
      <4> QED
        BY <4>1 DEF DaemonTypeOK
    <3> QED
      BY <3>1, <3>2
  <2> QED
    BY <2>1, <2>2, <2>3, <2>4 DEF DaemonTypeOK
<1> QED
  BY <1>1, <1>3, <1>4, <1>5

(* A step that leaves the ledger alone keeps it well typed. *)
LEMMA DaemonStutter ==
  ASSUME DaemonTypeOK, UNCHANGED daemonVars
  PROVE  DaemonTypeOK'
BY DEF DaemonTypeOK, daemonVars

(* DebitBalance keeps the ledger well typed, replayed or fresh. *)
LEMMA DebitBalanceType ==
  ASSUME DaemonTypeOK, NEW w \in WorkIDs, NEW s, NEW units \in Nat, NEW seq,
         binding[w] \in Offerings, DebitBalance(w, s, units, seq)
  PROVE  DaemonTypeOK'
<1>1. CASE seq \in DOMAIN debitReplays[w]
  BY <1>1, DebitReplayed, DaemonStutter
<1>2. CASE seq \notin DOMAIN debitReplays[w]
  BY <1>2, DebitFresh
<1> QED
  BY <1>1, <1>2

-----------------------------------------------------------------------------
(* What a caller may do to the ledger in one step: one call or none, and a *)
(* debit only for a work id in debited whose session is bound to an        *)
(* offering.                                                               *)
DaemonStepOn(debited) ==
  \/ UNCHANGED daemonVars
  \/ \E w \in WorkIDs, o \in Offerings : OpenSession(w, o)
  \/ \E w \in WorkIDs, s \in Senders, ev \in Credits : ProcessPayment(w, s, ev)
  \/ \E w \in WorkIDs \cap debited, s \in Senders, units \in Nat, seq \in Nat :
       binding[w] \in Offerings /\ DebitBalance(w, s, units, seq)
  \/ \E w \in WorkIDs, s \in Senders : CloseSession(w, s)

DaemonStep == DaemonStepOn(WorkIDs)

(* Every call keeps the ledger well typed. *)
LEMMA DaemonStepType ==
  ASSUME DaemonTypeOK, DaemonStep
  PROVE  DaemonTypeOK'
BY DaemonStutter, OpenSessionType, ProcessPaymentType, DebitBalanceType,
   CloseSessionType DEF DaemonStep, DaemonStepOn

(* What was fixed for a work id stays: a session is not forgotten, its     *)
(* offering and its sender do not change, whoever calls the daemon for it. *)
LEMMA BindingKept ==
  ASSUME DaemonTypeOK, DaemonStep, NEW v \in WorkIDs
  PROVE  /\ status[v] # "none" => status'[v] # "none" /\ binding'[v] = binding[v]
         /\ sender[v] # NoSender => sender'[v] = sender[v]
<1>1. CASE UNCHANGED daemonVars
  BY <1>1 DEF daemonVars
<1>2. CASE \E w \in WorkIDs, o \in Offerings : OpenSession(w, o)
  BY <1>2 DEF OpenSession, OpenSessionAccepted, DaemonTypeOK
<1>3. CASE \E w \in WorkIDs, s \in Senders, ev \in Credits : ProcessPayment(w, s, ev)
  BY <1>3 DEF ProcessPayment, ProcessPaymentAccepted, DaemonTypeOK
<1>4. CASE \E w \in WorkIDs, s \in Senders, units \in Nat, seq \in Nat :
             DebitBalance(w, s, units, seq)
  BY <1>4 DEF DebitBalance
<1>5. CASE \E w \in WorkIDs, s \in Senders : CloseSession(w, s)
  BY <1>5 DEF CloseSession, CloseSessionAccepted, DaemonTypeOK
<1> QED
  BY <1>1, <1>2, <1>3, <1>4, <1>5 DEF DaemonStep, DaemonStepOn

(* Nothing moves the money of a closed session or reopens it. *)
LEMMA ClosedIsFinal ==
  ASSUME DaemonTypeOK, DaemonStep, NEW v \in WorkIDs, status[v] = "closed"
  PROVE  /\ status'[v] = "closed"
         /\ balances'[v] = balances[v] /\ credited'[v] = credited[v]
         /\ debitReplays'[v] = debitReplays[v]
<1>1. CASE UNCHANGED daemonVars
  BY <1>1 DEF daemonVars
<1>2. CASE \E w \in WorkIDs, o \in Offerings : OpenSession(w, o)
  BY <1>2 DEF OpenSession, OpenSessionAccepted, DaemonTypeOK
<1>3. CASE \E w \in WorkIDs, s \in Senders, ev \in Credits : ProcessPayment(w, s, ev)
  BY <1>3 DEF ProcessPayment, ProcessPaymentAccepted, DaemonTypeOK
<1>4. ASSUME NEW w \in WorkIDs, NEW s, NEW units, NEW seq,
             DebitBalance(w, s, units, seq)
      PROVE  /\ status'[v] = "closed"
             /\ balances'[v] = balances[v] /\ credited'[v] = credited[v]
             /\ debitReplays'[v] = debitReplays[v]
  <2>1. w # v /\ status' = status /\ credited' = credited
    BY <1>4 DEF DebitBalance, BoundTo
  <2>2. balances'[v] = balances[v] /\ debitReplays'[v] = debitReplays[v]
    BY <1>4, <2>1 DEF DebitBalance, DaemonTypeOK
  <2> QED
    BY <2>1, <2>2
<1>5. CASE \E w \in WorkIDs, s \in Senders : CloseSession(w, s)
  BY <1>5 DEF CloseSession, DaemonTypeOK
<1> QED
  BY <1>1, <1>2, <1>3, <1>4, <1>5 DEF DaemonStep, DaemonStepOn

(* A debit recorded on the ledger stays recorded, with its reply. *)
LEMMA ReplaysKept ==
  ASSUME DaemonTypeOK, DaemonStep, NEW v \in WorkIDs,
         NEW q \in DOMAIN debitReplays[v]
  PROVE  q \in DOMAIN debitReplays'[v] /\ debitReplays'[v][q] = debitReplays[v][q]
<1>1. ASSUME NEW w \in WorkIDs, NEW s, NEW units \in Nat, NEW seq,
             binding[w] \in Offerings, DebitBalance(w, s, units, seq)
      PROVE  q \in DOMAIN debitReplays'[v] /\ debitReplays'[v][q] = debitReplays[v][q]
  <2>1. CASE seq \in DOMAIN debitReplays[w]
    BY <1>1, <2>1, DebitReplayed DEF daemonVars
  <2>2. CASE seq \notin DOMAIN debitReplays[w] /\ v = w
    BY <1>1, <2>2, DebitFresh
  <2>3. CASE seq \notin DOMAIN debitReplays[w] /\ v # w
    <3>1. debitReplays'[v] = debitReplays[v]
      BY <1>1, <2>3 DEF DebitBalance, DaemonTypeOK
    <3> QED
      BY <3>1
  <2> QED
    BY <2>1, <2>2, <2>3
<1>2. ASSUME debitReplays' = debitReplays
      PROVE  q \in DOMAIN debitReplays'[v] /\ debitReplays'[v][q] = debitReplays[v][q]
  BY <1>2
<1> QED
  BY <1>1, <1>2 DEF DaemonStep, DaemonStepOn, daemonVars, OpenSession, ProcessPayment,
                    CloseSession

(* What is spent of a payment changes only by a debit for its work id. *)
LEMMA SpentKept ==
  ASSUME DaemonTypeOK, NEW debited, DaemonStepOn(debited), NEW v \in WorkIDs,
         v \notin debited
  PROVE  /\ debitReplays'[v] = debitReplays[v]
         /\ credited'[v] - balances'[v] = credited[v] - balances[v]
<1>1. CASE UNCHANGED <<balances, credited, debitReplays>>
  BY <1>1
<1>2. ASSUME NEW w \in WorkIDs, NEW s, NEW ev \in Credits, ProcessPayment(w, s, ev)
      PROVE  /\ debitReplays'[v] = debitReplays[v]
             /\ credited'[v] - balances'[v] = credited[v] - balances[v]
  <2>1. /\ debitReplays' = debitReplays
        /\ w # v => balances'[v] = balances[v] /\ credited'[v] = credited[v]
        /\ w = v => balances'[v] = balances[v] + ev /\ credited'[v] = credited[v] + ev
    BY <1>2 DEF ProcessPayment, DaemonTypeOK
  <2>2. balances[v] \in Int /\ credited[v] \in Int /\ ev \in Int
    BY DaemonAssumption DEF DaemonTypeOK
  <2> QED
    BY <2>1, <2>2
<1>3. ASSUME NEW w \in WorkIDs \cap debited, NEW s, NEW units, NEW seq,
             DebitBalance(w, s, units, seq)
      PROVE  /\ debitReplays'[v] = debitReplays[v]
             /\ balances'[v] = balances[v] /\ credited' = credited
  BY <1>3 DEF DebitBalance, DaemonTypeOK
<1> QED
  BY <1>1, <1>2, <1>3 DEF DaemonStepOn, daemonVars, OpenSession, CloseSession
=============================================================================
