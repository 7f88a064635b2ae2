---------------------------- MODULE PayeeDaemon ----------------------------
(***************************************************************************)
(* The payment daemon, as the worker sees it through payeedaemon.Client.   *)
(* The daemon itself is another program; the semantics here are those of   *)
(* payeedaemon.Fake (internal/providers/payeedaemon/fake.go), the ledger   *)
(* the repository keeps to stand for it, which serialises every call under *)
(* one mutex.  Each operation is an action on the ledger.  A caller        *)
(* conjoins it with its own step, and adds the error replies: a call may   *)
(* fail before it reaches the ledger, and a reply may be lost after the    *)
(* ledger has changed.                                                     *)
(***************************************************************************)
EXTENDS Integers

CONSTANTS
  WorkIDs,    \* work ids: hashes of payment blobs (deriveWorkID)
  Senders,    \* payer addresses
  NoSender,   \* a session no payment has bound yet
  Offerings,  \* catalog entries: (capability, offering, work unit, price)
  NoOffering, \* the binding of a work id no session was opened for
  PriceOf,    \* price_per_work_unit_wei of each offering
  Credits     \* expected values ProcessPayment may credit

ASSUME DaemonAssumption ==
  /\ NoSender \notin Senders
  /\ NoOffering \notin Offerings
  /\ PriceOf \in [Offerings -> Nat]
  /\ Credits \subseteq Nat

VARIABLES
  status,       \* sessions[w]: no entry, open, or Closed
  binding,      \* the metadata OpenSession fixed
  sender,       \* the sender the first ProcessPayment fixed
  balances,     \* balance of (sender, w); one sender per session
  debitReplays, \* balance recorded for every debit_seq applied to w
  credited      \* history: total credited to w

daemonVars == <<status, binding, sender, balances, debitReplays, credited>>

NoReplays == [s \in {} |-> 0]

DaemonInit ==
  /\ status = [w \in WorkIDs |-> "none"]
  /\ binding = [w \in WorkIDs |-> NoOffering]
  /\ sender = [w \in WorkIDs |-> NoSender]
  /\ balances = [w \in WorkIDs |-> 0]
  /\ debitReplays = [w \in WorkIDs |-> NoReplays]
  /\ credited = [w \in WorkIDs |-> 0]

DaemonTypeOK ==
  /\ status \in [WorkIDs -> {"none", "open", "closed"}]
  /\ binding \in [WorkIDs -> Offerings \cup {NoOffering}]
  /\ sender \in [WorkIDs -> Senders \cup {NoSender}]
  /\ balances \in [WorkIDs -> Int]
  /\ credited \in [WorkIDs -> Nat]
  /\ DOMAIN debitReplays = WorkIDs
  /\ \A w \in WorkIDs : debitReplays[w] \in [DOMAIN debitReplays[w] -> Int]

-----------------------------------------------------------------------------
(* OpenSession: a new entry, or an idempotent re-open of the same binding. *)
OpenSessionAccepted(w, o) ==
  status[w] = "none" \/ (status[w] = "open" /\ binding[w] = o)

OpenSession(w, o) ==
  /\ OpenSessionAccepted(w, o)
  /\ status' = [status EXCEPT ![w] = "open"]
  /\ binding' = [binding EXCEPT ![w] = o]
  /\ UNCHANGED <<sender, balances, debitReplays, credited>>

(* ProcessPayment binds the sender on first use and credits the balance.   *)
ProcessPaymentAccepted(w, s) ==
  status[w] = "open" /\ sender[w] \in {NoSender, s}

ProcessPayment(w, s, ev) ==
  /\ ProcessPaymentAccepted(w, s)
  /\ sender' = [sender EXCEPT ![w] = s]
  /\ balances' = [balances EXCEPT ![w] = @ + ev]
  /\ credited' = [credited EXCEPT ![w] = @ + ev]
  /\ UNCHANGED <<status, binding, debitReplays>>

(* DebitBalance and SufficientBalance need an open session bound to s.     *)
BoundTo(w, s) == status[w] = "open" /\ sender[w] = s /\ s # NoSender

WorkCost(w, units) == PriceOf[binding[w]] * units

(* The balance DebitBalance replies with: the recorded one for a replayed  *)
(* sequence number, the fresh one otherwise.                               *)
DebitReply(w, units, seq) ==
  IF seq \in DOMAIN debitReplays[w]
  THEN debitReplays[w][seq]
  ELSE balances[w] - WorkCost(w, units)

DebitBalance(w, s, units, seq) ==
  /\ BoundTo(w, s)
  /\ \/ /\ seq \in DOMAIN debitReplays[w]
        /\ UNCHANGED <<balances, debitReplays>>
     \/ /\ seq \notin DOMAIN debitReplays[w]
        /\ balances' = [balances EXCEPT ![w] = @ - WorkCost(w, units)]
        /\ debitReplays' =
             [debitReplays EXCEPT ![w] =
                [q \in DOMAIN debitReplays[w] \cup {seq} |->
                   IF q = seq THEN balances[w] - WorkCost(w, units)
                              ELSE debitReplays[w][q]]]
  /\ UNCHANGED <<status, binding, sender, credited>>

SufficientBalance(w, minUnits) == balances[w] >= WorkCost(w, minUnits)

(* CloseSession is idempotent; nothing reopens a closed session.           *)
CloseSessionAccepted(w, s) == status[w] # "none" /\ sender[w] \in {NoSender, s}

CloseSession(w, s) ==
  /\ CloseSessionAccepted(w, s)
  /\ status' = [status EXCEPT ![w] = "closed"]
  /\ UNCHANGED <<binding, sender, balances, debitReplays, credited>>
=============================================================================
