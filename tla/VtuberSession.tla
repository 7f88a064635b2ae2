--------------------------- MODULE VtuberSession ---------------------------
(***************************************************************************)
(* One call of vtuber_session.Module.Serve: the session goroutine, the     *)
(* bridgeReader goroutine it starts, the PaymentSession adapter it debits  *)
(* through, and what the rest of the worker may do to the same payment     *)
(* session meanwhile (top-ups and /end).  The route opened the session and *)
(* credited its first payment before Serve starts.                         *)
(*                                                                         *)
(* A definition named D_Flaw is definition D with a plausible bug; nothing *)
(* uses it but the mutation runs.                                          *)
(***************************************************************************)
EXTENDS PayeeDaemon, Sequences

CONSTANTS
  WorkID, Sender, Offering, \* what the route passed to OpenSession
  Units,             \* work units per tick: DebitCadence in seconds, at least 1
  RunwayMinUnits,
  DebitRetryBudget,
  InboundEvents,     \* events the bridge may send; none from the stub bridge
  InboundCap,        \* capacity of inboundCh (16 in the code)
  Int64Max,          \* 2^63 - 1
  SignedClient,      \* does the daemon client keep a balance's sign?
  Cancellable,       \* can the context passed to Serve be cancelled?
  MaxCredited,       \* bound: no top-up takes the total credit above this
  MaxTicks           \* bound: debit_seq

ASSUME SessionAssumption ==
  /\ WorkID \in WorkIDs /\ Sender \in Senders /\ Offering \in Offerings
  /\ Units \in Nat \ {0}
  /\ RunwayMinUnits \in Nat
  /\ DebitRetryBudget \in Nat \ {0}
  /\ InboundEvents \subseteq {"session.end", "other"}
  /\ InboundCap \in Nat \ {0}
  /\ Int64Max \in Nat \ {0}
  /\ SignedClient \in BOOLEAN /\ Cancellable \in BOOLEAN
  /\ MaxCredited \in Nat /\ MaxTicks \in Nat

VARIABLES
  pc,              \* where the session goroutine is
  attempt,         \* attempt of debitWithRetry
  balance,         \* the balance the last successful Debit returned
  cumulativeUnits, debitSeq,
  inLowBalance,
  graceTimerCh,    \* is the grace timer set?
  endReason,
  events,          \* history: every event passed to Bridge.Send
  closed,          \* paymentSessionAdapter.closed
  reader,          \* bridgeReader: in Recv, sending an event, or exited
  inboundCh,
  inboundErrCh,
  closedReceives,  \* history: receives from the closed inboundCh, up to 2
  ctxDone

usageVars == <<balance, cumulativeUnits, debitSeq>>
lowVars == <<inLowBalance, graceTimerCh>>
outcomeVars == <<endReason, events>>
bridgeVars == <<reader, inboundCh, inboundErrCh, closedReceives>>
vars == <<daemonVars, pc, attempt, usageVars, lowVars, outcomeVars, closed,
          bridgeVars, ctxDone>>

-----------------------------------------------------------------------------
(* Events sent to the bridge. *)
EndReasons == {"user_end", "balance_exhausted", "fatal_error", "shutdown"}
ErrorCodes == {"balance_exhausted", "payment_unreachable", "backend_down", "fatal"}

Ready == [type |-> "session.ready"]
UsageTick_Stale(seq, cumulative) ==
  [type |-> "session.usage.tick", seq |-> seq - 1, cumulative |-> cumulative]
UsageTick(seq, cumulative) ==
  [type |-> "session.usage.tick", seq |-> seq, cumulative |-> cumulative]
BalanceLow(runway) == [type |-> "session.balance.low", runway |-> runway]
BalanceRefilled == [type |-> "session.balance.refilled"]
Error(code, recoverable) ==
  [type |-> "session.error", code |-> code, recoverable |-> recoverable]
Ended(reason, units) ==
  [type |-> "session.ended", reason |-> reason, units |-> units]

Events ==
  [type : {"session.ready", "session.balance.refilled"}]
    \cup [type : {"session.usage.tick"}, seq : Nat, cumulative : Nat]
    \cup [type : {"session.balance.low"}, runway : Int]
    \cup [type : {"session.error"}, code : ErrorCodes, recoverable : BOOLEAN]
    \cup [type : {"session.ended"}, reason : EndReasons, units : Nat]

emit(evs) == events' = events \o evs

(* recordEnd keeps the first reason. *)
recordEnd(reason) == endReason' = IF endReason = "" THEN reason ELSE endReason

-----------------------------------------------------------------------------
(* Conversions on the way from the daemon's ledger to the module.  The     *)
(* gRPC client rebuilds the balance from bytes that carry no sign          *)
(* (SetBytes); wei64 saturates what does not fit an int64.                 *)
DecodeBalance(b) == IF SignedClient \/ b >= 0 THEN b ELSE -b

wei64(b) ==
  CASE b \in (-Int64Max - 1)..Int64Max -> b
    [] b < -Int64Max - 1               -> -1
    [] OTHER                           -> (Int64Max - 1) \div 2

Debited(seq) == wei64(DecodeBalance(DebitReply(WorkID, Units, seq)))

-----------------------------------------------------------------------------
Init ==
  /\ status = [w \in WorkIDs |-> "open"]
  /\ binding = [w \in WorkIDs |-> Offering]
  /\ sender = [w \in WorkIDs |-> Sender]
  /\ \E ev \in Credits : credited = [w \in WorkIDs |-> ev]
  /\ balances = credited
  /\ debitReplays = [w \in WorkIDs |-> NoReplays]
  /\ pc = "open" /\ attempt = 1
  /\ balance = 0 /\ cumulativeUnits = 0 /\ debitSeq = 0
  /\ inLowBalance = FALSE /\ graceTimerCh = FALSE
  /\ endReason = "" /\ events = <<>> /\ closed = FALSE
  /\ reader = "unstarted" /\ inboundCh = <<>> /\ inboundErrCh = "empty"
  /\ closedReceives = 0
  /\ ctxDone = FALSE

(* The state of a session, of its reader and of the ledger is of its type. *)
TypeOK ==
  /\ DaemonTypeOK
  /\ pc \in {"open", "select", "debit", "retry", "sufficient",
             "recheck", "ending", "close", "returned"}
  /\ attempt \in 1..DebitRetryBudget
  /\ balance \in Int /\ cumulativeUnits \in Nat /\ debitSeq \in Nat
  /\ inLowBalance \in BOOLEAN /\ graceTimerCh \in BOOLEAN
  /\ endReason \in EndReasons \cup {""}
  /\ events \in Seq(Events)
  /\ closed \in BOOLEAN
  /\ reader \in {"unstarted", "recv", "session.end", "other", "exited"}
  /\ inboundCh \in Seq({"session.end", "other"})
  /\ inboundErrCh \in {"empty", "full", "nil"}
  /\ closedReceives \in 0..2
  /\ ctxDone \in BOOLEAN

-----------------------------------------------------------------------------
(* Serve up to the loop. *)

(* The way out of every fatal path: the reason, the error event, the defer. *)
Fail(reason, evs) ==
  /\ recordEnd(reason) /\ emit(evs)
  /\ pc' = "ending"

BackendOpenFails ==
  /\ pc = "open"
  /\ Fail("fatal_error", <<Error("backend_down", FALSE)>>)
  /\ UNCHANGED <<daemonVars, attempt, usageVars, lowVars, closed, bridgeVars, ctxDone>>

BackendOpens ==
  /\ pc = "open"
  /\ pc' = "select"
  /\ emit(<<Ready>>)
  /\ reader' = "recv"
  /\ UNCHANGED <<daemonVars, attempt, usageVars, lowVars, endReason, closed,
                 inboundCh, inboundErrCh, closedReceives, ctxDone>>

-----------------------------------------------------------------------------
(* tick: debitWithRetry, then the Sufficient check. *)
Tick_FromZero ==
  /\ pc = "select" /\ debitSeq < MaxTicks
  /\ pc' = "debit" /\ attempt' = 0
  /\ UNCHANGED <<daemonVars, usageVars, lowVars, outcomeVars, closed, bridgeVars,
                 ctxDone>>

Tick ==
  /\ pc = "select" /\ debitSeq < MaxTicks
  /\ pc' = "debit" /\ attempt' = 1
  /\ UNCHANGED <<daemonVars, usageVars, lowVars, outcomeVars, closed, bridgeVars,
                 ctxDone>>

DebitSucceeds_Unchecked ==
  /\ pc = "debit"
  /\ DebitBalance(WorkID, Sender, Units, debitSeq + 1)
  /\ debitSeq' = debitSeq + 1
  /\ balance' = Debited(debitSeq + 1)
  /\ cumulativeUnits' = cumulativeUnits + Units
  /\ emit(<<UsageTick(debitSeq', cumulativeUnits')>>)
  /\ pc' = "sufficient"
  /\ UNCHANGED <<endReason, attempt, lowVars, closed, bridgeVars, ctxDone>>

(* Debit answers.  A negative balance ends the session before the usage    *)
(* tick is counted or reported.                                            *)
DebitSucceeds ==
  /\ pc = "debit"
  /\ DebitBalance(WorkID, Sender, Units, debitSeq + 1)
  /\ debitSeq' = debitSeq + 1
  /\ balance' = Debited(debitSeq + 1)
  /\ \/ /\ balance' >= 0
        /\ cumulativeUnits' = cumulativeUnits + Units
        /\ emit(<<UsageTick(debitSeq', cumulativeUnits')>>)
        /\ pc' = "sufficient"
        /\ UNCHANGED endReason
     \/ /\ balance' < 0
        /\ Fail("fatal_error", <<Error("balance_exhausted", FALSE)>>)
        /\ UNCHANGED cumulativeUnits
  /\ UNCHANGED <<attempt, lowVars, closed, bridgeVars, ctxDone>>

FirstFailureWarning ==
  IF attempt = 1 THEN <<Error("payment_unreachable", TRUE)>> ELSE <<>>

DebitFails_TakesSeq ==
  /\ pc = "debit"
  /\ \/ DebitBalance(WorkID, Sender, Units, debitSeq + 1)
     \/ UNCHANGED daemonVars
  /\ debitSeq' = debitSeq + 1
  /\ pc' = "retry" /\ emit(FirstFailureWarning)
  /\ UNCHANGED <<attempt, balance, cumulativeUnits, endReason, lowVars, closed,
                 bridgeVars, ctxDone>>

(* Debit returns an error.  The daemon may have applied the debit and its  *)
(* reply been lost, or the call may have failed or been refused.           *)
DebitFails ==
  /\ pc = "debit"
  /\ \/ DebitBalance(WorkID, Sender, Units, debitSeq + 1)
     \/ UNCHANGED daemonVars
  /\ \/ /\ attempt < DebitRetryBudget
        /\ emit(FirstFailureWarning)
        /\ pc' = "retry"
        /\ UNCHANGED endReason
     \/ /\ attempt = DebitRetryBudget
        /\ Fail("fatal_error",
                FirstFailureWarning \o <<Error("payment_unreachable", FALSE)>>)
  /\ UNCHANGED <<attempt, usageVars, lowVars, closed, bridgeVars, ctxDone>>

RetryAfterInterval_TimerLost ==
  /\ pc = "retry" /\ ctxDone
  /\ pc' = "debit" /\ attempt' = attempt + 1
  /\ UNCHANGED <<daemonVars, usageVars, lowVars, outcomeVars, closed, bridgeVars,
                 ctxDone>>

RetryAfterInterval ==
  /\ pc = "retry"
  /\ pc' = "debit" /\ attempt' = attempt + 1
  /\ UNCHANGED <<daemonVars, usageVars, lowVars, outcomeVars, closed, bridgeVars,
                 ctxDone>>

RetryCancelled ==
  /\ pc = "retry" /\ ctxDone
  /\ Fail("fatal_error", <<Error("payment_unreachable", FALSE)>>)
  /\ UNCHANGED <<daemonVars, attempt, usageVars, lowVars, closed, bridgeVars, ctxDone>>

enterLowBalance ==
  /\ inLowBalance' = TRUE /\ graceTimerCh' = TRUE
  /\ emit(<<BalanceLow(balance)>>)

exitLowBalance_KeepsTimer ==
  /\ inLowBalance' = FALSE /\ UNCHANGED graceTimerCh
  /\ emit(<<BalanceRefilled>>)

exitLowBalance ==
  /\ inLowBalance' = FALSE /\ graceTimerCh' = FALSE
  /\ emit(<<BalanceRefilled>>)

SufficientAnswers ==
  /\ pc = "sufficient" /\ BoundTo(WorkID, Sender)
  /\ LET ok == SufficientBalance(WorkID, RunwayMinUnits)
     IN  \/ ~ok /\ ~inLowBalance /\ enterLowBalance
         \/ ok /\ inLowBalance /\ exitLowBalance
         \/ ok = ~inLowBalance /\ UNCHANGED <<lowVars, events>>
  /\ pc' = "select"
  /\ UNCHANGED <<daemonVars, attempt, usageVars, endReason, closed, bridgeVars, ctxDone>>

SufficientFails ==
  /\ pc = "sufficient"
  /\ pc' = "select"
  /\ UNCHANGED <<daemonVars, attempt, usageVars, lowVars, outcomeVars, closed,
                 bridgeVars, ctxDone>>

-----------------------------------------------------------------------------
(* The grace timer. *)
GraceExpires ==
  /\ pc = "select" /\ graceTimerCh
  /\ pc' = "recheck"
  /\ UNCHANGED <<daemonVars, attempt, usageVars, lowVars, outcomeVars, closed,
                 bridgeVars, ctxDone>>

(* checkSufficientNoEmit: an error counts as insufficient. *)
RecheckRefilled ==
  /\ pc = "recheck" /\ BoundTo(WorkID, Sender)
  /\ SufficientBalance(WorkID, RunwayMinUnits)
  /\ exitLowBalance
  /\ pc' = "select"
  /\ UNCHANGED <<daemonVars, attempt, usageVars, endReason, closed, bridgeVars, ctxDone>>

RecheckExhausted ==
  /\ pc = "recheck" /\ BoundTo(WorkID, Sender)
  /\ ~SufficientBalance(WorkID, RunwayMinUnits)
  /\ Fail("balance_exhausted", <<Error("balance_exhausted", FALSE)>>)
  /\ UNCHANGED <<daemonVars, attempt, usageVars, lowVars, closed, bridgeVars, ctxDone>>

RecheckFails ==
  /\ pc = "recheck"
  /\ Fail("balance_exhausted", <<Error("balance_exhausted", FALSE)>>)
  /\ UNCHANGED <<daemonVars, attempt, usageVars, lowVars, closed, bridgeVars, ctxDone>>

-----------------------------------------------------------------------------
(* The bridge: the loop's two channels and the goroutine that feeds them.  *)
InboundEvent ==
  /\ pc = "select" /\ inboundCh # <<>>
  /\ inboundCh' = Tail(inboundCh)
  /\ \/ /\ Head(inboundCh) = "session.end"
        /\ recordEnd("user_end")
        /\ pc' = "ending"
     \/ /\ Head(inboundCh) = "other"
        /\ UNCHANGED <<pc, endReason>>
  /\ UNCHANGED <<daemonVars, attempt, usageVars, lowVars, events, closed, reader,
                 inboundErrCh, closedReceives, ctxDone>>

(* Receive from the drained and closed channel: "continue". *)
InboundClosed ==
  /\ pc = "select" /\ inboundCh = <<>> /\ reader = "exited"
  /\ closedReceives' = IF closedReceives < 2 THEN closedReceives + 1 ELSE 2
  /\ UNCHANGED <<daemonVars, pc, attempt, usageVars, lowVars, outcomeVars, closed,
                 reader, inboundCh, inboundErrCh, ctxDone>>

InboundError ==
  /\ pc = "select" /\ inboundErrCh = "full"
  /\ inboundErrCh' = "nil"
  /\ UNCHANGED <<daemonVars, pc, attempt, usageVars, lowVars, outcomeVars, closed,
                 reader, inboundCh, closedReceives, ctxDone>>

BridgeClosed == pc \in {"close", "returned"}

(* Recv returns an event, which the reader then sends on inboundCh. *)
ReaderReceives ==
  /\ reader = "recv" /\ ~BridgeClosed
  /\ reader' \in InboundEvents
  /\ UNCHANGED <<daemonVars, pc, attempt, usageVars, lowVars, outcomeVars, closed,
                 inboundCh, inboundErrCh, closedReceives, ctxDone>>

ReaderSends ==
  /\ reader \in {"session.end", "other"} /\ Len(inboundCh) < InboundCap
  /\ inboundCh' = Append(inboundCh, reader)
  /\ reader' = "recv"
  /\ UNCHANGED <<daemonVars, pc, attempt, usageVars, lowVars, outcomeVars, closed,
                 inboundErrCh, closedReceives, ctxDone>>

(* Recv fails (stub, disconnect, Bridge.Close, cancelled context) and the  *)
(* reader reports the error and closes inboundCh, ...                      *)
ReaderFails ==
  /\ reader = "recv"
  /\ reader' = "exited"
  /\ inboundErrCh' = "full"
  /\ UNCHANGED <<daemonVars, pc, attempt, usageVars, lowVars, outcomeVars, closed,
                 inboundCh, closedReceives, ctxDone>>

(* ... or the context is cancelled while it is blocked, or about to report. *)
ReaderCancelled ==
  /\ reader \in {"recv", "session.end", "other"} /\ ctxDone
  /\ reader' = "exited"
  /\ UNCHANGED <<daemonVars, pc, attempt, usageVars, lowVars, outcomeVars, closed,
                 inboundCh, inboundErrCh, closedReceives, ctxDone>>

-----------------------------------------------------------------------------
(* The ways out of Serve. *)
LoopCancelled_NoReason ==
  /\ pc = "select" /\ ctxDone
  /\ pc' = "ending"
  /\ UNCHANGED <<daemonVars, attempt, usageVars, lowVars, outcomeVars, closed,
                 bridgeVars, ctxDone>>

LoopCancelled ==
  /\ pc = "select" /\ ctxDone
  /\ recordEnd("shutdown")
  /\ pc' = "ending"
  /\ UNCHANGED <<daemonVars, attempt, usageVars, lowVars, events, closed, bridgeVars,
                 ctxDone>>

(* The backend or the payment session panics under Serve; the deferred     *)
(* function recovers.                                                      *)
Panics ==
  /\ pc \in {"open", "debit", "sufficient", "recheck"}
  /\ Fail("fatal_error", <<Error("fatal", FALSE)>>)
  /\ UNCHANGED <<daemonVars, attempt, usageVars, lowVars, closed, bridgeVars, ctxDone>>

(* emitEndedBest, then Bridge.Close. *)
EmitEnded ==
  /\ pc = "ending"
  /\ emit(<<Ended(IF endReason = "" THEN "user_end" ELSE endReason, cumulativeUnits)>>)
  /\ pc' = "close"
  /\ UNCHANGED <<daemonVars, attempt, usageVars, lowVars, endReason, closed, bridgeVars,
                 ctxDone>>

(* PaymentSession.Close: one attempt, whose failure is only logged. *)
ClosePayment ==
  /\ pc = "close"
  /\ closed' = TRUE
  /\ CloseSession(WorkID, Sender) \/ UNCHANGED daemonVars
  /\ pc' = "returned"
  /\ UNCHANGED <<attempt, usageVars, lowVars, outcomeVars, bridgeVars, ctxDone>>

-----------------------------------------------------------------------------
(* The rest of the worker. *)

(* streamingTopupHandler credits a further payment; it may read the        *)
(* registry before the session closes and pay after.                       *)
TopUp(ev) ==
  /\ credited[WorkID] + ev <= MaxCredited
  /\ ProcessPayment(WorkID, Sender, ev)
  /\ UNCHANGED <<pc, attempt, usageVars, lowVars, outcomeVars, closed, bridgeVars, ctxDone>>

(* streamingEndHandler closes the daemon session under Serve. *)
EndHandlerCloses ==
  /\ status[WorkID] = "open"
  /\ CloseSession(WorkID, Sender)
  /\ UNCHANGED <<pc, attempt, usageVars, lowVars, outcomeVars, closed, bridgeVars, ctxDone>>

CancelContext ==
  /\ Cancellable /\ ~ctxDone
  /\ ctxDone' = TRUE
  /\ UNCHANGED <<daemonVars, pc, attempt, usageVars, lowVars, outcomeVars, closed,
                 bridgeVars>>

Serve ==
  \/ BackendOpens \/ BackendOpenFails
  \/ DebitSucceeds \/ DebitFails \/ RetryAfterInterval \/ RetryCancelled
  \/ SufficientAnswers \/ SufficientFails \/ RecheckRefilled \/ RecheckExhausted
  \/ RecheckFails
  \/ Panics \/ EmitEnded \/ ClosePayment

Select ==
  \/ Tick \/ GraceExpires \/ InboundEvent \/ InboundClosed \/ InboundError
  \/ LoopCancelled

bridgeReader == ReaderReceives \/ ReaderSends \/ ReaderFails \/ ReaderCancelled

Environment == (\E ev \in Credits : TopUp(ev)) \/ EndHandlerCloses \/ CancelContext

Next == Serve \/ Select \/ bridgeReader \/ Environment

(* Every call Serve makes returns; the ticker and the grace timer fire; the *)
(* select picks uniformly among ready cases, so no ready case starves; a    *)
(* closed or cancelled bridge makes Recv return.                            *)
Fairness ==
  /\ WF_vars(Serve)
  /\ SF_vars(Tick) /\ SF_vars(GraceExpires) /\ SF_vars(InboundEvent)
  /\ SF_vars(LoopCancelled)
  /\ WF_vars(ReaderSends)
  /\ WF_vars(ReaderFails /\ (BridgeClosed \/ ctxDone))

Spec == Init /\ [][Next]_vars
FairSpec == Spec /\ Fairness

-----------------------------------------------------------------------------
(* The session as a PaymentSession: the ledger's sequence numbers are what *)
(* is charged, debitSeq is what is acknowledged.                           *)
SessionPhase ==
  IF closed THEN "closed"
  ELSE IF status[WorkID] = "closed" THEN "revoked" ELSE "open"

ChargedSeqs ==
  IF debitSeq + 1 \in DOMAIN debitReplays[WorkID] THEN debitSeq + 1 ELSE debitSeq

Payment == INSTANCE PaymentSession
             WITH charged <- ChargedSeqs, acked <- debitSeq, phase <- SessionPhase

(* Serve, its retries, lost replies and concurrent /end requests together  *)
(* implement the PaymentSession contract of modules/streaming.go.          *)
ImplementsPaymentSession == Payment!PaymentSpec

-----------------------------------------------------------------------------
(* Properties. *)
TickCost == PriceOf[Offering] * Units

(* The debits applied to the session are exactly 1..debitSeq, or one more  *)
(* whose reply Serve has not seen, and each cost the balance one tick: no  *)
(* retry of debitWithRetry is charged twice and no sequence number is      *)
(* skipped, whatever replies are lost.                                     *)
ChargedOnce ==
  \E n \in {debitSeq, debitSeq + 1} :
    /\ DOMAIN debitReplays[WorkID] = 1..n
    /\ balances[WorkID] = credited[WorkID] - n * TickCost

(* The reply to debit q was a negative balance that the client read as     *)
(* credit.                                                                 *)
Misread(q) ==
  /\ q \in DOMAIN debitReplays[WorkID]
  /\ debitReplays[WorkID][q] < 0 /\ DecodeBalance(debitReplays[WorkID][q]) >= 0

(* A debit leaves the balance overdrawn by more than one tick only if the  *)
(* reply to the one before it was misread: Serve makes no debit after a    *)
(* reply it could see was negative, though replies are lost, replayed with *)
(* a stale balance or saturated by wei64, and top-ups land in between.     *)
(* For a client that keeps the sign the bound is one tick.                 *)
OverdraftTraced ==
  /\ \A q \in DOMAIN debitReplays[WorkID] :
       debitReplays[WorkID][q] < -TickCost => Misread(q - 1)
  /\ balances[WorkID] < -TickCost =>
       \E q \in DOMAIN debitReplays[WorkID] : Misread(q)

(* "Callers MUST treat a negative balance as insufficient and refuse to    *)
(* serve further work" (types.go): the balance is never overdrawn by more  *)
(* than one tick.  It is, with the client main.go wires.                   *)
OverdraftBounded == balances[WorkID] >= -TickCost

(* The usage reported to the bridge is the usage charged, up to one tick:  *)
(* the usage ticks carry consecutive sequence numbers and running totals,  *)
(* and what was charged beyond the last reported total is the tick in      *)
(* flight or the one the session ended on.                                 *)
UsageReported ==
  LET ticks == {i \in DOMAIN events : events[i].type = "session.usage.tick"}
  IN  /\ \E n \in {debitSeq - 1, debitSeq} :
           cumulativeUnits = n * Units /\ {events[i].seq : i \in ticks} = 1..n
      /\ \A i \in ticks : events[i].cumulative = events[i].seq * Units
      /\ \A i, j \in ticks : i < j => events[i].seq < events[j].seq
      /\ credited[WorkID] - balances[WorkID]
           - PriceOf[Offering] * cumulativeUnits \in {0, TickCost}

(* What the first n events say of the balance: a balance.low that no       *)
(* balance.refilled followed.                                              *)
ToldLow(n) ==
  \E i \in 1..n : /\ events[i].type = "session.balance.low"
                  /\ \A k \in (i + 1)..n : events[k].type # "session.balance.refilled"

(* The grace timer runs exactly in the low-balance state, which is the     *)
(* state the bridge was last told: balance.low and balance.refilled        *)
(* alternate, low first.                                                   *)
GraceDiscipline ==
  /\ graceTimerCh = inLowBalance
  /\ inLowBalance = ToldLow(Len(events))
  /\ \A i \in DOMAIN events :
       /\ events[i].type = "session.balance.low" => ~ToldLow(i - 1)
       /\ events[i].type = "session.balance.refilled" => ToldLow(i - 1)

IsFatal(e) == e.type = "session.error" /\ ~e.recoverable

(* What the bridge reads: session.ended comes once, last, with the reason  *)
(* and total of the session; a fatal error is the event just before it;    *)
(* an ending for lack of balance comes from the low-balance state, and a   *)
(* graceful one after no fatal error.  The default reason of emitEndedBest *)
(* is never needed.                                                        *)
EndingReported ==
  LET n == Len(events)
  IN  /\ \A i \in 1..n : events[i].type = "session.ended" => i = n
      /\ \A i \in 1..n : IsFatal(events[i]) =>
           /\ pc \in {"ending", "close", "returned"}
           /\ i = IF pc = "ending" THEN n ELSE n - 1
      /\ pc \in {"ending", "close"} => endReason # ""
      /\ pc \in {"close", "returned"} =>
           /\ events[n] = Ended(endReason, cumulativeUnits)
           /\ (endReason \in {"fatal_error", "balance_exhausted"})
                = (n > 1 /\ IsFatal(events[n - 1]))
           /\ endReason = "balance_exhausted" => inLowBalance

(* A session that is no longer topped up ends, and Serve returns with its  *)
(* PaymentSession closed: by a debit that overdraws, the grace timer, the  *)
(* retry budget or a stop request, whichever comes first.                  *)
SessionEnds == <>[](pc = "returned" /\ closed)

-----------------------------------------------------------------------------
(* What comments of the code say of Serve and the code does not keep.      *)

(* "EventSessionUsageTick is emitted every successful Debit" (events.go).  *)
UsageTickPerDebit ==
  debitSeq = Len(SelectSeq(events, LAMBDA e : e.type = "session.usage.tick"))

(* "EndReasonBalanceExhausted is the forced close path - grace window      *)
(* expired with the balance still low" (events.go).                        *)
ExhaustedOnlyIfLow ==
  [][endReason # "balance_exhausted" /\ endReason' = "balance_exhausted"
       => ~SufficientBalance(WorkID, RunwayMinUnits)]_vars

(* "we close inboundCh so the select doesn't loop on that one branch       *)
(* forever" (runLoop): the closed channel is received from once.           *)
ClosedChannelReadOnce == closedReceives <= 1

(* "bridgeReader drains the bridge inbound channel until the bridge closes *)
(* or ctx is cancelled": when Serve has closed the bridge the goroutine    *)
(* ends.                                                                   *)
ReaderStops == pc = "returned" ~> reader \in {"unstarted", "exited"}
=============================================================================
