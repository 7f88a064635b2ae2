------------------------ MODULE VtuberSessionProofs -------------------------
(***************************************************************************)
(* A session keeps its types, is charged once for each tick, overdraws by  *)
(* at most one tick, implements the contract of PaymentSession and tells   *)
(* the bridge of its usage, its balance and its ending, for every price,   *)
(* cadence, retry budget, runway, set of credits and interleaving.         *)
(***************************************************************************)
EXTENDS VtuberSession, PayeeDaemonProofs

(* The binding the route fixed before Serve started stays what it was, a   *)
(* debit waits for its next attempt only within the retry budget, and the  *)
(* payment session is closed by the last step of Serve.                    *)
BindingInv ==
  /\ status[WorkID] \in {"open", "closed"}
  /\ binding = [w \in WorkIDs |-> Offering]
  /\ sender[WorkID] = Sender
  /\ pc = "retry" => attempt < DebitRetryBudget
  /\ closed <=> pc = "returned"

-----------------------------------------------------------------------------
(* Types. *)

(* Operations on sequences over a set stay over it. *)
LEMMA SeqTypes ==
  ASSUME NEW S
  PROVE  /\ <<>> \in Seq(S)
         /\ \A x \in S : <<x>> \in Seq(S)
         /\ \A s \in Seq(S), x \in S : Append(s, x) \in Seq(S)
         /\ \A s, t \in Seq(S) : s \o t \in Seq(S)
         /\ \A s \in Seq(S) : s # <<>> => Tail(s) \in Seq(S) /\ Head(s) \in S
BY SMTT(30)

(* Sending events keeps the history well typed. *)
LEMMA EmitType ==
  ASSUME events \in Seq(Events), NEW evs \in Seq(Events), emit(evs)
  PROVE  events' \in Seq(Events)
BY SMTT(30) DEF emit

(* The events Serve sends are of the shapes events.go declares. *)
LEMMA EventTypes ==
  /\ Ready \in Events
  /\ BalanceRefilled \in Events
  /\ \A seq, cumulative \in Nat : UsageTick(seq, cumulative) \in Events
  /\ \A runway \in Int : BalanceLow(runway) \in Events
  /\ \A code \in ErrorCodes, r \in BOOLEAN : Error(code, r) \in Events
  /\ \A reason \in EndReasons, units \in Nat : Ended(reason, units) \in Events
BY Zenon DEF Events, Ready, BalanceRefilled, UsageTick, BalanceLow, Error, Ended

(* The conversions return integers, and never turn a negative balance of a *)
(* client that keeps the sign into a non-negative one, nor the converse.   *)
LEMMA Wei64Sign ==
  ASSUME NEW b \in Int
  PROVE  /\ wei64(b) \in Int /\ DecodeBalance(b) \in Int
         /\ wei64(b) < 0 <=> b < 0
         /\ SignedClient => DecodeBalance(b) = b
<1>1. Int64Max \in Nat \ {0}
  BY SessionAssumption, Zenon
<1>2. (Int64Max - 1) \div 2 \in Nat
  BY <1>1, SMTT(30)
<1>3. DecodeBalance(b) \in Int /\ (SignedClient => DecodeBalance(b) = b)
  BY SMTT(30) DEF DecodeBalance
<1>4. CASE b \in (-Int64Max - 1)..Int64Max
  BY <1>1, <1>3, <1>4, SMTT(30) DEF wei64
<1>5. CASE b < -Int64Max - 1
  <2>1. b \notin (-Int64Max - 1)..Int64Max
    BY <1>1, <1>5, SMTT(30)
  <2> QED
    BY <1>1, <1>3, <1>5, <2>1, SMTT(30) DEF wei64
<1>6. CASE b > Int64Max
  <2>1. b \notin (-Int64Max - 1)..Int64Max /\ ~(b < -Int64Max - 1)
    BY <1>1, <1>6, SMTT(30)
  <2>2. wei64(b) = (Int64Max - 1) \div 2
    BY <2>1, Zenon DEF wei64
  <2> QED
    BY <1>1, <1>2, <1>3, <1>6, <2>2, SMTT(30)
<1> QED
  BY <1>1, <1>4, <1>5, <1>6, SMTT(30)

(* The reply to a debit is an integer. *)
LEMMA DebitedType ==
  ASSUME DaemonTypeOK, BindingInv, NEW seq
  PROVE  DebitReply(WorkID, Units, seq) \in Int /\ Debited(seq) \in Int
<1>1. WorkID \in WorkIDs /\ binding[WorkID] \in Offerings /\ Units \in Nat
  BY SessionAssumption, Zenon DEF BindingInv
<1>2. WorkCost(WorkID, Units) \in Nat
  BY <1>1, WorkCostType, Zenon
<1>3. DebitReply(WorkID, Units, seq) \in Int
  <2>1. CASE seq \in DOMAIN debitReplays[WorkID]
    BY <1>1, <2>1, Zenon DEF DebitReply, DaemonTypeOK
  <2>2. CASE seq \notin DOMAIN debitReplays[WorkID]
    BY <1>1, <1>2, <2>2, SMTT(30) DEF DebitReply, DaemonTypeOK
  <2> QED
    BY <2>1, <2>2, Zenon
<1> QED
  BY <1>3, Wei64Sign, Zenon DEF Debited

(* Serve's debit keeps the ledger well typed. *)
LEMMA ServeDebitType ==
  ASSUME DaemonTypeOK, BindingInv, NEW seq, DebitBalance(WorkID, Sender, Units, seq)
  PROVE  DaemonTypeOK'
<1>1. WorkID \in WorkIDs /\ binding[WorkID] \in Offerings /\ Units \in Nat
  BY SessionAssumption, Zenon DEF BindingInv
<1>2. CASE seq \in DOMAIN debitReplays[WorkID]
  BY <1>2, DebitReplayed, DaemonStutter, Zenon
<1>3. CASE seq \notin DOMAIN debitReplays[WorkID]
  BY <1>1, <1>3, DebitFresh, Zenon
<1> QED
  BY <1>2, <1>3, Zenon

(* What a failing step does to the reason and the history. *)
LEMMA FailType ==
  ASSUME TypeOK, NEW reason \in EndReasons, NEW evs \in Seq(Events), Fail(reason, evs)
  PROVE  /\ events' \in Seq(Events) /\ endReason' \in EndReasons \cup {""}
         /\ pc' = "ending"
<1>1. events' \in Seq(Events)
  BY EmitType, Zenon DEF TypeOK, Fail
<1> QED
  BY <1>1, Zenon DEF TypeOK, Fail, recordEnd

(* A step that leaves all but the ledger alone keeps the rest of TypeOK. *)
LEMMA LocalFrame ==
  ASSUME TypeOK, DaemonTypeOK',
         UNCHANGED <<pc, attempt, usageVars, lowVars, outcomeVars, closed, bridgeVars,
                     ctxDone>>
  PROVE  TypeOK'
<1>1. /\ pc' = pc /\ attempt' = attempt /\ closed' = closed /\ ctxDone' = ctxDone
      /\ usageVars' = usageVars /\ lowVars' = lowVars /\ outcomeVars' = outcomeVars
      /\ bridgeVars' = bridgeVars
  BY Zenon
<1>2. balance' = balance /\ cumulativeUnits' = cumulativeUnits /\ debitSeq' = debitSeq
  BY <1>1, Zenon DEF usageVars
<1>3. inLowBalance' = inLowBalance /\ graceTimerCh' = graceTimerCh
  BY <1>1, Zenon DEF lowVars
<1>4. endReason' = endReason /\ events' = events
  BY <1>1, Zenon DEF outcomeVars
<1>5. /\ reader' = reader /\ inboundCh' = inboundCh /\ inboundErrCh' = inboundErrCh
      /\ closedReceives' = closedReceives
  BY <1>1, Zenon DEF bridgeVars
<1> QED
  BY <1>1, <1>2, <1>3, <1>4, <1>5, ZenonT(60) DEF TypeOK

(* Every step keeps TypeOK. *)
LEMMA TypeOKStep ==
  ASSUME TypeOK, BindingInv, [Next]_vars
  PROVE  TypeOK'
<1> USE DEF usageVars, lowVars, outcomeVars, bridgeVars
<1>a. DaemonTypeOK /\ events \in Seq(Events)
  BY Zenon DEF TypeOK
<1>b. /\ WorkID \in WorkIDs /\ Sender \in Senders /\ Units \in Nat
      /\ DebitRetryBudget \in Nat \ {0}
  BY SessionAssumption, Zenon
<1>c. ASSUME NEW code \in ErrorCodes, NEW r \in BOOLEAN
      PROVE  <<Error(code, r)>> \in Seq(Events)
  BY EventTypes, SMTT(30)
<1>d. UNCHANGED daemonVars => DaemonTypeOK'
  BY <1>a, DaemonStutter, Zenon
<1>1. CASE UNCHANGED vars
  <2>1. UNCHANGED daemonVars
    BY <1>1, Zenon DEF vars
  <2>2. DaemonTypeOK'
    BY <2>1, <1>d, Zenon
  <2>3. UNCHANGED <<pc, attempt, usageVars, lowVars, outcomeVars, closed, bridgeVars,
                    ctxDone>>
    BY <1>1, Zenon DEF vars
  <2> QED
    BY <2>2, <2>3, LocalFrame, Zenon
<1>2. CASE BackendOpens
  <2>1. events' \in Seq(Events)
    <3>1. <<Ready>> \in Seq(Events)
      BY EventTypes, SMTT(30)
    <3> QED
      BY <1>2, <1>a, <3>1, EmitType, ZenonT(60) DEF BackendOpens
  <2> QED
    BY <1>2, <2>1, <1>d, Zenon DEF TypeOK, BackendOpens
<1>3. CASE BackendOpenFails
  <2>1. <<Error("backend_down", FALSE)>> \in Seq(Events)
    BY <1>c, ZenonT(60) DEF ErrorCodes
  <2> QED
    BY <1>3, <1>d, <2>1, FailType, Zenon DEF TypeOK, BackendOpenFails, EndReasons
<1>4. CASE Tick
  <2>1. 1 \in 1..DebitRetryBudget
    BY <1>b, SMTT(30)
  <2> QED
    BY <1>4, <2>1, <1>d, ZenonT(60) DEF TypeOK, Tick
<1>5. CASE DebitSucceeds
  <2>1. DaemonTypeOK'
    BY <1>5, <1>a, ServeDebitType, Zenon DEF DebitSucceeds
  <2>2. balance' \in Int /\ debitSeq' \in Nat
    <3>1. debitSeq \in Nat
      BY Zenon DEF TypeOK
    <3>2. Debited(debitSeq + 1) \in Int
      BY <1>a, DebitedType, Zenon
    <3>3. balance' = Debited(debitSeq + 1) /\ debitSeq' = debitSeq + 1
      BY <1>5, Zenon DEF DebitSucceeds
    <3> QED
      BY <3>1, <3>2, <3>3, SMTT(30)
  <2>3. CASE balance' >= 0
    <3>1. cumulativeUnits' \in Nat /\ pc' = "sufficient" /\ endReason' = endReason
      <4>1. cumulativeUnits \in Nat
        BY Zenon DEF TypeOK
      <4>2. cumulativeUnits' = cumulativeUnits + Units /\ pc' = "sufficient"
            /\ endReason' = endReason
        BY <1>5, <2>2, <2>3, SMTT(30) DEF DebitSucceeds
      <4> QED
        BY <4>1, <4>2, <1>b, SMTT(30)
    <3>2. <<UsageTick(debitSeq', cumulativeUnits')>> \in Seq(Events)
      BY <2>2, <3>1, EventTypes, SMTT(30)
    <3>3. events' \in Seq(Events)
      <4>1. emit(<<UsageTick(debitSeq', cumulativeUnits')>>)
        BY <1>5, <2>2, <2>3, SMTT(30) DEF DebitSucceeds
      <4> QED
        BY <4>1, <3>2, <1>a, EmitType, ZenonT(60)
    <3> QED
      BY <1>5, <2>1, <2>2, <3>1, <3>3, Zenon DEF DebitSucceeds, TypeOK
  <2>4. CASE balance' < 0
    <3>1. Fail("fatal_error", <<Error("balance_exhausted", FALSE)>>)
          /\ cumulativeUnits' = cumulativeUnits
      BY <1>5, <2>2, <2>4, SMTT(30) DEF DebitSucceeds
    <3>2. <<Error("balance_exhausted", FALSE)>> \in Seq(Events)
      BY <1>c, ZenonT(60) DEF ErrorCodes
    <3>3. events' \in Seq(Events) /\ endReason' \in EndReasons \cup {""} /\ pc' = "ending"
      BY <3>1, <3>2, FailType, Zenon DEF EndReasons
    <3> QED
      BY <1>5, <2>1, <2>2, <3>1, <3>3, Zenon DEF DebitSucceeds, TypeOK
  <2> QED
    BY <2>2, <2>3, <2>4, SMTT(30)
<1>6. CASE DebitFails
  <2>1. DaemonTypeOK'
    BY <1>6, <1>a, <1>d, ServeDebitType, Zenon DEF DebitFails
  <2>2. FirstFailureWarning \in Seq(Events)
    <3>1. <<Error("payment_unreachable", TRUE)>> \in Seq(Events)
      BY <1>c, ZenonT(60) DEF ErrorCodes
    <3>2. <<>> \in Seq(Events)
      BY SeqTypes, Zenon
    <3> QED
      BY <3>1, <3>2, ZenonT(60) DEF FirstFailureWarning
  <2>3. <<Error("payment_unreachable", FALSE)>> \in Seq(Events)
    BY <1>c, ZenonT(60) DEF ErrorCodes
  <2>4. FirstFailureWarning \o <<Error("payment_unreachable", FALSE)>> \in Seq(Events)
    BY <2>2, <2>3, SeqTypes, ZenonT(60)
  <2>5. CASE emit(FirstFailureWarning) /\ pc' = "retry" /\ UNCHANGED endReason
    BY <1>6, <1>a, <2>1, <2>2, <2>5, EmitType, Zenon DEF DebitFails, TypeOK
  <2>6. CASE Fail("fatal_error",
                  FirstFailureWarning \o <<Error("payment_unreachable", FALSE)>>)
    <3>1. events' \in Seq(Events) /\ endReason' \in EndReasons \cup {""} /\ pc' = "ending"
      BY <2>4, <2>6, FailType, Zenon DEF EndReasons
    <3> QED
      BY <1>6, <2>1, <3>1, Zenon DEF DebitFails, TypeOK
  <2> QED
    BY <1>6, <2>5, <2>6, Zenon DEF DebitFails
<1>7. CASE RetryAfterInterval
  <2>1. attempt < DebitRetryBudget /\ attempt \in 1..DebitRetryBudget
    BY <1>7, Zenon DEF BindingInv, RetryAfterInterval, TypeOK
  <2>2. attempt + 1 \in 1..DebitRetryBudget
    BY <2>1, <1>b, SMTT(30)
  <2> QED
    BY <1>7, <2>2, <1>d, Zenon DEF TypeOK, RetryAfterInterval
<1>8. CASE RetryCancelled
  <2>1. <<Error("payment_unreachable", FALSE)>> \in Seq(Events)
    BY <1>c, ZenonT(60) DEF ErrorCodes
  <2> QED
    BY <1>8, <1>d, <2>1, FailType, Zenon DEF TypeOK, RetryCancelled, EndReasons
<1>e. exitLowBalance => events' \in Seq(Events)
  <2>1. <<BalanceRefilled>> \in Seq(Events)
    BY EventTypes, SMTT(30)
  <2> QED
    BY <1>a, <2>1, EmitType, ZenonT(60) DEF exitLowBalance
<1>9. CASE SufficientAnswers
  <2>1. <<BalanceLow(balance)>> \in Seq(Events)
    <3>1. balance \in Int
      BY Zenon DEF TypeOK
    <3>2. BalanceLow(balance) \in Events
      BY <3>1, EventTypes, Zenon
    <3> QED
      BY <3>2, SeqTypes, Zenon
  <2>2. enterLowBalance => events' \in Seq(Events)
    BY <1>a, <2>1, EmitType, ZenonT(60) DEF enterLowBalance
  <2>3. events' \in Seq(Events) /\ inLowBalance' \in BOOLEAN /\ graceTimerCh' \in BOOLEAN
    <3>1. enterLowBalance \/ exitLowBalance \/ UNCHANGED <<lowVars, events>>
      BY <1>9, Zenon DEF SufficientAnswers
    <3> QED
      BY <3>1, <1>a, <1>e, <2>2, Zenon DEF enterLowBalance, exitLowBalance, TypeOK
  <2> QED
    BY <1>9, <1>d, <2>3, Zenon DEF TypeOK, SufficientAnswers
<1>10. CASE SufficientFails
  BY <1>10, <1>d, ZenonT(60) DEF TypeOK, SufficientFails
<1>11. CASE GraceExpires
  BY <1>11, <1>d, ZenonT(60) DEF TypeOK, GraceExpires
<1>12. CASE RecheckRefilled
  BY <1>12, <1>d, <1>e, Zenon DEF TypeOK, RecheckRefilled, exitLowBalance
<1>13. CASE RecheckExhausted \/ RecheckFails
  <2>1. <<Error("balance_exhausted", FALSE)>> \in Seq(Events)
    BY <1>c, ZenonT(60) DEF ErrorCodes
  <2> QED
    BY <1>13, <1>d, <2>1, FailType, ZenonT(60)
    DEF TypeOK, RecheckExhausted, RecheckFails, EndReasons
<1>14. CASE InboundEvent
  <2>1. inboundCh' \in Seq({"session.end", "other"})
    <3>1. inboundCh \in Seq({"session.end", "other"}) /\ inboundCh # <<>>
          /\ inboundCh' = Tail(inboundCh)
      BY <1>14, Zenon DEF TypeOK, InboundEvent
    <3> QED
      BY <3>1, SeqTypes, Zenon
  <2> QED
    BY <1>14, <2>1, <1>d, Zenon DEF TypeOK, InboundEvent, recordEnd, EndReasons
<1>15. CASE InboundClosed \/ InboundError
  <2>1. closedReceives' \in 0..2 /\ inboundErrCh' \in {"empty", "full", "nil"}
    <3>1. closedReceives \in 0..2 /\ inboundErrCh \in {"empty", "full", "nil"}
      BY Zenon DEF TypeOK
    <3>2. CASE InboundClosed
      BY <3>1, <3>2, SMTT(30) DEF InboundClosed
    <3>3. CASE InboundError
      BY <3>1, <3>3, Zenon DEF InboundError
    <3> QED
      BY <1>15, <3>2, <3>3, Zenon
  <2> QED
    BY <1>15, <2>1, <1>d, Zenon DEF TypeOK, InboundClosed, InboundError
<1>16. CASE LoopCancelled
  BY <1>16, <1>d, Zenon DEF TypeOK, LoopCancelled, recordEnd, EndReasons
<1>17. CASE ReaderReceives
  BY <1>17, <1>d, SessionAssumption, ZenonT(60) DEF TypeOK, ReaderReceives
<1>18. CASE ReaderSends
  <2>1. inboundCh' \in Seq({"session.end", "other"})
    <3>1. inboundCh \in Seq({"session.end", "other"}) /\ reader \in {"session.end", "other"}
          /\ inboundCh' = Append(inboundCh, reader)
      BY <1>18, Zenon DEF TypeOK, ReaderSends
    <3> QED
      BY <3>1, SeqTypes, Zenon
  <2> QED
    BY <1>18, <2>1, <1>d, Zenon DEF TypeOK, ReaderSends
<1>19. CASE ReaderFails \/ ReaderCancelled
  BY <1>19, <1>d, Zenon DEF TypeOK, ReaderFails, ReaderCancelled
<1>20. CASE Panics
  <2>1. <<Error("fatal", FALSE)>> \in Seq(Events)
    BY <1>c, ZenonT(60) DEF ErrorCodes
  <2> QED
    BY <1>20, <1>d, <2>1, FailType, Zenon DEF TypeOK, Panics, EndReasons
<1>21. CASE EmitEnded
  <2>1. <<Ended(IF endReason = "" THEN "user_end" ELSE endReason, cumulativeUnits)>>
          \in Seq(Events)
    <3>1. (IF endReason = "" THEN "user_end" ELSE endReason) \in EndReasons
      BY Zenon DEF TypeOK, EndReasons
    <3>2. cumulativeUnits \in Nat
      BY Zenon DEF TypeOK
    <3> QED
      BY <3>1, <3>2, EventTypes, SeqTypes, Zenon
  <2>2. events' \in Seq(Events)
    BY <1>21, <1>a, <2>1, EmitType, Zenon DEF EmitEnded
  <2> QED
    BY <1>21, <1>d, <2>2, Zenon DEF TypeOK, EmitEnded
<1>22. CASE ClosePayment
  <2>1. DaemonTypeOK'
    BY <1>22, <1>a, <1>b, <1>d, CloseSessionType, Zenon DEF ClosePayment
  <2> QED
    BY <1>22, <2>1, Zenon DEF TypeOK, ClosePayment
<1>23. ASSUME NEW ev \in Credits, TopUp(ev) PROVE TypeOK'
  <2>1. DaemonTypeOK'
    BY <1>23, <1>a, <1>b, ProcessPaymentType, Zenon DEF TopUp
  <2> QED
    BY <1>23, <2>1, LocalFrame, Zenon DEF TopUp
<1>24. CASE EndHandlerCloses
  <2>1. DaemonTypeOK'
    BY <1>24, <1>a, <1>b, CloseSessionType, Zenon DEF EndHandlerCloses
  <2> QED
    BY <1>24, <2>1, LocalFrame, Zenon DEF EndHandlerCloses
<1>25. CASE CancelContext
  BY <1>25, <1>d, ZenonT(60) DEF TypeOK, CancelContext
<1> QED
  BY <1>1, <1>2, <1>3, <1>4, <1>5, <1>6, <1>7, <1>8, <1>9, <1>10, <1>11, <1>12, <1>13,
     <1>14, <1>15, <1>16, <1>17, <1>18, <1>19, <1>20, <1>21, <1>22, <1>23, <1>24, <1>25
  DEF Next, Serve, Select, bridgeReader, Environment

-----------------------------------------------------------------------------
(* Steps by what they do to the ledger. *)

(* Control points where no debit is outstanding, where one may be, and     *)
(* where Serve debits no more.                                             *)
Calm     == {"open", "select", "sufficient", "recheck"}
Charging == {"debit", "retry"}
Over     == {"ending", "close", "returned"}

(* A step that touches neither the ledger nor the sequence number. *)
Quiet ==
  /\ UNCHANGED <<daemonVars, debitSeq, closed>>
  /\ \/ pc' = pc
     \/ pc \in Calm /\ pc' \in Calm \cup {"debit"}
     \/ pc \in Charging /\ pc' \in Charging
     \/ pc # "returned" /\ pc' \in Over \ {"returned"}
  /\ pc' = "retry" => pc = "retry" /\ attempt' = attempt

(* Every step is quiet, or a debit, a close or a top-up. *)
LEMMA StepKinds ==
  ASSUME [Next]_vars
  PROVE  \/ Quiet \/ DebitSucceeds \/ DebitFails \/ ClosePayment \/ EndHandlerCloses
         \/ \E ev \in Credits : TopUp(ev)
<1> USE DEF usageVars, lowVars, outcomeVars, bridgeVars, Calm, Charging, Over, Quiet
<1>1. CASE UNCHANGED vars
  BY <1>1, Zenon DEF vars
<1>2. CASE BackendOpens \/ BackendOpenFails \/ Tick
  BY <1>2, Zenon DEF BackendOpens, BackendOpenFails, Tick, Fail
<1>3. CASE RetryAfterInterval \/ RetryCancelled
  BY <1>3, Zenon DEF RetryAfterInterval, RetryCancelled, Fail
<1>4. CASE SufficientAnswers \/ SufficientFails \/ GraceExpires
  BY <1>4, Zenon DEF SufficientAnswers, SufficientFails, GraceExpires
<1>5. CASE RecheckRefilled \/ RecheckExhausted \/ RecheckFails
  BY <1>5, Zenon DEF RecheckRefilled, RecheckExhausted, RecheckFails, Fail
<1>6. CASE InboundEvent
  BY <1>6, Zenon DEF InboundEvent
<1>7. CASE InboundClosed \/ InboundError \/ LoopCancelled
  BY <1>7, Zenon DEF InboundClosed, InboundError, LoopCancelled
<1>8. CASE bridgeReader
  BY <1>8, Zenon
     DEF bridgeReader, ReaderReceives, ReaderSends, ReaderFails, ReaderCancelled
<1>9. CASE Panics
  BY <1>9, Zenon DEF Panics, Fail
<1>10. CASE EmitEnded
  BY <1>10, Zenon DEF EmitEnded
<1>11. CASE CancelContext
  BY <1>11, Zenon DEF CancelContext
<1> QED
  BY <1>1, <1>2, <1>3, <1>4, <1>5, <1>6, <1>7, <1>8, <1>9, <1>10, <1>11, Zenon
  DEF Next, Serve, Select, Environment

(* Every step keeps BindingInv. *)
LEMMA BindingStep ==
  ASSUME TypeOK, BindingInv, [Next]_vars
  PROVE  BindingInv'
<1>a. WorkID \in WorkIDs
  BY SessionAssumption, Zenon
<1>b. status \in [WorkIDs -> {"none", "open", "closed"}]
      /\ sender \in [WorkIDs -> Senders \cup {NoSender}]
      /\ attempt \in 1..DebitRetryBudget /\ DebitRetryBudget \in Nat
  BY SessionAssumption, ZenonT(60) DEF TypeOK, DaemonTypeOK
<1>1. CASE Quiet
  BY <1>1, Zenon DEF Quiet, daemonVars, BindingInv, Calm, Charging, Over
<1>2. CASE DebitSucceeds
  <2>1. status' = status /\ binding' = binding /\ sender' = sender
    BY <1>2, Zenon DEF DebitSucceeds, DebitBalance
  <2>2. pc = "debit" /\ pc' \in {"sufficient", "ending"} /\ closed' = closed
    BY <1>2, Zenon DEF DebitSucceeds, Fail
  <2> QED
    BY <2>1, <2>2, Zenon DEF BindingInv
<1>3. CASE DebitFails
  <2>1. status' = status /\ binding' = binding /\ sender' = sender
    BY <1>3, Zenon DEF DebitFails, DebitBalance, daemonVars
  <2>2. pc = "debit" /\ closed' = closed /\ attempt' = attempt
        /\ (pc' = "ending" \/ (pc' = "retry" /\ attempt < DebitRetryBudget))
    BY <1>3, Zenon DEF DebitFails, Fail
  <2> QED
    BY <2>1, <2>2, Zenon DEF BindingInv
<1>4. CASE ClosePayment
  <2>1. binding' = binding /\ sender' = sender /\ status'[WorkID] \in {"open", "closed"}
    BY <1>4, <1>a, <1>b, Zenon DEF ClosePayment, CloseSession, daemonVars, BindingInv
  <2>2. closed' = TRUE /\ pc' = "returned"
    BY <1>4, Zenon DEF ClosePayment
  <2> QED
    BY <2>1, <2>2, Zenon DEF BindingInv
<1>5. CASE EndHandlerCloses
  <2>1. binding' = binding /\ sender' = sender /\ status'[WorkID] \in {"open", "closed"}
    BY <1>5, <1>a, <1>b, Zenon DEF EndHandlerCloses, CloseSession, BindingInv
  <2>2. closed' = closed /\ pc' = pc /\ attempt' = attempt
    BY <1>5, Zenon DEF EndHandlerCloses
  <2> QED
    BY <2>1, <2>2, Zenon DEF BindingInv
<1>6. ASSUME NEW ev \in Credits, TopUp(ev) PROVE BindingInv'
  <2>1. binding' = binding /\ status' = status /\ sender'[WorkID] = Sender
    BY <1>6, <1>a, <1>b, Zenon DEF TopUp, ProcessPayment
  <2>2. closed' = closed /\ pc' = pc /\ attempt' = attempt
    BY <1>6, Zenon DEF TopUp
  <2> QED
    BY <2>1, <2>2, Zenon DEF BindingInv
<1> QED
  BY <1>1, <1>2, <1>3, <1>4, <1>5, <1>6, StepKinds, Zenon

-----------------------------------------------------------------------------
(* The ledger.  ChargedOnce says nothing of when a charge may be           *)
(* unacknowledged, so a fresh debit could follow one; LedgerInv adds that  *)
(* one is outstanding only while it is retried or once Serve has given up. *)
LedgerInv ==
  /\ DOMAIN debitReplays[WorkID] = 1..ChargedSeqs
  /\ balances[WorkID] = credited[WorkID] - ChargedSeqs * TickCost
  /\ debitSeq + 1 \in DOMAIN debitReplays[WorkID] => pc \in Charging \cup Over

(* One tick costs TickCost, a natural number. *)
LEMMA TickCostFacts ==
  /\ TickCost \in Nat
  /\ BindingInv => WorkCost(WorkID, Units) = TickCost
<1>1. PriceOf[Offering] \in Nat /\ Units \in Nat /\ WorkID \in WorkIDs
  BY SessionAssumption, DaemonAssumption, Zenon
<1>2. \A a, b \in Nat : a * b \in Nat
  BY SMTT(30)
<1>3. BindingInv => binding[WorkID] = Offering
  BY <1>1, Zenon DEF BindingInv
<1> QED
  BY <1>1, <1>2, <1>3, Zenon DEF TickCost, WorkCost

(* What a debit of the next sequence number does to the ledger. *)
LEMMA DebitEffect ==
  ASSUME TypeOK, BindingInv, LedgerInv, DebitBalance(WorkID, Sender, Units, debitSeq + 1)
  PROVE  /\ credited' = credited
         /\ DOMAIN debitReplays'[WorkID] = 1..(debitSeq + 1)
         /\ debitReplays'[WorkID][debitSeq + 1] = DebitReply(WorkID, Units, debitSeq + 1)
         /\ balances'[WorkID] = credited[WorkID] - (debitSeq + 1) * TickCost
         /\ IF debitSeq + 1 \in DOMAIN debitReplays[WorkID]
            THEN balances' = balances /\ debitReplays' = debitReplays
            ELSE /\ balances'[WorkID] = balances[WorkID] - TickCost
                 /\ DebitReply(WorkID, Units, debitSeq + 1) = balances'[WorkID]
<1>a. /\ WorkID \in WorkIDs /\ binding[WorkID] \in Offerings /\ Units \in Nat
      /\ DaemonTypeOK /\ debitSeq \in Nat
  BY SessionAssumption, Zenon DEF BindingInv, TypeOK
<1>b. TickCost \in Nat /\ WorkCost(WorkID, Units) = TickCost
  BY TickCostFacts, Zenon
<1>c. balances[WorkID] \in Int /\ credited[WorkID] \in Nat
  BY <1>a, Zenon DEF DaemonTypeOK
<1>d. credited' = credited
  BY Zenon DEF DebitBalance
<1>1. CASE debitSeq + 1 \in DOMAIN debitReplays[WorkID]
  <2>1. ChargedSeqs = debitSeq + 1
    BY <1>1, Zenon DEF ChargedSeqs
  <2>2. balances' = balances /\ debitReplays' = debitReplays
    BY <1>1, DebitReplayed, Zenon DEF daemonVars
  <2> QED
    BY <1>1, <1>d, <2>1, <2>2, Zenon DEF LedgerInv, DebitReply
<1>2. CASE debitSeq + 1 \notin DOMAIN debitReplays[WorkID]
  <2>1. ChargedSeqs = debitSeq
    BY <1>2, Zenon DEF ChargedSeqs
  <2>2. /\ balances'[WorkID] = balances[WorkID] - TickCost
        /\ DOMAIN debitReplays'[WorkID] = DOMAIN debitReplays[WorkID] \cup {debitSeq + 1}
        /\ debitReplays'[WorkID][debitSeq + 1] = balances'[WorkID]
    <3>1. balances'[WorkID] = balances[WorkID] - WorkCost(WorkID, Units)
      BY <1>2, <1>a, DebitFresh
    <3>2. DOMAIN debitReplays'[WorkID] = DOMAIN debitReplays[WorkID] \cup {debitSeq + 1}
      BY <1>2, <1>a, DebitFresh, ZenonT(60)
    <3>3. debitReplays'[WorkID][debitSeq + 1] = balances'[WorkID]
      <4> DEFINE seq == debitSeq + 1
      <4>1. /\ DebitBalance(WorkID, Sender, Units, seq)
            /\ seq \notin DOMAIN debitReplays[WorkID]
        BY <1>2, Zenon
      <4> HIDE DEF seq
      <4>2. debitReplays'[WorkID][seq] = balances'[WorkID]
        BY <4>1, <1>a, DebitFresh, SMTT(30)
      <4> QED
        BY <4>2, Zenon DEF seq
    <3> QED
      BY <3>1, <3>2, <3>3, <1>b, Zenon
  <2>3. 1..debitSeq \cup {debitSeq + 1} = 1..(debitSeq + 1)
    BY <1>a, SMTT(30)
  <2>4. DebitReply(WorkID, Units, debitSeq + 1) = balances'[WorkID]
    BY <1>2, <1>b, <2>2, Zenon DEF DebitReply
  <2>5. (debitSeq + 1) * TickCost = debitSeq * TickCost + TickCost
        /\ debitSeq * TickCost \in Int
    <3>1. \A n, t \in Nat : (n + 1) * t = n * t + t /\ n * t \in Int
      BY SMTT(30)
    <3> QED
      BY <1>a, <1>b, <3>1, Zenon
  <2>6. balances[WorkID] = credited[WorkID] - debitSeq * TickCost
    BY <2>1, Zenon DEF LedgerInv
  <2>7. balances'[WorkID] = credited[WorkID] - (debitSeq + 1) * TickCost
    BY <2>2, <2>5, <2>6, <1>b, <1>c, SMTT(30)
  <2> QED
    BY <1>2, <1>d, <2>1, <2>2, <2>3, <2>4, <2>7, Zenon DEF LedgerInv
<1> QED
  BY <1>1, <1>2, Zenon

(* After a step that leaves the ledger of the session and the sequence     *)
(* number alone, LedgerInv needs only the control point to be right.       *)
LEMMA LedgerFrame ==
  ASSUME LedgerInv, debitReplays' = debitReplays, debitSeq' = debitSeq,
         balances'[WorkID] - credited'[WorkID] = balances[WorkID] - credited[WorkID],
         balances[WorkID] \in Int, balances'[WorkID] \in Int,
         credited[WorkID] \in Int, credited'[WorkID] \in Int,
         debitSeq \in Nat,
         pc' \in Charging \cup Over \/ pc \notin Charging \cup Over
  PROVE  LedgerInv'
<1>1. ChargedSeqs' = ChargedSeqs /\ ChargedSeqs \in Nat
  BY SMTT(30) DEF ChargedSeqs
<1>2. TickCost' = TickCost
  BY Zenon DEF TickCost
<1>3. ChargedSeqs * TickCost \in Int
  BY <1>1, TickCostFacts, SMTT(30)
<1>4. balances'[WorkID] = credited'[WorkID] - ChargedSeqs * TickCost
  BY <1>3, SMTT(30) DEF LedgerInv
<1> QED
  BY <1>1, <1>2, <1>4, Zenon DEF LedgerInv

(* Every step keeps LedgerInv. *)
LEMMA LedgerStep ==
  ASSUME TypeOK, TypeOK', BindingInv, LedgerInv, [Next]_vars
  PROVE  LedgerInv'
<1>a. /\ WorkID \in WorkIDs /\ debitSeq \in Nat
      /\ balances[WorkID] \in Int /\ balances'[WorkID] \in Int
      /\ credited[WorkID] \in Int /\ credited'[WorkID] \in Int
  <2>1. WorkID \in WorkIDs /\ debitSeq \in Nat /\ DaemonTypeOK /\ DaemonTypeOK'
    BY SessionAssumption, Zenon DEF TypeOK
  <2>2. balances[WorkID] \in Int /\ credited[WorkID] \in Int
    BY <2>1, SMTT(30) DEF DaemonTypeOK
  <2>3. balances'[WorkID] \in Int /\ credited'[WorkID] \in Int
    BY <2>1, SMTT(30) DEF DaemonTypeOK
  <2> QED
    BY <2>1, <2>2, <2>3, Zenon
<1>1. CASE Quiet
  <2>1. /\ debitReplays' = debitReplays /\ debitSeq' = debitSeq
        /\ balances' = balances /\ credited' = credited
    BY <1>1 DEF Quiet, daemonVars
  <2>2. pc' \in Charging \cup Over \/ pc \notin Charging \cup Over
    BY <1>1, Zenon DEF Quiet, Calm, Charging, Over
  <2> QED
    BY <1>a, <2>1, <2>2, LedgerFrame, Zenon
<1>2. CASE DebitSucceeds
  <2>1. DebitBalance(WorkID, Sender, Units, debitSeq + 1) /\ debitSeq' = debitSeq + 1
    BY <1>2, Zenon DEF DebitSucceeds
  <2>2. /\ DOMAIN debitReplays'[WorkID] = 1..debitSeq'
        /\ balances'[WorkID] = credited'[WorkID] - debitSeq' * TickCost
    BY <2>1, DebitEffect, Zenon
  <2>3. debitSeq' + 1 \notin 1..debitSeq'
    BY <1>a, <2>1, SMTT(30)
  <2>4. ChargedSeqs' = debitSeq'
    BY <2>2, <2>3, Zenon DEF ChargedSeqs
  <2>5. TickCost' = TickCost
    BY Zenon DEF TickCost
  <2> QED
    BY <2>2, <2>3, <2>4, <2>5, Zenon DEF LedgerInv
<1>3. CASE DebitFails
  <2>1. pc' \in Charging \cup Over /\ debitSeq' = debitSeq
    BY <1>3, Zenon DEF DebitFails, Fail, Charging, Over, usageVars
  <2>2. CASE UNCHANGED daemonVars
    BY <1>a, <2>1, <2>2, LedgerFrame, Zenon DEF daemonVars
  <2>3. CASE DebitBalance(WorkID, Sender, Units, debitSeq + 1)
    <3>1. /\ DOMAIN debitReplays'[WorkID] = 1..(debitSeq + 1)
          /\ balances'[WorkID] = credited'[WorkID] - (debitSeq + 1) * TickCost
      BY <2>3, DebitEffect, Zenon
    <3>2. debitSeq' + 1 \in 1..(debitSeq + 1)
      BY <1>a, <2>1, SMTT(30)
    <3>3. ChargedSeqs' = debitSeq + 1
      BY <2>1, <3>1, <3>2, Zenon DEF ChargedSeqs
    <3>4. TickCost' = TickCost
      BY Zenon DEF TickCost
    <3> QED
      BY <2>1, <3>1, <3>3, <3>4, Zenon DEF LedgerInv
  <2> QED
    BY <1>3, <2>2, <2>3, Zenon DEF DebitFails
<1>4. CASE ClosePayment
  <2>1. /\ debitReplays' = debitReplays /\ debitSeq' = debitSeq
        /\ balances' = balances /\ credited' = credited
    BY <1>4, Zenon DEF ClosePayment, CloseSession, daemonVars, usageVars
  <2>2. pc' \in Over
    BY <1>4, Zenon DEF ClosePayment, Over
  <2> QED
    BY <1>a, <2>1, <2>2, LedgerFrame, Zenon
<1>5. CASE EndHandlerCloses
  <2>1. /\ debitReplays' = debitReplays /\ debitSeq' = debitSeq /\ pc' = pc
        /\ balances' = balances /\ credited' = credited
    BY <1>5, Zenon DEF EndHandlerCloses, CloseSession, usageVars
  <2> QED
    BY <1>a, <2>1, LedgerFrame, Zenon
<1>6. ASSUME NEW ev \in Credits, TopUp(ev) PROVE LedgerInv'
  <2>1. debitReplays' = debitReplays /\ debitSeq' = debitSeq /\ pc' = pc
    BY <1>6, Zenon DEF TopUp, ProcessPayment, usageVars
  <2>2. ev \in Nat
    BY DaemonAssumption, Zenon
  <2>3. /\ balances'[WorkID] = balances[WorkID] + ev
        /\ credited'[WorkID] = credited[WorkID] + ev
    BY <1>6, <1>a, ZenonT(60) DEF TopUp, ProcessPayment, TypeOK, DaemonTypeOK
  <2>4. balances'[WorkID] - credited'[WorkID] = balances[WorkID] - credited[WorkID]
    BY <1>a, <2>2, <2>3, SMTT(30)
  <2> QED
    BY <1>a, <2>1, <2>4, LedgerFrame, Zenon
<1> QED
  BY <1>1, <1>2, <1>3, <1>4, <1>5, <1>6, StepKinds, Zenon

(* LedgerInv is the inductive form of ChargedOnce. *)
LEMMA LedgerGivesChargedOnce == LedgerInv => ChargedOnce
BY Zenon DEF LedgerInv, ChargedOnce, ChargedSeqs

(* The invariant that carries the safety proofs. *)
SessionInv == TypeOK /\ BindingInv /\ LedgerInv

(* It holds when the route calls Serve. *)
LEMMA SessionInvInit == Init => SessionInv
<1> SUFFICES ASSUME Init PROVE SessionInv
  BY Zenon
<1>a. /\ WorkID \in WorkIDs /\ Sender \in Senders /\ Offering \in Offerings
      /\ DebitRetryBudget \in Nat \ {0}
  BY SessionAssumption, Zenon
<1>b. PICK ev \in Credits : credited = [w \in WorkIDs |-> ev]
  BY Zenon DEF Init
<1>c. ev \in Nat
  BY DaemonAssumption, Zenon
<1>d. balances = [w \in WorkIDs |-> ev]
  BY <1>b, Zenon DEF Init
<1>e. debitReplays[WorkID] = NoReplays /\ DOMAIN NoReplays = {}
      /\ debitReplays = [w \in WorkIDs |-> NoReplays]
  BY <1>a, Zenon DEF Init, NoReplays
<1>1. DaemonTypeOK
  <2>1. \A w \in WorkIDs : debitReplays[w] \in [DOMAIN debitReplays[w] -> Int]
    BY <1>e, Zenon DEF NoReplays
  <2>2. credited \in [WorkIDs -> Nat] /\ balances \in [WorkIDs -> Int]
    BY <1>b, <1>c, <1>d, SMTT(30)
  <2> QED
    BY <1>a, <1>e, <2>1, <2>2, Zenon DEF DaemonTypeOK, Init
<1>2. TypeOK
  <2>1. events \in Seq(Events) /\ inboundCh \in Seq({"session.end", "other"})
    BY SeqTypes, Zenon DEF Init
  <2>2. attempt \in 1..DebitRetryBudget
    <3>1. attempt = 1
      BY Zenon DEF Init
    <3> QED
      BY <1>a, <3>1, SMTT(30)
  <2>3. /\ pc = "open" /\ balance = 0 /\ cumulativeUnits = 0 /\ debitSeq = 0
        /\ inLowBalance = FALSE /\ graceTimerCh = FALSE /\ endReason = ""
        /\ closed = FALSE /\ reader = "unstarted" /\ inboundErrCh = "empty"
        /\ closedReceives = 0 /\ ctxDone = FALSE
    BY Zenon DEF Init
  <2>4. balance \in Int /\ cumulativeUnits \in Nat /\ debitSeq \in Nat
        /\ closedReceives \in 0..2
    <3>1. balance = 0 /\ cumulativeUnits = 0 /\ debitSeq = 0 /\ closedReceives = 0
      BY <2>3, Zenon
    <3> QED
      BY <3>1, SMTT(30)
  <2>5. /\ inLowBalance \in BOOLEAN /\ graceTimerCh \in BOOLEAN /\ closed \in BOOLEAN
        /\ ctxDone \in BOOLEAN /\ endReason \in EndReasons \cup {""}
    BY <2>3, Zenon
  <2>6. /\ pc \in {"open", "select", "debit", "retry", "sufficient", "recheck",
                  "ending", "close", "returned"}
        /\ reader \in {"unstarted", "recv", "session.end", "other", "exited"}
        /\ inboundErrCh \in {"empty", "full", "nil"}
    BY <2>3, Zenon
  <2> QED
    BY <1>1, <2>1, <2>2, <2>4, <2>5, <2>6, Zenon DEF TypeOK
<1>3. BindingInv
  BY <1>a, Zenon DEF Init, BindingInv
<1>4. LedgerInv
  <2>1. ChargedSeqs = 0
    BY <1>e, Zenon DEF ChargedSeqs, Init
  <2>2. 1..0 = {} /\ 0 * TickCost = 0
    BY TickCostFacts, SMTT(30)
  <2>3. debitSeq = 0
    BY Zenon DEF Init
  <2> QED
    BY <1>a, <1>b, <1>c, <1>d, <1>e, <2>1, <2>2, <2>3, SMTT(30) DEF LedgerInv
<1> QED
  BY <1>2, <1>3, <1>4, Zenon DEF SessionInv

(* Every behaviour of Serve and its environment keeps it. *)
THEOREM SessionInvariant == Spec => []SessionInv
<1>1. SessionInv /\ [Next]_vars => SessionInv'
  <2> SUFFICES ASSUME SessionInv, [Next]_vars PROVE SessionInv'
    BY Zenon
  <2>1. TypeOK /\ BindingInv /\ LedgerInv
    BY Zenon DEF SessionInv
  <2>2. TypeOK'
    BY <2>1, TypeOKStep, Zenon
  <2> QED
    BY <2>1, <2>2, BindingStep, LedgerStep, Zenon DEF SessionInv
<1> QED
  BY <1>1, SessionInvInit, PTL DEF Spec

(* The state of a session, its ledger and its events keep their types. *)
THEOREM TypeCorrect == Spec => []TypeOK
<1>1. SessionInv => TypeOK
  BY Zenon DEF SessionInv
<1> QED
  BY <1>1, SessionInvariant, PTL

(* No lost reply, retry, top-up or concurrent /end makes debitWithRetry    *)
(* charge a tick twice or skip one, for any price, cadence and budget.     *)
THEOREM NoDoubleCharge == Spec => []ChargedOnce
<1>1. SessionInv => ChargedOnce
  BY LedgerGivesChargedOnce, Zenon DEF SessionInv
<1> QED
  BY <1>1, SessionInvariant, PTL

-----------------------------------------------------------------------------
(* Solvency.  OverdraftTraced is not inductive either: a debit that        *)
(* overdraws may lose its reply, so Serve learns of it from the replay.    *)
(* The balance is at least the last reply recorded, as top-ups only add to *)
(* it; and while Serve goes on, the last reply it saw read as credit.      *)
Reply(q) == debitReplays[WorkID][q]

AtLeast(q) ==
  IF q \in DOMAIN debitReplays[WorkID] THEN balances[WorkID] >= Reply(q)
                                       ELSE balances[WorkID] >= 0

SolvencyInv ==
  /\ \A q \in DOMAIN debitReplays[WorkID] : Reply(q) < -TickCost => Misread(q - 1)
  /\ /\ pc \in Calm \cup Charging
     /\ debitSeq \in DOMAIN debitReplays[WorkID]
     => DecodeBalance(Reply(debitSeq)) >= 0
  /\ IF debitSeq + 1 \in DOMAIN debitReplays[WorkID]
     THEN AtLeast(debitSeq + 1) ELSE AtLeast(debitSeq)

(* A step that makes no debit and takes nothing from the balance keeps it. *)
LEMMA SolvencyKept ==
  ASSUME TypeOK, SolvencyInv, debitReplays' = debitReplays, debitSeq' = debitSeq,
         pc' \in Calm \cup Charging => pc \in Calm \cup Charging,
         balances'[WorkID] \in Int, balances'[WorkID] >= balances[WorkID]
  PROVE  SolvencyInv'
<1>a. /\ WorkID \in WorkIDs /\ balances[WorkID] \in Int
      /\ \A q \in DOMAIN debitReplays[WorkID] : Reply(q) \in Int
  BY SessionAssumption, Zenon DEF TypeOK, DaemonTypeOK, Reply
<1>1. \A q : Reply(q)' = Reply(q) /\ (Misread(q)' <=> Misread(q))
  BY Zenon DEF Reply, Misread, DecodeBalance
<1>2. \A q : AtLeast(q) => AtLeast(q)'
  BY <1>a, <1>1, SMTT(30) DEF AtLeast
<1>3. \A b : DecodeBalance(b)' = DecodeBalance(b)
  BY Zenon DEF DecodeBalance
<1>4. TickCost' = TickCost
  BY Zenon DEF TickCost
<1>5. (\A q \in DOMAIN debitReplays[WorkID] : Reply(q) < -TickCost => Misread(q - 1))'
  BY <1>1, <1>4, Zenon DEF SolvencyInv
<1>6. (/\ pc \in Calm \cup Charging
       /\ debitSeq \in DOMAIN debitReplays[WorkID]
       => DecodeBalance(Reply(debitSeq)) >= 0)'
  BY <1>1, Zenon DEF SolvencyInv, DecodeBalance, Reply, Calm, Charging
<1>7. (IF debitSeq + 1 \in DOMAIN debitReplays[WorkID]
       THEN AtLeast(debitSeq + 1) ELSE AtLeast(debitSeq))'
  BY <1>a, SMTT(30) DEF SolvencyInv, AtLeast, Reply
<1> QED
  BY <1>5, <1>6, <1>7, Zenon DEF SolvencyInv

(* A debit the ledger has not seen overdraws by more than one tick only    *)
(* from a balance that was negative, and that Serve had been told was not. *)
LEMMA FreshDebit ==
  ASSUME TypeOK, BindingInv, LedgerInv, SolvencyInv, pc = "debit",
         DebitBalance(WorkID, Sender, Units, debitSeq + 1),
         debitSeq + 1 \notin DOMAIN debitReplays[WorkID]
  PROVE  /\ \A q \in DOMAIN debitReplays'[WorkID] :
              debitReplays'[WorkID][q] < -TickCost => Misread(q - 1)'
         /\ \A q \in DOMAIN debitReplays[WorkID] :
              debitReplays'[WorkID][q] = debitReplays[WorkID][q]
         /\ debitReplays'[WorkID][debitSeq + 1] = balances'[WorkID]
<1> DEFINE n == debitSeq + 1
           D == DOMAIN debitReplays[WorkID]
<1>a. /\ WorkID \in WorkIDs /\ debitSeq \in Nat /\ balances[WorkID] \in Int
      /\ \A q \in D : debitReplays[WorkID][q] \in Int
      /\ binding[WorkID] \in Offerings /\ Units \in Nat /\ DaemonTypeOK
  BY SessionAssumption, Zenon DEF TypeOK, DaemonTypeOK, BindingInv
<1>b. TickCost \in Nat
  BY TickCostFacts, Zenon
<1>1. /\ balances'[WorkID] = balances[WorkID] - TickCost
      /\ debitReplays'[WorkID][n] = balances'[WorkID]
  BY DebitEffect, Zenon
<1>2. /\ DOMAIN debitReplays'[WorkID] = D \cup {n}
      /\ \A q \in D : debitReplays'[WorkID][q] = debitReplays[WorkID][q]
  <2> HIDE DEF n
  <2>1. DebitBalance(WorkID, Sender, Units, n) /\ n \notin DOMAIN debitReplays[WorkID]
    BY Zenon DEF n
  <2>2. DOMAIN debitReplays'[WorkID] = D \cup {n}
    BY <1>a, <2>1, DebitFresh, ZenonT(60)
  <2>3. \A q \in D : debitReplays'[WorkID][q] = debitReplays[WorkID][q]
    BY <1>a, <2>1, DebitFresh, Zenon
  <2> QED
    BY <2>2, <2>3, Zenon
<1>3. \A q \in D : Misread(q) => Misread(q)'
  BY <1>2, Zenon DEF Misread, DecodeBalance
<1>4. ASSUME NEW q \in D, debitReplays'[WorkID][q] < -TickCost
      PROVE  Misread(q - 1)'
  <2>1. Misread(q - 1)
    BY <1>2, <1>4, Zenon DEF SolvencyInv, Reply
  <2> QED
    BY <1>3, <2>1, Zenon DEF Misread
<1>5. ASSUME NEW q, q = n, debitReplays'[WorkID][q] < -TickCost
      PROVE  Misread(q - 1)'
  <2>1. balances[WorkID] < 0
    BY <1>a, <1>b, <1>1, <1>5, SMTT(30)
  <2>2. debitSeq \in D /\ balances[WorkID] >= debitReplays[WorkID][debitSeq]
    BY <1>a, <2>1, SMTT(30) DEF SolvencyInv, AtLeast, Reply
  <2>3. DecodeBalance(debitReplays[WorkID][debitSeq]) >= 0
    BY <2>2, Zenon DEF SolvencyInv, Charging, Reply
  <2>4. debitReplays[WorkID][debitSeq] < 0
    BY <1>a, <2>1, <2>2, SMTT(30)
  <2>5. Misread(debitSeq)
    BY <2>2, <2>3, <2>4, Zenon DEF Misread
  <2>6. q - 1 = debitSeq
    BY <1>a, <1>5, SMTT(30)
  <2>7. q - 1 \in D /\ Misread(q - 1)
    BY <2>2, <2>5, <2>6, Zenon
  <2> QED
    BY <1>3, <2>7, Zenon
<1> HIDE DEF D
<1>6. \A q \in DOMAIN debitReplays'[WorkID] :
        debitReplays'[WorkID][q] < -TickCost => Misread(q - 1)'
  BY <1>2, <1>4, <1>5, Zenon
<1> QED
  BY <1>1, <1>2, <1>6, Zenon DEF D

(* Every step keeps SolvencyInv, whatever the client makes of a balance's  *)
(* sign.                                                                   *)
LEMMA SolvencyStep ==
  ASSUME SessionInv, SessionInv', SolvencyInv, [Next]_vars
  PROVE  SolvencyInv'
<1>a. /\ WorkID \in WorkIDs /\ debitSeq \in Nat /\ TypeOK /\ BindingInv /\ LedgerInv
      /\ DaemonTypeOK /\ LedgerInv'
  BY SessionAssumption, ZenonT(60) DEF SessionInv, TypeOK
<1>b. /\ balances[WorkID] \in Int /\ TickCost \in Nat /\ TickCost' = TickCost
      /\ balances[WorkID] >= balances[WorkID]
  BY <1>a, TickCostFacts, SMTT(30) DEF DaemonTypeOK, TickCost
<1>d. Over \cap (Calm \cup Charging) = {}
  BY Zenon DEF Calm, Charging, Over
<1>1. CASE Quiet \/ EndHandlerCloses
  <2>1. balances' = balances /\ debitReplays' = debitReplays /\ debitSeq' = debitSeq
    BY <1>1, Zenon DEF Quiet, daemonVars, EndHandlerCloses, CloseSession, usageVars
  <2>2. pc' \in Calm \cup Charging => pc \in Calm \cup Charging
    BY <1>1, <1>d, Zenon DEF Quiet, Charging, EndHandlerCloses
  <2> QED
    BY <1>a, <1>b, <2>1, <2>2, SolvencyKept, Zenon
<1>2. CASE DebitSucceeds
  <2> DEFINE n == debitSeq + 1
             reply == DebitReply(WorkID, Units, n)
  <2>1. /\ DebitBalance(WorkID, Sender, Units, n)
        /\ balance' = Debited(n) /\ pc = "debit" /\ debitSeq' = n
        /\ \/ balance' >= 0 /\ pc' = "sufficient"
           \/ balance' < 0 /\ pc' = "ending"
    BY <1>2, Zenon DEF DebitSucceeds, Fail
  <2>2. /\ reply \in Int /\ DecodeBalance(reply) \in Int /\ Debited(n) \in Int
        /\ Debited(n) < 0 <=> DecodeBalance(reply) < 0
    <3>1. reply \in Int
      BY <1>a, DebitedType, Zenon
    <3> QED
      BY <3>1, Wei64Sign, Zenon DEF Debited
  <2>3. pc' = "ending" \/ (pc' = "sufficient" /\ DecodeBalance(reply) >= 0)
    BY <2>1, <2>2, SMTT(30)
  <2>4. /\ DOMAIN debitReplays'[WorkID] = 1..n /\ debitReplays'[WorkID][n] = reply
    BY <1>a, <2>1, DebitEffect, Zenon
  <2>5. n \in DOMAIN debitReplays'[WorkID] /\ n + 1 \notin DOMAIN debitReplays'[WorkID]
    BY <1>a, <2>4, SMTT(30)
  <2>6. balances'[WorkID] >= reply
    <3>1. CASE n \in DOMAIN debitReplays[WorkID]
      BY <3>1, <1>a, <2>1, <2>4, DebitEffect, Zenon DEF SolvencyInv, AtLeast, Reply
    <3>2. CASE n \notin DOMAIN debitReplays[WorkID]
      <4>1. balances'[WorkID] = reply
        BY <3>2, <1>a, <2>1, DebitEffect, Zenon
      <4> QED
        BY <4>1, <2>2, SMTT(30)
    <3> QED
      BY <3>1, <3>2, Zenon
  <2>7. \A q \in DOMAIN debitReplays'[WorkID] :
          debitReplays'[WorkID][q] < -TickCost => Misread(q - 1)'
    <3>1. CASE n \in DOMAIN debitReplays[WorkID]
      <4>1. debitReplays' = debitReplays
        BY <3>1, <1>a, <2>1, DebitEffect, Zenon
      <4> QED
        BY <4>1, Zenon DEF SolvencyInv, Reply, Misread, DecodeBalance
    <3>2. CASE n \notin DOMAIN debitReplays[WorkID]
      BY <3>2, <1>a, <2>1, FreshDebit, Zenon
    <3> QED
      BY <3>1, <3>2, Zenon
  <2> HIDE DEF n, reply
  <2>8. (IF debitSeq + 1 \in DOMAIN debitReplays[WorkID]
         THEN AtLeast(debitSeq + 1) ELSE AtLeast(debitSeq))'
    BY <2>1, <2>4, <2>5, <2>6, Zenon DEF AtLeast, Reply
  <2>9. (/\ pc \in Calm \cup Charging
         /\ debitSeq \in DOMAIN debitReplays[WorkID]
         => DecodeBalance(Reply(debitSeq)) >= 0)'
    BY <2>1, <2>3, <2>4, Zenon DEF Calm, Charging, Reply, DecodeBalance
  <2> QED
    BY <1>b, <2>7, <2>8, <2>9, Zenon DEF SolvencyInv, Reply
<1>3. CASE DebitFails
  <2>1. pc = "debit" /\ pc' \in {"retry", "ending"} /\ debitSeq' = debitSeq
    BY <1>3, Zenon DEF DebitFails, Fail, usageVars
  <2>2. CASE balances' = balances /\ debitReplays' = debitReplays
    BY <1>a, <1>b, <2>1, <2>2, SolvencyKept, Zenon DEF Charging
  <2>3. CASE /\ DebitBalance(WorkID, Sender, Units, debitSeq + 1)
             /\ debitSeq + 1 \notin DOMAIN debitReplays[WorkID]
    <3>1. /\ \A q \in DOMAIN debitReplays'[WorkID] :
               debitReplays'[WorkID][q] < -TickCost => Misread(q - 1)'
          /\ \A q \in DOMAIN debitReplays[WorkID] :
               debitReplays'[WorkID][q] = debitReplays[WorkID][q]
          /\ debitReplays'[WorkID][debitSeq + 1] = balances'[WorkID]
      BY <1>a, <2>1, <2>3, FreshDebit, Zenon
    <3>2. /\ balances'[WorkID] = balances[WorkID] - TickCost
          /\ DOMAIN debitReplays'[WorkID] = 1..(debitSeq + 1)
          /\ DOMAIN debitReplays[WorkID] \in {1..debitSeq, 1..(debitSeq + 1)}
      BY <1>a, <2>3, DebitEffect, Zenon DEF LedgerInv, ChargedSeqs
    <3>3. /\ debitSeq + 1 \in DOMAIN debitReplays'[WorkID]
          /\ balances'[WorkID] >= balances'[WorkID]
          /\ debitSeq \in DOMAIN debitReplays'[WorkID] =>
               debitSeq \in DOMAIN debitReplays[WorkID]
      BY <1>a, <1>b, <3>2, SMTT(30)
    <3>4. (IF debitSeq + 1 \in DOMAIN debitReplays[WorkID]
           THEN AtLeast(debitSeq + 1) ELSE AtLeast(debitSeq))'
      BY <2>1, <3>1, <3>3, Zenon DEF AtLeast, Reply
    <3>5. (/\ pc \in Calm \cup Charging
           /\ debitSeq \in DOMAIN debitReplays[WorkID]
           => DecodeBalance(Reply(debitSeq)) >= 0)'
      BY <2>1, <3>1, <3>3, Zenon DEF SolvencyInv, Charging, Reply, DecodeBalance
    <3> QED
      BY <1>b, <3>1, <3>4, <3>5, Zenon DEF SolvencyInv, Reply
  <2> QED
    BY <1>3, <1>a, <2>2, <2>3, DebitEffect, Zenon DEF DebitFails, daemonVars
<1>4. CASE ClosePayment
  <2>1. /\ balances' = balances /\ debitReplays' = debitReplays /\ debitSeq' = debitSeq
        /\ pc' = "returned"
    BY <1>4, Zenon DEF ClosePayment, CloseSession, daemonVars, usageVars
  <2> QED
    BY <1>a, <1>b, <2>1, SolvencyKept, Zenon DEF Calm, Charging
<1>5. ASSUME NEW ev \in Credits, TopUp(ev) PROVE SolvencyInv'
  <2>1. debitReplays' = debitReplays /\ debitSeq' = debitSeq /\ pc' = pc
    BY <1>5, Zenon DEF TopUp, ProcessPayment, usageVars
  <2>2. ev \in Nat
    BY DaemonAssumption, Zenon
  <2>3. balances'[WorkID] = balances[WorkID] + ev
    BY <1>5, <1>a, Zenon DEF TopUp, ProcessPayment, DaemonTypeOK
  <2>4. balances'[WorkID] \in Int /\ balances'[WorkID] >= balances[WorkID]
    BY <1>b, <2>2, <2>3, SMTT(30)
  <2> QED
    BY <1>a, <2>1, <2>4, SolvencyKept, Zenon
<1> QED
  BY <1>1, <1>2, <1>3, <1>4, <1>5, StepKinds, Zenon

(* Whatever the client makes of a balance's sign, a session is overdrawn   *)
(* by more than one tick only through replies that it misread, for any     *)
(* price, cadence, budget and top-ups.                                     *)
THEOREM OverdraftSafe == Spec => []OverdraftTraced
<1>1. Init => SolvencyInv
  <2> SUFFICES ASSUME Init PROVE SolvencyInv
    BY Zenon
  <2>1. WorkID \in WorkIDs
    BY SessionAssumption, Zenon
  <2>2. PICK ev \in Credits : credited = [w \in WorkIDs |-> ev]
    BY Zenon DEF Init
  <2>3. balances[WorkID] = ev /\ ev \in Nat
    BY <2>1, <2>2, DaemonAssumption, Zenon DEF Init
  <2>4. DOMAIN debitReplays[WorkID] = {}
    BY <2>1, Zenon DEF Init, NoReplays
  <2> QED
    BY <2>3, <2>4, SMTT(30) DEF SolvencyInv, AtLeast
<1>2. SessionInv /\ SessionInv' /\ SolvencyInv /\ [Next]_vars => SolvencyInv'
  BY SolvencyStep, Zenon
<1>3. SessionInv /\ SolvencyInv => OverdraftTraced
  <2> SUFFICES ASSUME SessionInv, SolvencyInv, balances[WorkID] < -TickCost
               PROVE  \E q \in DOMAIN debitReplays[WorkID] : Misread(q)
    BY Zenon DEF SolvencyInv, OverdraftTraced, Reply
  <2>1. /\ WorkID \in WorkIDs /\ balances[WorkID] \in Int /\ TickCost \in Nat
        /\ \A q \in DOMAIN debitReplays[WorkID] : Reply(q) \in Int
    BY SessionAssumption, TickCostFacts, Zenon
       DEF SessionInv, TypeOK, DaemonTypeOK, Reply
  <2>2. PICK q \in DOMAIN debitReplays[WorkID] : balances[WorkID] >= Reply(q)
    BY <2>1, SMTT(30) DEF SolvencyInv, AtLeast
  <2>3. Reply(q) < -TickCost
    BY <2>1, <2>2, SMTT(30)
  <2> QED
    BY <2>3, Zenon DEF SolvencyInv, Misread
<1> QED
  BY <1>1, <1>2, <1>3, SessionInvariant, PTL DEF Spec

-----------------------------------------------------------------------------
(* Refinement of the PaymentSession contract. *)

(* Every step of the session is a step of the contract, or none. *)
LEMMA PaymentStep ==
  ASSUME SessionInv, SessionInv', [Next]_vars
  PROVE  [Payment!PaymentNext]_Payment!paymentVars
<1> USE DEF Payment!PaymentNext, Payment!paymentVars
<1>a. /\ WorkID \in WorkIDs /\ debitSeq \in Nat /\ TypeOK /\ BindingInv /\ LedgerInv
      /\ DaemonTypeOK
  BY SessionAssumption, Zenon DEF SessionInv, TypeOK
<1>b. status[WorkID] \in {"open", "closed"} /\ (closed <=> pc = "returned")
  BY <1>a, Zenon DEF BindingInv
<1>1. CASE Quiet
  <2>1. ChargedSeqs' = ChargedSeqs /\ debitSeq' = debitSeq /\ SessionPhase' = SessionPhase
    BY <1>1, Zenon DEF Quiet, daemonVars, ChargedSeqs, SessionPhase
  <2> QED
    BY <2>1, Zenon
<1>c. ASSUME DebitBalance(WorkID, Sender, Units, debitSeq + 1), closed' = closed,
             pc = "debit"
      PROVE  /\ SessionPhase = "open" /\ SessionPhase' = SessionPhase
             /\ DOMAIN debitReplays'[WorkID] = 1..(debitSeq + 1)
  <2>1. status[WorkID] = "open" /\ status' = status /\ closed = FALSE
    BY <1>c, <1>a, <1>b, ZenonT(60) DEF DebitBalance, BoundTo, TypeOK
  <2>2. DOMAIN debitReplays'[WorkID] = 1..(debitSeq + 1)
    BY <1>c, <1>a, DebitEffect, Zenon
  <2> QED
    BY <1>c, <2>1, <2>2, Zenon DEF SessionPhase
<1>2. CASE DebitSucceeds
  <2>1. /\ SessionPhase = "open" /\ SessionPhase' = SessionPhase
        /\ DOMAIN debitReplays'[WorkID] = 1..(debitSeq + 1)
    BY <1>2, <1>c, Zenon DEF DebitSucceeds
  <2>2. debitSeq' = debitSeq + 1
    BY <1>2, Zenon DEF DebitSucceeds
  <2>3. ChargedSeqs' = debitSeq + 1
    <3>1. debitSeq' + 1 \notin 1..(debitSeq + 1)
      BY <1>a, <2>2, SMTT(30)
    <3> QED
      BY <2>1, <2>2, <3>1, Zenon DEF ChargedSeqs
  <2>4. CASE debitSeq + 1 \in DOMAIN debitReplays[WorkID]
    <3>1. ChargedSeqs = debitSeq + 1
      BY <2>4, Zenon DEF ChargedSeqs
    <3> QED
      BY <2>1, <2>2, <2>3, <3>1, Zenon DEF Payment!Acknowledge
  <2>5. CASE debitSeq + 1 \notin DOMAIN debitReplays[WorkID]
    <3>1. ChargedSeqs = debitSeq
      BY <2>5, Zenon DEF ChargedSeqs
    <3> QED
      BY <2>1, <2>2, <2>3, <3>1, Zenon DEF Payment!Charge
  <2> QED
    BY <2>4, <2>5, Zenon
<1>3. CASE DebitFails
  <2>1. debitSeq' = debitSeq /\ closed' = closed /\ pc = "debit"
    BY <1>3, Zenon DEF DebitFails, usageVars
  <2>2. CASE UNCHANGED daemonVars
    BY <2>1, <2>2, Zenon DEF daemonVars, ChargedSeqs, SessionPhase
  <2>3. CASE DebitBalance(WorkID, Sender, Units, debitSeq + 1)
    <3>1. /\ SessionPhase = "open" /\ SessionPhase' = SessionPhase
          /\ DOMAIN debitReplays'[WorkID] = 1..(debitSeq + 1)
      BY <2>1, <2>3, <1>c, Zenon
    <3>2. ChargedSeqs' = debitSeq + 1
      <4>1. debitSeq' + 1 \in 1..(debitSeq + 1)
        BY <1>a, <2>1, SMTT(30)
      <4> QED
        BY <2>1, <3>1, <4>1, Zenon DEF ChargedSeqs
    <3>3. ChargedSeqs \in {debitSeq, debitSeq + 1}
      BY Zenon DEF ChargedSeqs
    <3> QED
      BY <2>1, <3>1, <3>2, <3>3, Zenon DEF Payment!Charge
  <2> QED
    BY <1>3, <2>2, <2>3, Zenon DEF DebitFails
<1>4. CASE ClosePayment
  <2>1. ChargedSeqs' = ChargedSeqs /\ debitSeq' = debitSeq /\ closed' = TRUE
    BY <1>4, Zenon DEF ClosePayment, CloseSession, daemonVars, usageVars, ChargedSeqs
  <2>2. closed = FALSE
    BY <1>4, <1>a, <1>b, Zenon DEF ClosePayment, TypeOK
  <2>3. SessionPhase # "closed" /\ SessionPhase' = "closed"
    BY <2>1, <2>2, Zenon DEF SessionPhase
  <2> QED
    BY <2>1, <2>3, Zenon DEF Payment!Close
<1>5. CASE EndHandlerCloses
  <2>1. ChargedSeqs' = ChargedSeqs /\ debitSeq' = debitSeq /\ closed' = closed
        /\ status[WorkID] = "open" /\ status'[WorkID] = "closed"
    BY <1>5, <1>a, Zenon
       DEF EndHandlerCloses, CloseSession, usageVars, ChargedSeqs, DaemonTypeOK
  <2> QED
    BY <2>1, Zenon DEF SessionPhase, Payment!Revoke
<1>6. ASSUME NEW ev \in Credits, TopUp(ev)
      PROVE  [Payment!PaymentNext]_Payment!paymentVars
  <2>1. ChargedSeqs' = ChargedSeqs /\ debitSeq' = debitSeq /\ SessionPhase' = SessionPhase
    BY <1>6, Zenon DEF TopUp, ProcessPayment, usageVars, ChargedSeqs, SessionPhase
  <2> QED
    BY <2>1, Zenon
<1> QED
  BY <1>1, <1>2, <1>3, <1>4, <1>5, <1>6, StepKinds, Zenon

(* Serve with its retries, lost replies and concurrent /end requests       *)
(* implements the PaymentSession contract, for every value of its          *)
(* constants.                                                              *)
THEOREM Refinement == Spec => ImplementsPaymentSession
<1>1. Init => Payment!PaymentInit
  <2> SUFFICES ASSUME Init PROVE Payment!PaymentInit
    BY Zenon
  <2>1. WorkID \in WorkIDs
    BY SessionAssumption, Zenon
  <2>2. DOMAIN debitReplays[WorkID] = {} /\ status[WorkID] = "open"
    BY <2>1, Zenon DEF Init, NoReplays
  <2>3. debitSeq = 0 /\ closed = FALSE
    BY Zenon DEF Init
  <2> QED
    BY <2>2, <2>3, Zenon DEF Payment!PaymentInit, ChargedSeqs, SessionPhase
<1>2. SessionInv /\ SessionInv' /\ [Next]_vars
        => [Payment!PaymentNext]_Payment!paymentVars
  BY PaymentStep, Zenon
<1> QED
  BY <1>1, <1>2, SessionInvariant, PTL
  DEF Spec, ImplementsPaymentSession, Payment!PaymentSpec

-----------------------------------------------------------------------------
(* What the bridge is told: the usage, the balance and the ending of the  *)
(* session.  The invariants behind them.                                   *)

IsTick(e) == e.type = "session.usage.tick"
IsLow(e) == e.type = "session.balance.low"
IsRefilled(e) == e.type = "session.balance.refilled"
IsEnded(e) == e.type = "session.ended"

(* The usage ticks sent are 1..n, in order, with their running totals. *)
TicksSent(n) ==
  /\ \A q \in 1..n : \E i \in DOMAIN events : IsTick(events[i]) /\ events[i].seq = q
  /\ \A i \in DOMAIN events : IsTick(events[i]) =>
       events[i].seq \in 1..n /\ events[i].cumulative = events[i].seq * Units
  /\ \A i, j \in DOMAIN events :
       IsTick(events[i]) /\ IsTick(events[j]) /\ i < j => events[i].seq < events[j].seq

(* UsageReported, and which of its two cases: a debit is acknowledged and  *)
(* not reported only when it overdrew and ended the session.               *)
UsageInv ==
  \E n \in Nat :
    /\ cumulativeUnits = n * Units /\ TicksSent(n)
    /\ \/ n = debitSeq
       \/ /\ debitSeq = n + 1 /\ pc \in Over
          /\ debitSeq + 1 \notin DOMAIN debitReplays[WorkID]

(* GraceDiscipline, and that the grace timer fires only in the low-balance *)
(* state.                                                                  *)
GraceInv == GraceDiscipline /\ (pc = "recheck" => inLowBalance)

(* EndingReported at each control point: nothing final is said before the  *)
(* session is over, and what made it end is said last before session.ended. *)
EndingInv ==
  LET n == Len(events)
  IN  /\ pc \notin Over =>
           endReason = "" /\ \A i \in 1..n : ~IsEnded(events[i]) /\ ~IsFatal(events[i])
      /\ pc = "ending" =>
           /\ endReason # ""
           /\ \A i \in 1..n : ~IsEnded(events[i]) /\ (IsFatal(events[i]) => i = n)
           /\ endReason \in {"fatal_error", "balance_exhausted"}
                <=> (n > 0 /\ IsFatal(events[n]))
           /\ endReason = "balance_exhausted" => inLowBalance
      /\ pc \in {"close", "returned"} =>
           /\ endReason # ""
           /\ n > 0 /\ events[n] = Ended(endReason, cumulativeUnits)
           /\ \A i \in 1..n : /\ IsEnded(events[i]) => i = n
                              /\ IsFatal(events[i]) => i = n - 1
           /\ endReason \in {"fatal_error", "balance_exhausted"}
                <=> (n > 1 /\ IsFatal(events[n - 1]))
           /\ endReason = "balance_exhausted" => inLowBalance

ReportInv == UsageInv /\ GraceInv /\ EndingInv

-----------------------------------------------------------------------------
(* Steps by what they tell the bridge. *)

Warning == Error("payment_unreachable", TRUE)

(* What was said stays said. *)
Kept ==
  /\ Len(events') >= Len(events)
  /\ \A i \in 1..Len(events) : events'[i] = events[i]

Says(e) == Kept /\ Len(events') = Len(events) + 1 /\ events'[Len(events')] = e

Silent ==
  /\ UNCHANGED <<events, lowVars, cumulativeUnits, debitSeq, endReason>>
  /\ \/ pc' = pc
     \/ pc \notin Over /\ pc' \notin Over /\ (pc' = "recheck" => graceTimerCh)
     \/ pc = "close" /\ pc' = "returned"
  /\ pc \in Over => debitReplays' = debitReplays

Notes ==
  /\ Says(Ready) \/ Says(Warning)
  /\ pc \notin Over /\ pc' \notin Over \cup {"recheck"}
  /\ UNCHANGED <<lowVars, cumulativeUnits, debitSeq, endReason>>

Reports ==
  /\ Says(UsageTick(debitSeq + 1, cumulativeUnits + Units))
  /\ debitSeq' = debitSeq + 1 /\ cumulativeUnits' = cumulativeUnits + Units
  /\ pc = "debit" /\ pc' = "sufficient"
  /\ UNCHANGED <<lowVars, endReason>>

Lowers ==
  /\ Says(BalanceLow(balance))
  /\ ~inLowBalance /\ inLowBalance' = TRUE /\ graceTimerCh' = TRUE
  /\ pc = "sufficient" /\ pc' = "select"
  /\ UNCHANGED <<cumulativeUnits, debitSeq, endReason>>

Refills ==
  /\ Says(BalanceRefilled)
  /\ inLowBalance \/ pc = "recheck"
  /\ inLowBalance' = FALSE /\ graceTimerCh' = FALSE
  /\ pc \notin Over /\ pc' = "select"
  /\ UNCHANGED <<cumulativeUnits, debitSeq, endReason>>

Fails ==
  /\ Kept /\ Len(events') > Len(events)
  /\ \E code : events'[Len(events')] = Error(code, FALSE)
  /\ \A i \in (Len(events) + 1)..(Len(events') - 1) : events'[i] = Warning
  /\ pc \notin Over /\ pc' = "ending"
  /\ recordEnd("fatal_error") \/ (pc = "recheck" /\ recordEnd("balance_exhausted"))
  /\ UNCHANGED <<lowVars, cumulativeUnits>>
  /\ \/ debitSeq' = debitSeq
     \/ /\ debitSeq' = debitSeq + 1
        /\ debitSeq' + 1 \notin DOMAIN debitReplays'[WorkID]

Stops ==
  /\ pc = "select" /\ pc' = "ending"
  /\ recordEnd("user_end") \/ recordEnd("shutdown")
  /\ UNCHANGED <<events, lowVars, cumulativeUnits, debitSeq>>

Ends ==
  /\ EmitEnded
  /\ Says(Ended(IF endReason = "" THEN "user_end" ELSE endReason, cumulativeUnits))

(* Sending events appends them to the history. *)
LEMMA EmitAppends ==
  ASSUME events \in Seq(Events), NEW evs \in Seq(Events), emit(evs)
  PROVE  /\ Kept /\ Len(events') = Len(events) + Len(evs)
         /\ Len(events) \in Nat /\ Len(evs) \in Nat
         /\ \A i \in 1..Len(evs) : events'[Len(events) + i] = evs[i]
BY SMTT(30) DEF emit, Kept

(* Sending one event makes it the last of the history. *)
LEMMA EmitSays ==
  ASSUME events \in Seq(Events), NEW e \in Events, emit(<<e>>)
  PROVE  Says(e)
<1>1. <<e>> \in Seq(Events) /\ Len(<<e>>) = 1 /\ <<e>>[1] = e
  BY SMTT(30)
<1> DEFINE evs == <<e>>
<1> HIDE DEF evs
<1>2. /\ Kept /\ Len(events') = Len(events) + Len(evs)
      /\ \A i \in 1..Len(evs) : events'[Len(events) + i] = evs[i]
  BY <1>1, EmitAppends, Zenon DEF evs
<1>3. evs[1] = e /\ Len(evs) = 1 /\ Len(events) \in Nat
  BY <1>1, SMTT(30) DEF evs
<1> QED
  BY <1>2, <1>3, SMTT(30) DEF Says

(* The last word of a failing step. *)
LEMMA FailSays ==
  ASSUME events \in Seq(Events), NEW code \in ErrorCodes,
         \/ emit(<<Error(code, FALSE)>>)
         \/ emit(<<Warning>> \o <<Error(code, FALSE)>>)
  PROVE  /\ Kept /\ Len(events') > Len(events)
         /\ events'[Len(events')] = Error(code, FALSE)
         /\ \A i \in (Len(events) + 1)..(Len(events') - 1) : events'[i] = Warning
<1> DEFINE e == Error(code, FALSE)
<1>a. e \in Events /\ Warning \in Events /\ Len(events) \in Nat
  <2>1. "payment_unreachable" \in ErrorCodes
    BY Zenon DEF ErrorCodes
  <2>2. e \in Events /\ Warning \in Events
    BY <2>1, EventTypes, ZenonT(60) DEF Warning
  <2>3. Len(events) \in Nat
    BY SMTT(30)
  <2> QED
    BY <2>2, <2>3, ZenonT(60)
<1> HIDE DEF e
<1>1. CASE emit(<<e>>)
  <2>1. Says(e)
    BY <1>1, <1>a, EmitSays, Zenon
  <2> QED
    BY <2>1, <1>a, SMTT(30) DEF Says, e
<1>2. CASE emit(<<Warning>> \o <<e>>)
  <2> DEFINE evs == <<Warning>> \o <<e>>
  <2>1. evs \in Seq(Events) /\ Len(evs) = 2 /\ evs[1] = Warning /\ evs[2] = e
    BY <1>a, SMTT(30)
  <2> HIDE DEF evs
  <2>2. /\ Kept /\ Len(events') = Len(events) + Len(evs)
        /\ \A i \in 1..Len(evs) : events'[Len(events) + i] = evs[i]
    BY <1>2, <1>a, <2>1, EmitAppends, Zenon DEF evs
  <2>3. events'[Len(events) + 1] = Warning /\ events'[Len(events) + 2] = e
    BY <2>1, <2>2, SMTT(30)
  <2>4. \A i \in (Len(events) + 1)..(Len(events') - 1) : i = Len(events) + 1
    BY <2>1, <2>2, <1>a, SMTT(30)
  <2>5. Kept /\ Len(events') = Len(events) + 2
    BY <2>1, <2>2, Zenon
  <2>6. events'[Len(events')] = e /\ Len(events') > Len(events)
    BY <2>3, <2>5, <1>a, SMTT(30)
  <2> QED
    BY <2>3, <2>4, <2>5, <2>6, Zenon DEF e
<1> QED
  BY <1>1, <1>2, Zenon DEF e

(* The history of a session, before and after a step. *)
LEMMA Histories ==
  ASSUME SessionInv, SessionInv'
  PROVE  /\ events \in Seq(Events) /\ events' \in Seq(Events)
         /\ Len(events) \in Nat /\ Len(events') \in Nat
         /\ DOMAIN events = 1..Len(events) /\ DOMAIN events' = 1..Len(events')
<1>1. TypeOK /\ TypeOK'
  BY Zenon DEF SessionInv
<1>2. events \in Seq(Events) /\ events' \in Seq(Events)
  BY <1>1, ZenonT(60) DEF TypeOK
<1> QED
  BY <1>2, SMTT(30)

(* Every step is one of these. *)
LEMMA EventKinds ==
  ASSUME SessionInv, [Next]_vars
  PROVE  \/ Silent \/ Notes \/ Reports \/ Lowers \/ Refills \/ Fails \/ Stops \/ Ends
<1> USE DEF usageVars, lowVars, outcomeVars, bridgeVars, Over
<1>a. /\ TypeOK /\ BindingInv /\ LedgerInv /\ events \in Seq(Events)
      /\ debitSeq \in Nat /\ cumulativeUnits \in Nat /\ balance \in Int
  BY Zenon DEF SessionInv, TypeOK
<1>b. Units \in Nat /\ WorkID \in WorkIDs
  BY SessionAssumption, Zenon
<1>c. {"balance_exhausted", "payment_unreachable", "backend_down", "fatal"} \subseteq ErrorCodes
  BY Zenon DEF ErrorCodes
<1>1. CASE UNCHANGED vars
  BY <1>1, Zenon DEF vars, Silent, daemonVars
<1>2. CASE BackendOpens
  <2>1. Says(Ready)
    BY <1>2, <1>a, EventTypes, EmitSays, Zenon DEF BackendOpens
  <2> QED
    BY <1>2, <2>1, Zenon DEF BackendOpens, Notes
<1>3. CASE BackendOpenFails \/ RecheckExhausted \/ RecheckFails \/ RetryCancelled \/ Panics
  <2>1. PICK code \in ErrorCodes : emit(<<Error(code, FALSE)>>)
    BY <1>3, <1>c, Zenon
    DEF BackendOpenFails, RecheckExhausted, RecheckFails, RetryCancelled, Panics, Fail
  <2>2. /\ pc \notin Over /\ pc' = "ending" /\ UNCHANGED <<lowVars, cumulativeUnits, debitSeq>>
        /\ recordEnd("fatal_error") \/ (pc = "recheck" /\ recordEnd("balance_exhausted"))
    BY <1>3, Zenon
    DEF BackendOpenFails, RecheckExhausted, RecheckFails, RetryCancelled, Panics, Fail
  <2> QED
    BY <2>1, <2>2, <1>a, FailSays, Zenon DEF Fails
<1>4. CASE Tick \/ RetryAfterInterval \/ SufficientFails \/ GraceExpires
  BY <1>4, Zenon DEF Tick, RetryAfterInterval, SufficientFails, GraceExpires, Silent
<1>5. CASE DebitSucceeds
  <2>a. balance' \in Int
    BY <1>5, <1>a, DebitedType, Zenon DEF DebitSucceeds, TypeOK
  <2>1. CASE balance' >= 0
    <3>1. /\ emit(<<UsageTick(debitSeq + 1, cumulativeUnits + Units)>>)
          /\ debitSeq' = debitSeq + 1 /\ cumulativeUnits' = cumulativeUnits + Units
          /\ pc = "debit" /\ pc' = "sufficient"
          /\ UNCHANGED <<lowVars, endReason>>
      BY <1>5, <2>a, <2>1, SMTT(30) DEF DebitSucceeds
    <3>2. UsageTick(debitSeq + 1, cumulativeUnits + Units) \in Events
      <4>1. debitSeq + 1 \in Nat /\ cumulativeUnits + Units \in Nat
        BY <1>a, <1>b, SMTT(30)
      <4> QED
        BY <4>1, EventTypes, Zenon
    <3> QED
      BY <3>1, <3>2, <1>a, EmitSays, Zenon DEF Reports
  <2>2. CASE ~(balance' >= 0)
    <3>1. /\ Fail("fatal_error", <<Error("balance_exhausted", FALSE)>>)
          /\ debitSeq' = debitSeq + 1 /\ UNCHANGED <<lowVars, cumulativeUnits>>
          /\ pc = "debit" /\ DebitBalance(WorkID, Sender, Units, debitSeq + 1)
      BY <1>5, <2>2, Zenon DEF DebitSucceeds
    <3>2. DOMAIN debitReplays'[WorkID] = 1..(debitSeq + 1)
      BY <3>1, <1>a, DebitEffect, Zenon
    <3>3. debitSeq' + 1 \notin DOMAIN debitReplays'[WorkID]
      BY <3>1, <3>2, <1>a, SMTT(30)
    <3>4. emit(<<Error("balance_exhausted", FALSE)>>) /\ pc' = "ending"
          /\ recordEnd("fatal_error")
      BY <3>1, Zenon DEF Fail
    <3> QED
      BY <3>1, <3>3, <3>4, <1>a, <1>c, FailSays, Zenon DEF Fails
  <2> QED
    BY <2>1, <2>2, Zenon
<1>6. CASE DebitFails
  <2>1. FirstFailureWarning = <<>> \/ FirstFailureWarning = <<Warning>>
    BY Zenon DEF FirstFailureWarning, Warning
  <2>2. pc = "debit" /\ UNCHANGED <<lowVars, cumulativeUnits, debitSeq>>
    BY <1>6, Zenon DEF DebitFails
  <2>3. CASE emit(FirstFailureWarning) /\ pc' = "retry" /\ UNCHANGED endReason
    <3>1. CASE FirstFailureWarning = <<>>
      <4>1. events' = events
        BY <3>1, <2>3, <1>a, SMTT(30) DEF emit
      <4> QED
        BY <4>1, <2>2, <2>3, Zenon DEF Silent
    <3>2. CASE FirstFailureWarning = <<Warning>>
      <4>1. Warning \in Events
        BY <1>c, EventTypes, ZenonT(60) DEF Warning
      <4>2. Says(Warning)
        BY <4>1, <3>2, <2>3, <1>a, EmitSays, Zenon
      <4> QED
        BY <4>2, <2>2, <2>3, Zenon DEF Notes
    <3> QED
      BY <2>1, <3>1, <3>2, Zenon
  <2>4. CASE Fail("fatal_error",
                  FirstFailureWarning \o <<Error("payment_unreachable", FALSE)>>)
    <3>1. \/ emit(<<Error("payment_unreachable", FALSE)>>)
          \/ emit(<<Warning>> \o <<Error("payment_unreachable", FALSE)>>)
      <4>1. <<>> \o <<Error("payment_unreachable", FALSE)>>
              = <<Error("payment_unreachable", FALSE)>>
        BY SMTT(30)
      <4> QED
        BY <4>1, <2>1, <2>4, ZenonT(60) DEF Fail
    <3>2. pc' = "ending" /\ recordEnd("fatal_error")
      BY <2>4, Zenon DEF Fail
    <3> QED
      BY <3>1, <3>2, <2>2, <1>a, <1>c, FailSays, Zenon DEF Fails
  <2> QED
    BY <1>6, <2>3, <2>4, Zenon DEF DebitFails
<1>7. CASE SufficientAnswers
  <2>1. pc = "sufficient" /\ pc' = "select" /\ UNCHANGED <<cumulativeUnits, debitSeq, endReason>>
    BY <1>7, Zenon DEF SufficientAnswers
  <2>2. \/ ~inLowBalance /\ enterLowBalance
        \/ inLowBalance /\ exitLowBalance
        \/ UNCHANGED <<lowVars, events>>
    BY <1>7, Zenon DEF SufficientAnswers
  <2>3. CASE ~inLowBalance /\ enterLowBalance
    <3>1. BalanceLow(balance) \in Events /\ emit(<<BalanceLow(balance)>>)
      BY <2>3, <1>a, EventTypes, ZenonT(60) DEF enterLowBalance
    <3>2. Says(BalanceLow(balance))
      BY <3>1, <1>a, EmitSays, Zenon
    <3> QED
      BY <2>1, <2>3, <3>2, Zenon DEF Lowers, enterLowBalance
  <2>4. CASE inLowBalance /\ exitLowBalance
    <3>1. Says(BalanceRefilled)
      BY <2>4, <1>a, EventTypes, EmitSays, Zenon DEF exitLowBalance
    <3> QED
      BY <2>1, <2>4, <3>1, Zenon DEF Refills, exitLowBalance
  <2>5. CASE UNCHANGED <<lowVars, events>>
    BY <2>1, <2>5, Zenon DEF Silent
  <2> QED
    BY <2>2, <2>3, <2>4, <2>5, Zenon
<1>8. CASE RecheckRefilled
  <2>1. Says(BalanceRefilled)
    BY <1>8, <1>a, EventTypes, EmitSays, Zenon DEF RecheckRefilled, exitLowBalance
  <2> QED
    BY <1>8, <2>1, Zenon DEF RecheckRefilled, exitLowBalance, Refills
<1>9. CASE InboundEvent
  BY <1>9, Zenon DEF InboundEvent, Stops, Silent
<1>10. CASE InboundClosed \/ InboundError
  BY <1>10, Zenon DEF InboundClosed, InboundError, Silent
<1>11. CASE LoopCancelled
  BY <1>11, Zenon DEF LoopCancelled, Stops
<1>12. CASE bridgeReader
  BY <1>12, Zenon
     DEF bridgeReader, ReaderReceives, ReaderSends, ReaderFails, ReaderCancelled,
         Silent, daemonVars
<1>13. CASE EmitEnded
  <2> DEFINE reason == IF endReason = "" THEN "user_end" ELSE endReason
  <2>1. reason \in EndReasons
    BY <1>a, Zenon DEF TypeOK, EndReasons
  <2>2. Ended(reason, cumulativeUnits) \in Events
    BY <2>1, <1>a, EventTypes, Zenon
  <2>3. emit(<<Ended(reason, cumulativeUnits)>>)
    BY <1>13, Zenon DEF EmitEnded
  <2> HIDE DEF reason
  <2>4. Says(Ended(reason, cumulativeUnits))
    BY <2>2, <2>3, <1>a, EmitSays, Zenon
  <2> QED
    BY <1>13, <2>4, Zenon DEF Ends, reason
<1>14. CASE ClosePayment
  BY <1>14, Zenon DEF ClosePayment, CloseSession, daemonVars, Silent
<1>15. ASSUME NEW ev \in Credits, TopUp(ev) PROVE Silent
  BY <1>15, Zenon DEF TopUp, ProcessPayment, Silent
<1>16. CASE EndHandlerCloses
  BY <1>16, Zenon DEF EndHandlerCloses, CloseSession, Silent
<1>17. CASE CancelContext
  BY <1>17, Zenon DEF CancelContext, daemonVars, Silent
<1> QED
  BY <1>1, <1>2, <1>3, <1>4, <1>5, <1>6, <1>7, <1>8, <1>9, <1>10, <1>11, <1>12, <1>13,
     <1>14, <1>15, <1>16, <1>17
  DEF Next, Serve, Select, Environment

-----------------------------------------------------------------------------
(* The usage. *)

(* Events that report no usage leave the ticks sent what they were. *)
LEMMA TicksKept ==
  ASSUME events \in Seq(Events), events' \in Seq(Events), Kept, NEW n \in Nat, TicksSent(n),
         \A i \in (Len(events) + 1)..Len(events') : ~IsTick(events'[i])
  PROVE  TicksSent(n)'
<1>a. /\ DOMAIN events = 1..Len(events) /\ DOMAIN events' = 1..Len(events')
      /\ Len(events) \in Nat /\ Len(events') \in Nat
  BY SMTT(30)
<1>1. \A i \in DOMAIN events' : IsTick(events'[i]) =>
        i \in DOMAIN events /\ events'[i] = events[i]
  <2> SUFFICES ASSUME NEW i \in 1..Len(events'), IsTick(events'[i])
               PROVE  i \in 1..Len(events) /\ events'[i] = events[i]
    BY <1>a, Zenon
  <2>1. i \notin (Len(events) + 1)..Len(events')
    BY Zenon
  <2>2. i \in 1..Len(events)
    BY <1>a, <2>1, SMTT(30)
  <2> QED
    BY <2>2, Zenon DEF Kept
<1>2. \A i \in DOMAIN events : i \in DOMAIN events' /\ events'[i] = events[i]
  BY <1>a, SMTT(30) DEF Kept
<1> QED
  BY <1>1, <1>2, Zenon DEF TicksSent, IsTick

(* One more usage tick is the next one. *)
LEMMA TickSent ==
  ASSUME events \in Seq(Events), events' \in Seq(Events), NEW n \in Nat, TicksSent(n),
         Says(UsageTick(n + 1, (n + 1) * Units))
  PROVE  TicksSent(n + 1)'
<1>a. /\ DOMAIN events = 1..Len(events) /\ DOMAIN events' = 1..Len(events')
      /\ Len(events) \in Nat /\ Len(events') = Len(events) + 1
  BY SMTT(30) DEF Says
<1> DEFINE m == Len(events')
<1>1. IsTick(events'[m]) /\ events'[m].seq = n + 1 /\ events'[m].cumulative = (n + 1) * Units
  BY SMTT(30) DEF Says, UsageTick, IsTick
<1>2. m \in DOMAIN events' /\ m \notin DOMAIN events
  BY <1>a, SMTT(30)
<1>3. \A i \in DOMAIN events' : i = m \/ (i \in DOMAIN events /\ i < m)
  BY <1>a, SMTT(30)
<1>4. \A i \in DOMAIN events : i \in DOMAIN events' /\ events'[i] = events[i]
  BY <1>a, SMTT(30) DEF Says, Kept
<1>5. \A q \in 1..(n + 1) : q = n + 1 \/ q \in 1..n
  BY SMTT(30)
<1>6. n + 1 \in 1..(n + 1) /\ \A q \in 1..n : q \in 1..(n + 1) /\ q < n + 1
  BY SMTT(30)
<1> HIDE DEF m
<1>7. \A q \in 1..(n + 1) : \E i \in DOMAIN events' : IsTick(events'[i]) /\ events'[i].seq = q
  BY <1>1, <1>2, <1>4, <1>5, SMTT(30) DEF TicksSent
<1>8. \A i \in DOMAIN events' : IsTick(events'[i]) =>
        events'[i].seq \in 1..(n + 1) /\ events'[i].cumulative = events'[i].seq * Units
  BY <1>1, <1>3, <1>4, <1>6, Zenon DEF TicksSent
<1>9. \A i, j \in DOMAIN events' :
        IsTick(events'[i]) /\ IsTick(events'[j]) /\ i < j => events'[i].seq < events'[j].seq
  <2> SUFFICES ASSUME NEW i \in DOMAIN events', NEW j \in DOMAIN events',
                      IsTick(events'[i]), IsTick(events'[j]), i < j
               PROVE  events'[i].seq < events'[j].seq
    BY Zenon
  <2>1. i \in DOMAIN events /\ i # m
    BY <1>3, <1>a, SMTT(30) DEF m
  <2>2. CASE j = m
    <3>1. events'[i].seq \in 1..n
      BY <2>1, <1>4, Zenon DEF TicksSent
    <3> QED
      BY <3>1, <2>2, <1>1, <1>6, Zenon
  <2>3. CASE j \in DOMAIN events
    BY <2>1, <2>3, <1>4, Zenon DEF TicksSent
  <2> QED
    BY <2>2, <2>3, <1>3, Zenon
<1> QED
  BY <1>7, <1>8, <1>9, Zenon DEF TicksSent, IsTick

(* The events other than usage ticks are not usage ticks. *)
LEMMA NoTick ==
  /\ ~IsTick(Ready) /\ ~IsTick(Warning) /\ ~IsTick(BalanceRefilled)
  /\ \A x : ~IsTick(BalanceLow(x))
  /\ \A x : ~IsTick(Error(x, FALSE))
  /\ \A x, y : ~IsTick(Ended(x, y))
BY Zenon DEF IsTick, Ready, Warning, BalanceRefilled, BalanceLow, Error, Ended

(* Every step keeps UsageInv: a usage tick is sent by the debit that is    *)
(* acknowledged and by nothing else.                                       *)
LEMMA UsageStep ==
  ASSUME SessionInv, SessionInv', UsageInv, [Next]_vars
  PROVE  UsageInv'
<1>a. /\ events \in Seq(Events) /\ events' \in Seq(Events)
      /\ Len(events) \in Nat /\ Len(events') \in Nat
  BY Histories, Zenon
<1>b. Units \in Nat
  BY SessionAssumption, Zenon
<1>1. PICK n \in Nat :
        /\ cumulativeUnits = n * Units /\ TicksSent(n)
        /\ \/ n = debitSeq
           \/ /\ debitSeq = n + 1 /\ pc \in Over
              /\ debitSeq + 1 \notin DOMAIN debitReplays[WorkID]
  BY Zenon DEF UsageInv
<1>2. ASSUME NEW e, Says(e), ~IsTick(e)
      PROVE  \A i \in (Len(events) + 1)..Len(events') : ~IsTick(events'[i])
  <2>1. Len(events') = Len(events) + 1 /\ events'[Len(events')] = e
    BY <1>2, Zenon DEF Says
  <2>2. \A i \in (Len(events) + 1)..Len(events') : i = Len(events')
    BY <2>1, <1>a, SMTT(30)
  <2> QED
    BY <2>1, <2>2, <1>2, Zenon
<1>3. ASSUME Kept, \A i \in (Len(events) + 1)..Len(events') : ~IsTick(events'[i])
      PROVE  TicksSent(n)'
  BY <1>1, <1>3, <1>a, TicksKept, Zenon
<1>4. CASE Silent
  <2>1. TicksSent(n)'
    BY <1>4, <1>1, Zenon DEF Silent, TicksSent
  <2>2. cumulativeUnits' = n * Units /\ debitSeq' = debitSeq
    BY <1>4, <1>1, Zenon DEF Silent
  <2>3. pc \in Over => pc' \in Over /\ debitReplays' = debitReplays
    BY <1>4, Zenon DEF Silent, Over
  <2> QED
    BY <1>1, <2>1, <2>2, <2>3, Zenon DEF UsageInv
<1>5. CASE Notes \/ Lowers \/ Refills
  <2>1. TicksSent(n)'
    <3>1. PICK e : Says(e) /\ ~IsTick(e)
      BY <1>5, NoTick, Zenon DEF Notes, Lowers, Refills
    <3> QED
      BY <3>1, <1>2, <1>3, Zenon DEF Says
  <2>2. cumulativeUnits' = n * Units /\ debitSeq' = debitSeq /\ pc \notin Over
    BY <1>5, <1>1, Zenon DEF Notes, Lowers, Refills, Over
  <2> QED
    BY <1>1, <2>1, <2>2, Zenon DEF UsageInv
<1>6. CASE Reports
  <2>1. n = debitSeq
    BY <1>1, <1>6, Zenon DEF Reports, Over
  <2>2. n * Units + Units = (n + 1) * Units
    <3>1. \A k, u \in Nat : k * u + u = (k + 1) * u
      BY SMTT(30)
    <3> QED
      BY <3>1, <1>b, Zenon
  <2>3. Says(UsageTick(n + 1, (n + 1) * Units)) /\ cumulativeUnits' = (n + 1) * Units
        /\ debitSeq' = n + 1
    BY <1>6, <1>1, <2>1, <2>2, Zenon DEF Reports
  <2>4. TicksSent(n + 1)'
    BY <2>3, <1>1, <1>a, TickSent, Zenon
  <2>5. n + 1 \in Nat
    BY SMTT(30)
  <2> QED
    BY <2>3, <2>4, <2>5, Zenon DEF UsageInv
<1>7. CASE Fails
  <2>1. TicksSent(n)'
    <3>1. ASSUME NEW i \in (Len(events) + 1)..Len(events')
          PROVE  ~IsTick(events'[i])
      <4>1. CASE i = Len(events')
        BY <4>1, <1>7, NoTick, Zenon DEF Fails
      <4>2. CASE i # Len(events')
        <5>1. i \in (Len(events) + 1)..(Len(events') - 1)
          BY <4>2, <1>a, SMTT(30)
        <5> QED
          BY <5>1, <1>7, NoTick, Zenon DEF Fails
      <4> QED
        BY <4>1, <4>2, Zenon
    <3> QED
      BY <3>1, <1>3, <1>7, Zenon DEF Fails
  <2>2. n = debitSeq /\ cumulativeUnits' = n * Units /\ pc' \in Over
    BY <1>1, <1>7, Zenon DEF Fails, Over
  <2>3. \/ debitSeq' = n
        \/ debitSeq' = n + 1 /\ debitSeq' + 1 \notin DOMAIN debitReplays'[WorkID]
    BY <2>2, <1>7, Zenon DEF Fails
  <2> QED
    BY <2>1, <2>2, <2>3, Zenon DEF UsageInv
<1>8. CASE Stops
  <2>1. TicksSent(n)'
    BY <1>8, <1>1, Zenon DEF Stops, TicksSent
  <2> QED
    BY <1>8, <1>1, <2>1, Zenon DEF Stops, UsageInv, Over
<1>9. CASE Ends
  <2>1. TicksSent(n)'
    <3>1. PICK e : Says(e) /\ ~IsTick(e)
      BY <1>9, NoTick, Zenon DEF Ends
    <3> QED
      BY <3>1, <1>2, <1>3, Zenon DEF Says
  <2>2. cumulativeUnits' = n * Units /\ debitSeq' = debitSeq /\ pc' \in Over
        /\ debitReplays' = debitReplays
    BY <1>9, <1>1, Zenon DEF Ends, EmitEnded, usageVars, daemonVars, Over
  <2> QED
    BY <1>1, <2>1, <2>2, Zenon DEF UsageInv
<1> QED
  BY <1>4, <1>5, <1>6, <1>7, <1>8, <1>9, EventKinds, Zenon

(* What was charged and not reported is at most one tick. *)
LEMMA UsageFollows ==
  ASSUME SessionInv, UsageInv
  PROVE  UsageReported
<1>a. /\ debitSeq \in Nat /\ WorkID \in WorkIDs /\ LedgerInv
      /\ balances[WorkID] \in Int /\ credited[WorkID] \in Int
  <2>1. debitSeq \in Nat /\ WorkID \in WorkIDs /\ LedgerInv /\ DaemonTypeOK
    BY SessionAssumption, ZenonT(60) DEF SessionInv, TypeOK
  <2> QED
    BY <2>1, SMTT(30) DEF DaemonTypeOK
<1>b. Units \in Nat /\ PriceOf[Offering] \in Nat
  BY SessionAssumption, DaemonAssumption, Zenon
<1>1. PICK n \in Nat :
        /\ cumulativeUnits = n * Units /\ TicksSent(n)
        /\ \/ n = debitSeq
           \/ /\ debitSeq = n + 1 /\ pc \in Over
              /\ debitSeq + 1 \notin DOMAIN debitReplays[WorkID]
  BY Zenon DEF UsageInv
<1>2. PriceOf[Offering] * cumulativeUnits = n * TickCost
  <2>1. \A k, p, u \in Nat : p * (k * u) = k * (p * u)
    BY SMTT(30)
  <2> QED
    BY <2>1, <1>1, <1>b, Zenon DEF TickCost
<1>3. ChargedSeqs = n \/ ChargedSeqs = n + 1
  BY <1>1, <1>a, Zenon DEF ChargedSeqs
<1>4. credited[WorkID] - balances[WorkID] = ChargedSeqs * TickCost
  <2>1. ChargedSeqs * TickCost \in Int
    BY <1>3, TickCostFacts, SMTT(30)
  <2> QED
    BY <2>1, <1>a, SMTT(30) DEF LedgerInv
<1>5. ChargedSeqs * TickCost - n * TickCost \in {0, TickCost}
  <2>1. \A t, k \in Nat : /\ k * t - k * t = 0 /\ (k + 1) * t - k * t = t
    BY SMTT(30)
  <2> QED
    BY <2>1, <1>3, TickCostFacts
<1>6. n \in {debitSeq - 1, debitSeq}
  BY <1>1, <1>a, SMTT(30)
<1> DEFINE ticks == {i \in DOMAIN events : events[i].type = "session.usage.tick"}
<1>7. {events[i].seq : i \in ticks} = 1..n
  BY <1>1, Zenon DEF TicksSent, IsTick
<1>8. /\ \A i \in ticks : events[i].cumulative = events[i].seq * Units
      /\ \A i, j \in ticks : i < j => events[i].seq < events[j].seq
  BY <1>1, Zenon DEF TicksSent, IsTick
<1>9. credited[WorkID] - balances[WorkID]
        - PriceOf[Offering] * cumulativeUnits \in {0, TickCost}
  BY <1>2, <1>4, <1>5, Zenon
<1> HIDE DEF ticks
<1>10. \E k \in {debitSeq - 1, debitSeq} :
         cumulativeUnits = k * Units /\ {events[i].seq : i \in ticks} = 1..k
  BY <1>1, <1>6, <1>7, Zenon
<1> QED
  BY <1>8, <1>9, <1>10, Zenon DEF UsageReported, ticks

-----------------------------------------------------------------------------
(* The balance. *)

IsLevel(e) == IsLow(e) \/ IsRefilled(e)

(* What the first events say does not change. *)
LEMMA ToldBefore ==
  ASSUME SessionInv, SessionInv', Kept, NEW n \in 0..Len(events)
  PROVE  ToldLow(n)' <=> ToldLow(n)
<1>1. \A i \in 1..n : events'[i] = events[i] /\ \A k \in (i + 1)..n : events'[k] = events[k]
  BY Histories, SMTT(30) DEF Kept
<1> QED
  BY <1>1 DEF ToldLow

(* Events that are not about the balance change nothing of what was said. *)
LEMMA LevelKept ==
  ASSUME SessionInv, SessionInv', GraceDiscipline, Kept, UNCHANGED lowVars,
         \A i \in (Len(events) + 1)..Len(events') : ~IsLevel(events'[i])
  PROVE  GraceDiscipline'
<1> DEFINE n == Len(events)  m == Len(events')
<1>a. n \in Nat /\ m \in Nat /\ n <= m /\ DOMAIN events = 1..n /\ DOMAIN events' = 1..m
  BY Histories, Zenon DEF Kept
<1>b. \A i \in 1..n : events'[i] = events[i]
  BY Zenon DEF Kept
<1>c. \A i \in 1..m : i \in 1..n \/ i \in (n + 1)..m
  BY <1>a, SMTT(30)
<1>1. \A i \in 1..m : IsLevel(events'[i]) => i \in 1..n /\ events[i] = events'[i]
  BY <1>b, <1>c, Zenon
<1>2. ToldLow(Len(events))' <=> ToldLow(Len(events))
  <2>1. ASSUME ToldLow(n) PROVE ToldLow(Len(events))'
    <3>1. PICK i \in 1..n : IsLow(events[i]) /\ \A k \in (i + 1)..n : ~IsRefilled(events[k])
      BY <2>1, Zenon DEF ToldLow, IsLow, IsRefilled
    <3>2. i \in 1..m /\ IsLow(events'[i])
      BY <3>1, <1>a, <1>b, SMTT(30)
    <3>3. ASSUME NEW k \in (i + 1)..m PROVE ~IsRefilled(events'[k])
      <4>1. k \in 1..m /\ (k \in 1..n => k \in (i + 1)..n)
        BY <1>a, SMTT(30)
      <4> QED
        BY <4>1, <3>1, <1>1, Zenon DEF IsLevel
    <3> QED
      BY <3>2, <3>3, Zenon DEF ToldLow, IsLow, IsRefilled
  <2>2. ASSUME ToldLow(Len(events))' PROVE ToldLow(n)
    <3>1. PICK i \in 1..m : IsLow(events'[i]) /\ \A k \in (i + 1)..m : ~IsRefilled(events'[k])
      BY <2>2, Zenon DEF ToldLow, IsLow, IsRefilled
    <3>2. i \in 1..n /\ IsLow(events[i])
      BY <3>1, <1>1, Zenon DEF IsLevel
    <3>3. \A k \in (i + 1)..n : k \in (i + 1)..m /\ k \in 1..n
      BY <3>2, <1>a, SMTT(30)
    <3> QED
      BY <3>1, <3>2, <3>3, <1>b, Zenon DEF ToldLow, IsLow, IsRefilled
  <2> QED
    BY <2>1, <2>2, Zenon
<1>3. ASSUME NEW i \in 1..m, IsLevel(events'[i])
      PROVE  /\ IsLow(events'[i]) => ~ToldLow(i - 1)'
             /\ IsRefilled(events'[i]) => ToldLow(i - 1)'
  <2>1. i \in 1..n /\ events[i] = events'[i] /\ i - 1 \in 0..n
    BY <1>3, <1>1, <1>a, SMTT(30)
  <2>2. ToldLow(i - 1)' <=> ToldLow(i - 1)
    BY <2>1, ToldBefore, Zenon
  <2> QED
    BY <2>1, <2>2, <1>a, Zenon DEF GraceDiscipline, IsLow, IsRefilled
<1> HIDE DEF n, m
<1>4. graceTimerCh' = inLowBalance' /\ inLowBalance' = ToldLow(Len(events))'
  <2>1. ToldLow(Len(events))' = ToldLow(Len(events))
    BY <1>2, Zenon DEF ToldLow
  <2> QED
    BY <2>1, Zenon DEF GraceDiscipline, lowVars
<1> QED
  BY <1>3, <1>4, <1>a, Zenon DEF GraceDiscipline, IsLevel, IsLow, IsRefilled

(* An event about the balance that differs from the last one. *)
LEMMA LevelSaid ==
  ASSUME SessionInv, SessionInv', GraceDiscipline, NEW e, Says(e),
         \/ IsLow(e) /\ ~IsRefilled(e) /\ ~inLowBalance
            /\ inLowBalance' = TRUE /\ graceTimerCh' = TRUE
         \/ IsRefilled(e) /\ ~IsLow(e) /\ inLowBalance
            /\ inLowBalance' = FALSE /\ graceTimerCh' = FALSE
  PROVE  GraceDiscipline'
<1> DEFINE n == Len(events)
<1>a. /\ n \in Nat /\ Len(events') = n + 1 /\ DOMAIN events = 1..n
      /\ DOMAIN events' = 1..(n + 1)
  BY Histories, Zenon DEF Says
<1>b. events'[n + 1] = e /\ Kept /\ \A i \in 1..n : events'[i] = events[i]
  BY <1>a, Zenon DEF Says, Kept
<1>c. \A i \in 1..(n + 1) : i = n + 1 \/ i \in 1..n
  BY <1>a, SMTT(30)
<1>d. n \in 0..n /\ n + 1 \in 1..(n + 1) /\ (n + 1) - 1 = n
  BY <1>a, SMTT(30)
<1>1. ToldLow(Len(events))' <=> IsLow(e)
  <2>1. ASSUME IsLow(e) PROVE ToldLow(Len(events))'
    <3>1. \A k \in (n + 2)..(n + 1) : FALSE
      BY <1>a, SMTT(30)
    <3>2. n + 1 + 1 = n + 2
      BY <1>a, SMTT(30)
    <3> HIDE DEF n
    <3> QED
      BY <2>1, <3>1, <3>2, <1>a, <1>b, <1>d, Zenon DEF ToldLow, IsLow, IsRefilled
  <2>2. ASSUME ToldLow(Len(events))', ~IsLow(e) PROVE FALSE
    <3>1. PICK i \in 1..(n + 1) :
            IsLow(events'[i]) /\ \A k \in (i + 1)..(n + 1) : ~IsRefilled(events'[k])
      BY <2>2, <1>a, Zenon DEF ToldLow, IsLow, IsRefilled
    <3>2. i \in 1..n
      BY <3>1, <2>2, <1>b, <1>c, Zenon
    <3>3. n + 1 \in (i + 1)..(n + 1)
      BY <3>2, <1>a, SMTT(30)
    <3> QED
      BY <3>1, <3>3, <2>2, <1>b, Zenon
  <2> QED
    BY <2>1, <2>2, Zenon
<1>2. ASSUME NEW i \in 1..(n + 1)
      PROVE  /\ IsLow(events'[i]) => ~ToldLow(i - 1)'
             /\ IsRefilled(events'[i]) => ToldLow(i - 1)'
  <2>1. i - 1 \in 0..n
    BY <1>a, SMTT(30)
  <2>2. ToldLow(i - 1)' <=> ToldLow(i - 1)
    BY <2>1, <1>b, ToldBefore, Zenon
  <2>3. CASE i \in 1..n
    BY <2>2, <2>3, <1>a, <1>b, Zenon DEF GraceDiscipline, IsLow, IsRefilled
  <2>4. CASE i = n + 1
    <3>1. i - 1 = n /\ events'[i] = e
      BY <2>4, <1>b, <1>d, Zenon
    <3>2. inLowBalance <=> ToldLow(n)
      BY Zenon DEF GraceDiscipline
    <3> HIDE DEF n
    <3> QED
      BY <2>2, <3>1, <3>2, Zenon
  <2> QED
    BY <2>3, <2>4, <1>c, Zenon
<1>3. graceTimerCh' = inLowBalance' /\ inLowBalance' = ToldLow(Len(events))'
  <2>1. inLowBalance' = ToldLow(Len(events))'
    BY <1>1, Zenon DEF ToldLow
  <2> QED
    BY <2>1, Zenon
<1> HIDE DEF n
<1> QED
  BY <1>2, <1>3, <1>a, Zenon DEF GraceDiscipline, IsLow, IsRefilled

(* The events other than these are not about the balance. *)
LEMMA NoLevel ==
  /\ ~IsLevel(Ready) /\ ~IsLevel(Warning)
  /\ \A x, y : ~IsLevel(UsageTick(x, y))
  /\ \A x : ~IsLevel(Error(x, FALSE))
  /\ \A x, y : ~IsLevel(Ended(x, y))
BY Zenon DEF IsLevel, IsLow, IsRefilled, Ready, Warning, UsageTick, Error, Ended

(* Every step keeps GraceInv: the grace timer is set and stopped where the *)
(* bridge is told of a low balance and of its refill.                      *)
LEMMA GraceStep ==
  ASSUME SessionInv, SessionInv', GraceInv, [Next]_vars
  PROVE  GraceInv'
<1>a. Len(events) \in Nat /\ Len(events') \in Nat
  BY Histories, Zenon
<1>b. GraceDiscipline /\ (pc = "recheck" => inLowBalance) /\ inLowBalance \in BOOLEAN
  BY Zenon DEF GraceInv, SessionInv, TypeOK
<1>1. ASSUME NEW e, Says(e), ~IsLevel(e), UNCHANGED lowVars
      PROVE  GraceDiscipline'
  <2>1. Len(events') = Len(events) + 1 /\ events'[Len(events')] = e /\ Kept
    BY <1>1, Zenon DEF Says
  <2>2. \A i \in (Len(events) + 1)..Len(events') : i = Len(events')
    BY <2>1, <1>a, SMTT(30)
  <2> QED
    BY <2>1, <2>2, <1>1, <1>b, LevelKept, Zenon
<1>2. CASE Silent \/ Stops
  <2>1. events' = events /\ inLowBalance' = inLowBalance /\ graceTimerCh' = graceTimerCh
    BY <1>2, Zenon DEF Silent, Stops, lowVars
  <2>2. GraceDiscipline'
    <3>1. Kept /\ \A i \in (Len(events) + 1)..Len(events') : FALSE
      BY <2>1, <1>a, SMTT(30) DEF Kept
    <3> QED
      BY <2>1, <3>1, <1>b, LevelKept, Zenon DEF lowVars
  <2>3. pc' = "recheck" => inLowBalance
    BY <1>2, <1>b, Zenon DEF Silent, Stops, GraceDiscipline
  <2> QED
    BY <2>1, <2>2, <2>3, Zenon DEF GraceInv
<1>3. CASE Notes \/ Reports \/ Ends
  <2>1. PICK e : Says(e) /\ ~IsLevel(e)
    BY <1>3, NoLevel, Zenon DEF Notes, Reports, Ends
  <2>2. UNCHANGED lowVars /\ pc' # "recheck"
    BY <1>3, Zenon DEF Notes, Reports, Ends, EmitEnded, lowVars
  <2> QED
    BY <2>1, <2>2, <1>1, Zenon DEF GraceInv
<1>4. CASE Lowers
  <2>1. IsLow(BalanceLow(balance)) /\ ~IsRefilled(BalanceLow(balance))
    BY Zenon DEF IsLow, IsRefilled, BalanceLow
  <2>2. GraceDiscipline'
    BY <2>1, <1>4, <1>b, LevelSaid, Zenon DEF Lowers
  <2> QED
    BY <2>2, <1>4, Zenon DEF Lowers, GraceInv
<1>5. CASE Refills
  <2>1. IsRefilled(BalanceRefilled) /\ ~IsLow(BalanceRefilled)
    BY Zenon DEF IsLow, IsRefilled, BalanceRefilled
  <2>2. GraceDiscipline'
    BY <2>1, <1>5, <1>b, LevelSaid, Zenon DEF Refills
  <2> QED
    BY <2>2, <1>5, Zenon DEF Refills, GraceInv
<1>6. CASE Fails
  <2>1. ASSUME NEW i \in (Len(events) + 1)..Len(events')
        PROVE  ~IsLevel(events'[i])
    <3>1. CASE i = Len(events')
      BY <3>1, <1>6, NoLevel, Zenon DEF Fails
    <3>2. CASE i # Len(events')
      <4>1. i \in (Len(events) + 1)..(Len(events') - 1)
        BY <3>2, <1>a, SMTT(30)
      <4> QED
        BY <4>1, <1>6, NoLevel, Zenon DEF Fails
    <3> QED
      BY <3>1, <3>2, Zenon
  <2>2. GraceDiscipline'
    BY <2>1, <1>6, <1>b, LevelKept, Zenon DEF Fails
  <2> QED
    BY <2>2, <1>6, Zenon DEF Fails, GraceInv
<1> QED
  BY <1>2, <1>3, <1>4, <1>5, <1>6, EventKinds, Zenon

-----------------------------------------------------------------------------
(* The ending. *)

IsFinal(e) == IsEnded(e) \/ IsFatal(e)

(* Only an error and session.ended are final. *)
LEMMA NotFinal ==
  /\ ~IsFinal(Ready) /\ ~IsFinal(Warning) /\ ~IsFinal(BalanceRefilled)
  /\ \A x : ~IsFinal(BalanceLow(x))
  /\ \A x, y : ~IsFinal(UsageTick(x, y))
  /\ \A x : IsFatal(Error(x, FALSE)) /\ ~IsEnded(Error(x, FALSE))
  /\ \A x, y : IsEnded(Ended(x, y)) /\ ~IsFatal(Ended(x, y))
BY Zenon
   DEF IsFinal, IsEnded, IsFatal, Ready, Warning, BalanceRefilled, BalanceLow,
       UsageTick, Error, Ended

(* Every step keeps EndingInv: the final error, then session.ended, then   *)
(* nothing.                                                                *)
LEMMA EndingStep ==
  ASSUME SessionInv, SessionInv', GraceInv, EndingInv, [Next]_vars
  PROVE  EndingInv'
<1> DEFINE n == Len(events)  m == Len(events')
<1>a. n \in Nat /\ m \in Nat
  BY Histories, Zenon
<1>b. \A i \in 1..m : i \in 1..n \/ i = m \/ i \in (n + 1)..(m - 1)
  BY <1>a, SMTT(30)
<1>1. CASE Silent
  <2>1. /\ events' = events /\ endReason' = endReason /\ cumulativeUnits' = cumulativeUnits
        /\ inLowBalance' = inLowBalance
    BY <1>1, Zenon DEF Silent, lowVars
  <2>2. \/ pc' = pc
        \/ pc \notin Over /\ pc' \notin Over
        \/ pc = "close" /\ pc' = "returned"
    BY <1>1, Zenon DEF Silent
  <2> QED
    BY <2>1, <2>2, Zenon DEF EndingInv, Over
<1>2. CASE Notes \/ Reports \/ Lowers \/ Refills
  <2>1. PICK e : Says(e) /\ ~IsFinal(e)
    BY <1>2, NotFinal, Zenon DEF Notes, Reports, Lowers, Refills
  <2>2. pc \notin Over /\ pc' \notin Over /\ endReason' = endReason
    BY <1>2, Zenon DEF Notes, Reports, Lowers, Refills, Over
  <2>3. m = n + 1 /\ events'[m] = e /\ \A i \in 1..n : events'[i] = events[i]
    BY <2>1, Zenon DEF Says, Kept
  <2>4. \A i \in 1..m : i \in 1..n \/ i = m
    BY <2>3, <1>a, SMTT(30)
  <2>5. endReason = "" /\ \A i \in 1..n : ~IsFinal(events[i])
    BY <2>2, Zenon DEF EndingInv, IsFinal
  <2> HIDE DEF m, n
  <2>6. \A i \in 1..m : ~IsFinal(events'[i])
    BY <2>1, <2>3, <2>4, <2>5, Zenon
  <2>7. endReason' = "" /\ \A i \in 1..m : ~IsEnded(events'[i]) /\ ~IsFatal(events'[i])
    BY <2>2, <2>5, <2>6, Zenon DEF IsFinal
  <2> QED
    BY <2>2, <2>7, Zenon DEF EndingInv, Over, m, IsEnded, IsFatal
<1>3. CASE Fails
  <2>1. /\ pc \notin Over /\ pc' = "ending" /\ inLowBalance' = inLowBalance
        /\ m > n /\ \A i \in 1..n : events'[i] = events[i]
        /\ \A i \in (n + 1)..(m - 1) : events'[i] = Warning
    BY <1>3, Zenon DEF Fails, Kept, lowVars
  <2>2. PICK code : events'[m] = Error(code, FALSE)
    BY <1>3, Zenon DEF Fails
  <2>3. endReason = "" /\ \A i \in 1..n : ~IsFinal(events[i])
    BY <2>1, Zenon DEF EndingInv, IsFinal
  <2>4. \/ endReason' = "fatal_error"
        \/ endReason' = "balance_exhausted" /\ pc = "recheck"
    BY <1>3, <2>3, Zenon DEF Fails, recordEnd
  <2>5. pc = "recheck" => inLowBalance
    BY Zenon DEF GraceInv
  <2> HIDE DEF m, n
  <2>6. \A i \in 1..m : i # m => ~IsFinal(events'[i])
    BY <2>1, <2>3, <1>b, NotFinal, Zenon
  <2>7. IsFatal(events'[m]) /\ ~IsEnded(events'[m])
    BY <2>2, NotFinal, Zenon
  <2>8. \A i \in 1..m : ~IsEnded(events'[i]) /\ (IsFatal(events'[i]) => i = m)
    BY <2>6, <2>7, Zenon DEF IsFinal
  <2>9. m > 0
    BY <2>1, <1>a, SMTT(30)
  <2> QED
    BY <2>1, <2>4, <2>5, <2>7, <2>8, <2>9, Zenon DEF EndingInv, Over, m, IsEnded, IsFatal
<1>4. CASE Stops
  <2>1. pc \notin Over /\ pc' = "ending" /\ events' = events
    BY <1>4, Zenon DEF Stops, Over
  <2>2. endReason = "" /\ \A i \in 1..n : ~IsEnded(events[i]) /\ ~IsFatal(events[i])
    BY <2>1, Zenon DEF EndingInv
  <2>3. endReason' \in {"user_end", "shutdown"}
    BY <1>4, <2>2, Zenon DEF Stops, recordEnd
  <2>4. n > 0 => n \in 1..n
    BY <1>a, SMTT(30)
  <2> QED
    BY <2>1, <2>2, <2>3, <2>4, Zenon DEF EndingInv, Over
<1>5. CASE Ends
  <2>1. /\ pc = "ending" /\ pc' = "close" /\ endReason' = endReason
        /\ cumulativeUnits' = cumulativeUnits /\ inLowBalance' = inLowBalance
    BY <1>5, Zenon DEF Ends, EmitEnded, lowVars, usageVars
  <2>2. /\ endReason # ""
        /\ \A i \in 1..n : ~IsEnded(events[i]) /\ (IsFatal(events[i]) => i = n)
        /\ endReason \in {"fatal_error", "balance_exhausted"}
             <=> (n > 0 /\ IsFatal(events[n]))
        /\ endReason = "balance_exhausted" => inLowBalance
    BY <2>1, Zenon DEF EndingInv, Over
  <2>3. Says(Ended(endReason, cumulativeUnits))
    BY <1>5, <2>2, Zenon DEF Ends
  <2>4. /\ m = n + 1 /\ events'[m] = Ended(endReason, cumulativeUnits)
        /\ \A i \in 1..n : events'[i] = events[i]
    BY <2>3, Zenon DEF Says, Kept
  <2>5. /\ \A i \in 1..m : i \in 1..n \/ i = m
        /\ m > 0 /\ m - 1 = n /\ (m > 1 <=> n > 0) /\ (n > 0 => n \in 1..n)
    BY <2>4, <1>a, SMTT(30)
  <2> HIDE DEF m, n
  <2>6. \A i \in 1..m : /\ IsEnded(events'[i]) => i = m
                        /\ IsFatal(events'[i]) => i = m - 1
    BY <2>2, <2>4, <2>5, NotFinal, Zenon
  <2>7. endReason \in {"fatal_error", "balance_exhausted"}
          <=> (m > 1 /\ IsFatal(events'[m - 1]))
    BY <2>2, <2>4, <2>5, Zenon
  <2>8. events'[m] = Ended(endReason', cumulativeUnits')
    BY <2>1, <2>4, Zenon
  <2> QED
    BY <2>1, <2>2, <2>5, <2>6, <2>7, <2>8, Zenon
       DEF EndingInv, Over, m, IsEnded, IsFatal, Ended
<1> QED
  BY <1>1, <1>2, <1>3, <1>4, <1>5, EventKinds, Zenon

(* EndingInv says what EndingReported asks at every control point. *)
LEMMA EndingFollows ==
  ASSUME SessionInv, EndingInv
  PROVE  EndingReported
<1> DEFINE n == Len(events)
<1>1. pc \in {"ending", "close", "returned"} \/ pc \notin Over
  BY Zenon DEF Over
<1>2. \A i \in 1..n : events[i].type = "session.ended" => i = n
  BY <1>1, Zenon DEF EndingInv, Over, IsEnded
<1>3. \A i \in 1..n : IsFatal(events[i]) =>
        pc \in {"ending", "close", "returned"} /\ i = IF pc = "ending" THEN n ELSE n - 1
  BY <1>1, Zenon DEF EndingInv, Over
<1>4. pc \in {"ending", "close"} => endReason # ""
  BY Zenon DEF EndingInv
<1>5. ASSUME pc \in {"close", "returned"}
      PROVE  /\ events[n] = Ended(endReason, cumulativeUnits)
             /\ (endReason \in {"fatal_error", "balance_exhausted"})
                  = (n > 1 /\ IsFatal(events[n - 1]))
             /\ endReason = "balance_exhausted" => inLowBalance
  <2>1. /\ events[n] = Ended(endReason, cumulativeUnits)
        /\ endReason \in {"fatal_error", "balance_exhausted"}
             <=> (n > 1 /\ IsFatal(events[n - 1]))
        /\ endReason = "balance_exhausted" => inLowBalance
    BY <1>5, Zenon DEF EndingInv
  <2> HIDE DEF n
  <2>2. (endReason \in {"fatal_error", "balance_exhausted"})
          = (n > 1 /\ IsFatal(events[n - 1]))
    BY <2>1, SMTT(30) DEF IsFatal
  <2> QED
    BY <2>1, <2>2, Zenon
<1> HIDE DEF n
<1> QED
  BY <1>2, <1>3, <1>4, <1>5, Zenon DEF EndingReported, n

-----------------------------------------------------------------------------

(* A session begins with nothing said. *)
LEMMA ReportInit == Init => ReportInv
<1> SUFFICES ASSUME Init PROVE ReportInv
  BY Zenon
<1>1. /\ events = <<>> /\ pc = "open" /\ endReason = "" /\ cumulativeUnits = 0
      /\ debitSeq = 0 /\ inLowBalance = FALSE /\ graceTimerCh = FALSE
  BY Zenon DEF Init
<1>a. Len(events) = 0 /\ DOMAIN events = {}
  <2>1. events = <<>>
    BY <1>1, Zenon
  <2> QED
    BY <2>1, SMTT(30)
<1>2. UsageInv
  <2>1. 0 \in Nat /\ 0 * Units = 0 /\ 1..0 = {}
    BY SessionAssumption, SMTT(30)
  <2> QED
    BY <1>1, <1>a, <2>1, Zenon DEF UsageInv, TicksSent
<1>3. GraceInv
  <2>1. ~ToldLow(0)
    BY SMTT(30) DEF ToldLow
  <2>2. inLowBalance = ToldLow(Len(events))
    <3>1. inLowBalance = FALSE /\ Len(events) = 0
      BY <1>1, <1>a, Zenon
    <3> QED
      BY <2>1, <3>1, Zenon DEF ToldLow
  <2>3. graceTimerCh = inLowBalance
    BY <1>1, Zenon
  <2>4. pc # "recheck" /\ \A i \in DOMAIN events : FALSE
    BY <1>1, <1>a, Zenon
  <2> QED
    BY <2>2, <2>3, <2>4, Zenon DEF GraceInv, GraceDiscipline
<1>4. EndingInv
  <2>1. pc = "open" /\ endReason = "" /\ \A i \in 1..Len(events) : FALSE
    <3>1. \A i \in 1..Len(events) : FALSE
      BY <1>a, SMTT(30)
    <3> QED
      BY <1>1, <3>1, Zenon
  <2> QED
    BY <2>1, Zenon DEF EndingInv, Over
<1> QED
  BY <1>2, <1>3, <1>4, Zenon DEF ReportInv

(* The history of the events keeps its shape in every behaviour. *)
THEOREM ReportInvariant == Spec => [](SessionInv /\ ReportInv)
<1>1. SessionInv /\ SessionInv' /\ ReportInv /\ [Next]_vars => ReportInv'
  BY UsageStep, GraceStep, EndingStep, Zenon DEF ReportInv
<1> QED
  BY <1>1, ReportInit, SessionInvariant, PTL DEF Spec

(* The usage the bridge is told is the usage charged, up to the tick in    *)
(* flight or the one the session ended on.                                 *)
THEOREM UsageAlwaysReported == Spec => []UsageReported
<1>1. SessionInv /\ ReportInv => UsageReported
  BY UsageFollows, Zenon DEF ReportInv
<1> QED
  BY <1>1, ReportInvariant, PTL

(* The grace timer runs exactly while the bridge was last told the balance *)
(* is low.                                                                 *)
THEOREM GraceAlwaysDisciplined == Spec => []GraceDiscipline
<1>1. SessionInv /\ ReportInv => GraceDiscipline
  BY Zenon DEF ReportInv, GraceInv
<1> QED
  BY <1>1, ReportInvariant, PTL

(* session.ended comes once and last, with the reason and the total of the *)
(* session, and a fatal error just before it exactly when the reason is    *)
(* one.                                                                    *)
THEOREM EndingAlwaysReported == Spec => []EndingReported
<1>1. SessionInv /\ ReportInv => EndingReported
  BY EndingFollows, Zenon DEF ReportInv
<1> QED
  BY <1>1, ReportInvariant, PTL

=============================================================================
