---------------------------- MODULE DaemonClient ----------------------------
(***************************************************************************)
(* The worker's calls to the payment daemon: the gRPC client               *)
(* (internal/providers/payeedaemon/grpc.go), the wrapper that meters it    *)
(* (interface.go), the daemon-RPC metrics of the recorder with their       *)
(* series cap (CapVec), and the callers: ticket-params handlers            *)
(* (UnpaidRoutes) and any other goroutine of the worker.  What a call does *)
(* to the daemon's ledger is the subject of PayeeDaemon; here a call       *)
(* returns well or with an error.                                          *)
(*                                                                         *)
(* A definition named D_Flaw is definition D with a plausible bug; nothing *)
(* uses it but the mutation runs.                                          *)
(***************************************************************************)
EXTENDS CapVec, UnpaidRoutes

CONSTANTS
  Handlers, \* the callers that are ticket-params handlers
  Requests, \* what may be posted to them
  Called,   \* the methods the other callers call
  Codes,    \* gRPC codes other than OK a call may fail with
  MaxCalls  \* bound: calls and requests in all

Methods == {"ListCapabilities", "GetQuote", "GetTicketParams", "OpenSession",
            "ProcessPayment", "DebitBalance", "SufficientBalance",
            "CloseSession"}

Outcomes == {"ok", "error"}

ASSUME ClientAssumption ==
  /\ Handlers \subseteq Callers
  /\ Called \subseteq Methods \ {"GetTicketParams"}
  /\ MaxCalls \in Nat
  /\ \A r \in Requests : {r.capability, r.offering} \subseteq Text
  /\ Tuples = Methods \X Outcomes
  /\ "ok" \notin Codes /\ "none" \notin Codes

VARIABLES
  pc,      \* where each caller is
  method,  \* the RPC it makes
  asked,   \* what its GetTicketParams asks the daemon: one request or none
  result,  \* what the client returned to it: "ok", a code, or "none"
  coarse, fast, \* observations in the two latency histograms, by tuple
  answers, \* history: answers of the ticket-params route, by status
  refused, \* history: requests answered without asking the daemon
  left     \* calls that may still be made

callVars == <<pc, method, asked, result, left>>
histVars == <<coarse, fast>>
routeVars == <<answers, refused>>
vars == <<capVars, callVars, histVars, routeVars>>

Init ==
  /\ CapInit
  /\ pc = [c \in Callers |-> "idle"]
  /\ method = [c \in Callers |-> "GetTicketParams"]
  /\ asked = [c \in Callers |-> {}]
  /\ result = [c \in Callers |-> "ok"]
  /\ coarse = [t \in Tuples |-> 0] /\ fast = [t \in Tuples |-> 0]
  /\ answers = [s \in Statuses |-> 0] /\ refused = 0
  /\ left = MaxCalls

Step(c, from, to) == pc[c] = from /\ pc' = [pc EXCEPT ![c] = to]

-----------------------------------------------------------------------------
(* ticketParamsHandler. *)

(* A request that fails a check is answered at once. *)
TurnAway(c, r) ==
  /\ c \in Handlers /\ left > 0 /\ turnedAway(r) # 0
  /\ Step(c, "idle", "idle")
  /\ left' = left - 1
  /\ answers' = [answers EXCEPT ![turnedAway(r)] = @ + 1]
  /\ refused' = refused + 1
  /\ UNCHANGED <<capVars, histVars, method, asked, result>>

Ask(c, r) ==
  /\ c \in Handlers /\ left > 0 /\ turnedAway(r) = 0
  /\ Step(c, "idle", "rpc")
  /\ left' = left - 1
  /\ method' = [method EXCEPT ![c] = "GetTicketParams"]
  /\ asked' = [asked EXCEPT ![c] = {parseTicketParamsRequest(r)}]
  /\ UNCHANGED <<capVars, histVars, routeVars, result>>

(* 200 with the rendered params, or what the error becomes. *)
Answer(c) ==
  /\ c \in Handlers
  /\ Step(c, "return", "idle")
  /\ answers' = [answers EXCEPT ![IF result[c] = "ok" THEN 200
                            ELSE writeTicketParamsProxyError(result[c])] = @ + 1]
  /\ asked' = [asked EXCEPT ![c] = {}]
  /\ UNCHANGED <<capVars, histVars, refused, method, result, left>>

(* Sessions, the paid route and startup call the rest of the interface. *)
Call(c, m) ==
  /\ c \notin Handlers /\ left > 0
  /\ Step(c, "idle", "rpc")
  /\ left' = left - 1
  /\ method' = [method EXCEPT ![c] = m]
  /\ UNCHANGED <<capVars, histVars, routeVars, asked, result>>

CallReturns(c) ==
  /\ c \notin Handlers
  /\ Step(c, "return", "idle")
  /\ UNCHANGED <<capVars, histVars, routeVars, method, asked, result, left>>

-----------------------------------------------------------------------------
(* grpcClient: an error of the call is wrapped and keeps its code.  Of a   *)
(* reply that lacks its content OpenSession (an outcome it does not know)  *)
(* and GetTicketParams (no params) make an error; the other methods read   *)
(* zero values out of it.                                                  *)
grpcResult(m, reply) ==
  CASE reply = "empty" ->
         IF m \in {"OpenSession", "GetTicketParams"} THEN "none" ELSE "ok"
    [] OTHER -> reply

Return(c) ==
  /\ Step(c, "rpc", "inc")
  /\ \E reply \in {"ok", "empty"} \cup Codes :
       result' = [result EXCEPT ![c] = grpcResult(method[c], reply)]
  /\ UNCHANGED <<capVars, histVars, routeVars, method, asked, left>>

(* meteredClient: the labels of the call, the same for the counter and     *)
(* both histograms.                                                        *)
labels_CopyPaste(c) ==
  <<IF method[c] = "OpenSession" THEN "GetTicketParams" ELSE method[c],
    IF result[c] = "ok" THEN "ok" ELSE "error">>

labels(c) == <<method[c], IF result[c] = "ok" THEN "ok" ELSE "error">>

(* IncDaemonRPC: capVec.inc. *)
IncDaemonRPC(c) ==
  /\ pc[c] = "inc"
  /\ \/ Load(c, labels(c)) /\ UNCHANGED pc
     \/ allow(c) /\ UNCHANGED pc
     \/ (Inc(c) \/ Refused(c)) /\ pc' = [pc EXCEPT ![c] = "coarse"]
  /\ UNCHANGED <<histVars, routeVars, method, asked, result, left>>

(* ObserveDaemonRPC writes to both histograms, neither of them capped. *)
ObserveCoarse(c) ==
  /\ Step(c, "coarse", "fast")
  /\ coarse' = [coarse EXCEPT ![labels(c)] = @ + 1]
  /\ UNCHANGED <<capVars, fast, routeVars, method, asked, result, left>>

ObserveFast_OkOnly(c) ==
  /\ Step(c, "fast", "return")
  /\ fast' = [fast EXCEPT ![labels(c)] = IF result[c] = "ok" THEN @ + 1 ELSE @]
  /\ UNCHANGED <<capVars, coarse, routeVars, method, asked, result, left>>

ObserveFast(c) ==
  /\ Step(c, "fast", "return")
  /\ fast' = [fast EXCEPT ![labels(c)] = @ + 1]
  /\ UNCHANGED <<capVars, coarse, routeVars, method, asked, result, left>>

-----------------------------------------------------------------------------
Next ==
  \E c \in Callers :
    \/ \E r \in Requests : TurnAway(c, r) \/ Ask(c, r)
    \/ \E m \in Called : Call(c, m)
    \/ Return(c) \/ IncDaemonRPC(c) \/ ObserveCoarse(c) \/ ObserveFast(c)
    \/ Answer(c) \/ CallReturns(c)

Spec == Init /\ [][Next]_vars

-----------------------------------------------------------------------------
(* Properties. *)

(* The places of a caller and the types of what meteredClient, the         *)
(* recorder and ticketParamsHandler keep.                                  *)
TypeOK ==
  /\ CapTypeOK
  /\ pc \in [Callers -> {"idle", "rpc", "inc", "coarse", "fast", "return"}]
  /\ method \in [Callers -> Methods]
  /\ result \in [Callers -> {"ok", "none"} \cup Codes]
  /\ coarse \in [Tuples -> Nat] /\ fast \in [Tuples -> Nat]
  /\ answers \in [Statuses -> Nat] /\ refused \in Nat
  /\ left \in 0..MaxCalls

(* Callers of tuple t at one of the points ps. *)
Between(t, ps) == {c \in Callers : pc[c] \in ps /\ labels(c) = t}

(* Every RPC that has returned is in the counter (or was refused by the    *)
(* cap) and in both histograms under one and the same tuple, but for the   *)
(* callers on their way from one to the next: meteredClient loses no call  *)
(* and counts none twice, however its callers interleave.                  *)
RPCsAccounted ==
  \A t \in Tuples :
    /\ vec[t] + dropped[t] = coarse[t] + Cardinality(Between(t, {"coarse"}))
    /\ coarse[t] = fast[t] + Cardinality(Between(t, {"fast"}))

(* The metrics agree with what the gateways were told: the successful      *)
(* GetTicketParams in the coarse histogram are the answers of status 200,  *)
(* the failed ones and the requests turned away are the others, but for    *)
(* handlers that have yet to answer.                                       *)
AnswersAccounted ==
  LET params(o) == <<"GetTicketParams", o>>
      pending(o) == Cardinality(Between(params(o), {"fast", "return"}))
  IN /\ coarse[params("ok")] = answers[200] + pending("ok")
     /\ coarse[params("error")] + refused
          = answers[400] + answers[401] + answers[500] + answers[503]
            + pending("error")

(* parseTicketParamsRequest lets nothing but canonical requests through:   *)
(* the daemon is asked about addresses, a positive face value and a        *)
(* capability and an offering that are trimmed and not empty.              *)
CanonicalAsked ==
  \A c \in Callers : \A q \in asked[c] :
    /\ q.sender \in Address /\ q.recipient \in Address /\ q.faceValue > 0
    /\ \A t \in {q.capability, q.offering} : Trimmed(t) /\ t # Empty

(* "MaxSeriesPerMetric is the hard cap on distinct label tuples any single *)
(* MetricVec may track" (PrometheusConfig), said of a histogram.           *)
HistogramCapped ==
  max > 0 => Cardinality({t \in Tuples : coarse[t] > 0}) <= max
=============================================================================
