------------------------ MODULE DaemonClientProofs --------------------------
(***************************************************************************)
(* The series cap and the accounts of the metered client, for any number   *)
(* of callers, any cap and any number of calls.                            *)
(***************************************************************************)
EXTENDS DaemonClient, FiniteSetTheorems, TLAPS

-----------------------------------------------------------------------------
(* Counting callers by where they are in allow. *)

AtIn(L) == {c \in Callers : at[c] \in L}

(* There are finitely many of them. *)
LEMMA AtInFinite ==
  ASSUME NEW L
  PROVE  /\ IsFiniteSet(AtIn(L)) /\ IsFiniteSet(AtIn(L)')
         /\ Cardinality(AtIn(L)) \in Nat /\ Cardinality(AtIn(L)') \in Nat
<1>1. AtIn(L) \subseteq Callers /\ AtIn(L)' \subseteq Callers
  BY DEF AtIn
<1> QED
  BY <1>1, CapAssumption, FS_Subset, FS_CardinalityType

In(x, L) == IF x \in L THEN 1 ELSE 0

(* What a move adds to the count of L. *)
LEMMA Moves ==
  ASSUME NEW L, NEW c \in Callers, NEW l, DOMAIN at = Callers,
         at' = [at EXCEPT ![c] = l]
  PROVE  Cardinality(AtIn(L)')
           = Cardinality(AtIn(L)) + In(l, L) - In(at[c], L)
<1>1. CASE l \in L /\ at[c] \notin L
  <2>1. AtIn(L)' = AtIn(L) \cup {c} /\ c \notin AtIn(L)
    BY <1>1 DEF AtIn
  <2>2. IsFiniteSet(AtIn(L)) /\ Cardinality(AtIn(L)) \in Nat
    BY AtInFinite
  <2>3. Cardinality(AtIn(L) \cup {c}) = Cardinality(AtIn(L)) + 1
    BY <2>1, <2>2, FS_AddElement
  <2> QED
    BY <1>1, <2>1, <2>2, <2>3 DEF In
<1>2. CASE l \notin L /\ at[c] \in L
  <2>1. AtIn(L)' = AtIn(L) \ {c} /\ c \in AtIn(L)
    BY <1>2 DEF AtIn
  <2>2. IsFiniteSet(AtIn(L)) /\ Cardinality(AtIn(L)) \in Nat
    BY AtInFinite
  <2>3. Cardinality(AtIn(L) \ {c}) = Cardinality(AtIn(L)) - 1
    BY <2>1, <2>2, FS_RemoveElement
  <2> QED
    BY <1>2, <2>1, <2>2, <2>3 DEF In
<1>3. CASE l \in L <=> at[c] \in L
  <2>1. AtIn(L)' = AtIn(L)
    BY <1>3 DEF AtIn
  <2> QED
    BY <1>3, <2>1, AtInFinite DEF In
<1> QED
  BY <1>1, <1>2, <1>3

-----------------------------------------------------------------------------
(* The cap.  OvershootBounded is not inductive: callers that have read the *)
(* count and not yet stored will add their series whatever happens.  So    *)
(* they are counted with it, each of them having found room when it read.  *)
Pending == {"store", "add"}

storing == Cardinality(AtIn(Pending))
adding  == Cardinality(AtIn({"add"}))
logging == Cardinality(AtIn({"log"}))
N       == Cardinality(Callers)

CapInv ==
  /\ CapTypeOK
  /\ max > 0 => count + storing < max + N
  /\ Cardinality(seen) <= count + adding
  /\ logged + logging = IF exceeded THEN 1 ELSE 0
  /\ \A c \in Callers : at[c] \in {"log", "refused"} => exceeded
  /\ (\E t \in Tuples : dropped[t] > 0) => exceeded
  /\ \A c \in Callers : at[c] = "count" => max > 0

(* What the three properties say of the cap follows. *)
LEMMA CapInvImplies ==
  CapInv => OvershootBounded /\ CountCoversSeen /\ ReportedOnce
<1> SUFFICES ASSUME CapInv PROVE OvershootBounded /\ CountCoversSeen /\ ReportedOnce
  OBVIOUS
<1>1. At("add") = AtIn({"add"}) /\ At("log") = AtIn({"log"})
  BY DEF At, AtIn
<1>2. adding <= storing
  <2>1. AtIn({"add"}) \subseteq AtIn(Pending)
    BY DEF AtIn, Pending
  <2> QED
    BY <2>1, AtInFinite, FS_Subset DEF adding, storing
<1>3. /\ Cardinality(seen) \in Nat /\ count \in Nat /\ max \in Nat /\ N \in Nat
      /\ adding \in Nat /\ storing \in Nat
  BY CapAssumption, AtInFinite, FS_CardinalityType
     DEF CapInv, CapTypeOK, N, adding, storing
<1>4. OvershootBounded
  BY <1>2, <1>3 DEF CapInv, OvershootBounded, N
<1> QED
  BY <1>1, <1>4 DEF CapInv, CountCoversSeen, ReportedOnce, adding, logging

(* One caller moves from the point its allow is at to point l.  The counts *)
(* of the invariant change as the two points say.                          *)
LEMMA CountsMove ==
  ASSUME CapTypeOK, NEW c \in Callers, NEW l, at' = [at EXCEPT ![c] = l]
  PROVE  /\ storing' = storing + In(l, Pending) - In(at[c], Pending)
         /\ adding' = adding + In(l, {"add"}) - In(at[c], {"add"})
         /\ logging' = logging + In(l, {"log"}) - In(at[c], {"log"})
<1>1. DOMAIN at = Callers
  BY DEF CapTypeOK
<1>2. Pending' = Pending
  BY DEF Pending
<1>3. storing' = storing + In(l, Pending) - In(at[c], Pending)
  BY <1>1, <1>2, Moves DEF storing, AtIn
<1>4. adding' = adding + In(l, {"add"}) - In(at[c], {"add"})
  BY <1>1, Moves DEF adding
<1>5. logging' = logging + In(l, {"log"}) - In(at[c], {"log"})
  BY <1>1, Moves DEF logging
<1> QED
  BY <1>3, <1>4, <1>5

(* Every operation of allow, and inc around it. *)
CapStep ==
  \E c \in Callers :
    (\E t \in Tuples : Load(c, t)) \/ allow(c) \/ Inc(c) \/ Refused(c)

(* They keep the invariant of the cap. *)
LEMMA CapStepKeeps ==
  ASSUME CapInv, CapStep \/ UNCHANGED capVars
  PROVE  CapInv'
<1>a. CapTypeOK /\ max \in Nat /\ IsFiniteSet(Callers)
  BY CapAssumption DEF CapInv
<1>b. /\ storing \in Nat /\ adding \in Nat /\ logging \in Nat /\ N \in Nat /\ N' = N
      /\ count \in Nat /\ logged \in Nat /\ Cardinality(seen) \in Nat
  BY <1>a, AtInFinite, FS_CardinalityType DEF CapTypeOK, storing, adding, logging, N
<1>c. \A l : l \in Pending <=> l = "store" \/ l = "add"
  BY DEF Pending
<1>1. ASSUME NEW c \in Callers, NEW t \in Tuples, Load(c, t) PROVE CapInv'
  <2> DEFINE l == IF max = 0 \/ t \in seen THEN "allowed" ELSE "count"
  <2>1. /\ at' = [at EXCEPT ![c] = l] /\ at[c] = "out" /\ key' = [key EXCEPT ![c] = t]
        /\ UNCHANGED <<seen, count, exceeded, vec, logged, dropped>>
    BY <1>1 DEF Load, Goto
  <2>2. l \in {"allowed", "count"} /\ (l = "count" => max > 0)
    BY <1>a
  <2> HIDE DEF l
  <2>3. CapTypeOK'
    BY <1>a, <2>1, <2>2 DEF CapTypeOK
  <2>4. storing' = storing /\ adding' = adding /\ logging' = logging
    <3>1. /\ storing' = storing + In(l, Pending) - In(at[c], Pending)
          /\ adding' = adding + In(l, {"add"}) - In(at[c], {"add"})
          /\ logging' = logging + In(l, {"log"}) - In(at[c], {"log"})
      BY <1>a, <2>1, CountsMove
    <3> QED
      BY <1>b, <1>c, <2>1, <2>2, <3>1 DEF In
  <2> QED
    BY <1>a, <1>b, <2>1, <2>2, <2>3, <2>4 DEF CapInv, CapTypeOK
<1>2. ASSUME NEW c \in Callers, LoadCount(c) PROVE CapInv'
  <2> DEFINE l == IF count >= max THEN "full" ELSE "store"
  <2>1. /\ at' = [at EXCEPT ![c] = l] /\ at[c] = "count"
        /\ UNCHANGED <<seen, count, exceeded, vec, logged, dropped, key>>
    BY <1>2 DEF LoadCount, Goto
  <2>2. l = "full" \/ (l = "store" /\ count < max)
    BY <1>a, <1>b
  <2> HIDE DEF l
  <2>3. CapTypeOK'
    BY <1>a, <2>1, <2>2 DEF CapTypeOK
  <2>4. /\ storing' = storing + (IF l = "store" THEN 1 ELSE 0)
        /\ adding' = adding /\ logging' = logging
    <3>1. /\ storing' = storing + In(l, Pending) - In(at[c], Pending)
          /\ adding' = adding + In(l, {"add"}) - In(at[c], {"add"})
          /\ logging' = logging + In(l, {"log"}) - In(at[c], {"log"})
      BY <1>a, <2>1, CountsMove
    <3> QED
      BY <1>b, <1>c, <2>1, <2>2, <3>1 DEF In
  <2>5. storing <= N - 1
    <3>1. AtIn(Pending) \subseteq Callers \ {c}
      BY <1>c, <2>1 DEF AtIn
    <3>2. IsFiniteSet(Callers \ {c}) /\ Cardinality(Callers \ {c}) = N - 1
      BY <1>a, FS_RemoveElement DEF N
    <3> QED
      BY <3>1, <3>2, FS_Subset DEF storing
  <2>6. max > 0 => count' + storing' < max + N
    BY <1>a, <1>b, <2>1, <2>2, <2>4, <2>5 DEF CapInv
  <2> QED
    BY <1>a, <1>b, <2>1, <2>2, <2>3, <2>4, <2>6 DEF CapInv, CapTypeOK
<1>3. ASSUME NEW c \in Callers, CompareAndSwap(c) PROVE CapInv'
  <2> DEFINE l == IF exceeded THEN "refused" ELSE "log"
  <2>1. /\ at' = [at EXCEPT ![c] = l] /\ at[c] = "full" /\ exceeded' = TRUE
        /\ UNCHANGED <<seen, count, vec, logged, dropped, key>>
    BY <1>3 DEF CompareAndSwap, Goto
  <2>2. (l = "refused" /\ exceeded) \/ (l = "log" /\ ~exceeded)
    OBVIOUS
  <2> HIDE DEF l
  <2>3. CapTypeOK'
    BY <1>a, <2>1, <2>2 DEF CapTypeOK
  <2>4. /\ storing' = storing /\ adding' = adding
        /\ logging' = logging + (IF exceeded THEN 0 ELSE 1)
    <3>1. /\ storing' = storing + In(l, Pending) - In(at[c], Pending)
          /\ adding' = adding + In(l, {"add"}) - In(at[c], {"add"})
          /\ logging' = logging + In(l, {"log"}) - In(at[c], {"log"})
      BY <1>a, <2>1, CountsMove
    <3> QED
      BY <1>b, <1>c, <2>1, <2>2, <3>1 DEF In
  <2>5. logged' + logging' = 1
    BY <1>b, <2>1, <2>2, <2>4 DEF CapInv
  <2> QED
    BY <1>a, <1>b, <2>1, <2>2, <2>3, <2>4, <2>5 DEF CapInv, CapTypeOK
<1>4. ASSUME NEW c \in Callers, OnExceed(c) PROVE CapInv'
  <2>1. /\ at' = [at EXCEPT ![c] = "refused"] /\ at[c] = "log" /\ logged' = logged + 1
        /\ UNCHANGED <<seen, count, exceeded, vec, dropped, key>>
    BY <1>4 DEF OnExceed, Goto
  <2>2. CapTypeOK'
    BY <1>a, <2>1 DEF CapTypeOK
  <2>3. storing' = storing /\ adding' = adding /\ logging' = logging - 1
    <3>1. /\ storing' = storing + In("refused", Pending) - In(at[c], Pending)
          /\ adding' = adding + In("refused", {"add"}) - In(at[c], {"add"})
          /\ logging' = logging + In("refused", {"log"}) - In(at[c], {"log"})
      BY <1>a, <2>1, CountsMove
    <3> QED
      BY <1>b, <1>c, <2>1, <3>1 DEF In
  <2>4. exceeded /\ logged' + logging' = logged + logging
    BY <1>b, <2>1, <2>3 DEF CapInv
  <2> QED
    BY <1>a, <1>b, <2>1, <2>2, <2>3, <2>4 DEF CapInv, CapTypeOK
<1>5. ASSUME NEW c \in Callers, Store(c) PROVE CapInv'
  <2>1. /\ at' = [at EXCEPT ![c] = "add"] /\ at[c] = "store"
        /\ seen' = seen \cup {key[c]} /\ key[c] \in Tuples
        /\ UNCHANGED <<count, exceeded, vec, logged, dropped, key>>
    BY <1>5, <1>a DEF Store, Goto, CapTypeOK
  <2>2. /\ IsFiniteSet(seen') /\ Cardinality(seen') \in Nat
        /\ Cardinality(seen') <= Cardinality(seen) + 1
    <3>1. IsFiniteSet(seen)
      BY <1>a DEF CapTypeOK
    <3>2. /\ IsFiniteSet(seen \cup {key[c]})
          /\ Cardinality(seen \cup {key[c]})
               = IF key[c] \in seen THEN Cardinality(seen) ELSE Cardinality(seen) + 1
      BY <3>1, FS_AddElement
    <3> QED
      BY <1>b, <2>1, <3>2
  <2>3. CapTypeOK'
    BY <1>a, <2>1, <2>2 DEF CapTypeOK
  <2>4. storing' = storing /\ adding' = adding + 1 /\ logging' = logging
    <3>1. /\ storing' = storing + In("add", Pending) - In(at[c], Pending)
          /\ adding' = adding + In("add", {"add"}) - In(at[c], {"add"})
          /\ logging' = logging + In("add", {"log"}) - In(at[c], {"log"})
      BY <1>a, <2>1, CountsMove
    <3> QED
      BY <1>b, <1>c, <2>1, <3>1 DEF In
  <2>5. Cardinality(seen') <= count' + adding'
    BY <1>b, <2>1, <2>2, <2>4 DEF CapInv
  <2> QED
    BY <1>a, <1>b, <2>1, <2>3, <2>4, <2>5 DEF CapInv, CapTypeOK
<1>6. ASSUME NEW c \in Callers, Add(c) PROVE CapInv'
  <2>1. /\ at' = [at EXCEPT ![c] = "allowed"] /\ at[c] = "add" /\ count' = count + 1
        /\ UNCHANGED <<seen, exceeded, vec, logged, dropped, key>>
    BY <1>6 DEF Add, Goto
  <2>2. CapTypeOK'
    BY <1>a, <2>1 DEF CapTypeOK
  <2>3. storing' = storing - 1 /\ adding' = adding - 1 /\ logging' = logging
    <3>1. /\ storing' = storing + In("allowed", Pending) - In(at[c], Pending)
          /\ adding' = adding + In("allowed", {"add"}) - In(at[c], {"add"})
          /\ logging' = logging + In("allowed", {"log"}) - In(at[c], {"log"})
      BY <1>a, <2>1, CountsMove
    <3> QED
      BY <1>b, <1>c, <2>1, <3>1 DEF In
  <2>4. count' + storing' = count + storing /\ count' + adding' = count + adding
    BY <1>b, <2>1, <2>3
  <2> QED
    BY <1>a, <1>b, <2>1, <2>2, <2>3, <2>4 DEF CapInv, CapTypeOK
<1>7. ASSUME NEW c \in Callers, Inc(c) \/ Refused(c) PROVE CapInv'
  <2>1. /\ at' = [at EXCEPT ![c] = "out"] /\ at[c] \in {"allowed", "refused"}
        /\ UNCHANGED <<seen, count, exceeded, logged, key>>
    BY <1>7 DEF Inc, Refused, Goto
  <2>2. /\ vec' \in [Tuples -> Nat] /\ dropped' \in [Tuples -> Nat]
        /\ dropped' = dropped \/ at[c] = "refused"
    BY <1>7, <1>a DEF Inc, Refused, CapTypeOK
  <2>3. CapTypeOK'
    BY <1>a, <2>1, <2>2 DEF CapTypeOK
  <2>4. (\E t \in Tuples : dropped'[t] > 0) => exceeded'
    BY <2>1, <2>2 DEF CapInv
  <2>5. storing' = storing /\ adding' = adding /\ logging' = logging
    <3>1. /\ storing' = storing + In("out", Pending) - In(at[c], Pending)
          /\ adding' = adding + In("out", {"add"}) - In(at[c], {"add"})
          /\ logging' = logging + In("out", {"log"}) - In(at[c], {"log"})
      BY <1>a, <2>1, CountsMove
    <3> QED
      BY <1>b, <1>c, <2>1, <3>1 DEF In
  <2> QED
    BY <1>a, <1>b, <2>1, <2>3, <2>4, <2>5 DEF CapInv, CapTypeOK
<1>8. CASE UNCHANGED capVars
  BY <1>8 DEF capVars, CapInv, CapTypeOK, AtIn, storing, adding, logging, N, Pending
<1> QED
  BY <1>1, <1>2, <1>3, <1>4, <1>5, <1>6, <1>7, <1>8 DEF CapStep, allow

-----------------------------------------------------------------------------
(* The client.  A caller is inside allow only while it counts its RPC, and *)
(* then for the labels of that RPC; ticket-params handlers, and nobody     *)
(* else, ask for ticket params.                                            *)
Paired ==
  \A c \in Callers :
    /\ at[c] # "out" => pc[c] = "inc" /\ key[c] = labels(c)
    /\ pc[c] # "idle" => (c \in Handlers <=> method[c] = "GetTicketParams")

ClientInv == TypeOK /\ CapInv /\ Paired

(* The labels of a call are a tuple of the vector. *)
LEMMA LabelsTyped ==
  ASSUME TypeOK, NEW c \in Callers
  PROVE  labels(c) \in Tuples
<1>1. method[c] \in Methods
  BY DEF TypeOK
<1> QED
  BY <1>1, ClientAssumption DEF labels, Outcomes

(* A step of the client is a step of the cap or leaves it alone. *)
LEMMA NextIsCapStep ==
  ASSUME TypeOK, [Next]_vars
  PROVE  CapStep \/ UNCHANGED capVars
<1>1. ASSUME NEW c \in Callers, IncDaemonRPC(c) PROVE CapStep
  BY <1>1, LabelsTyped DEF IncDaemonRPC, CapStep
<1>2. CASE UNCHANGED vars
  BY <1>2 DEF vars
<1> QED
  BY <1>1, <1>2 DEF Next, TurnAway, Ask, Call, Return, ObserveCoarse, ObserveFast,
     Answer, CallReturns

(* The answer to an error is one of the statuses counted. *)
LEMMA ErrorStatus ==
  ASSUME NEW err
  PROVE  writeTicketParamsProxyError(err) \in {400, 500, 503}
BY DEF writeTicketParamsProxyError

(* What the client returns is "ok", a code, or an error without one. *)
LEMMA ResultTyped ==
  ASSUME NEW m, NEW reply \in {"ok", "empty"} \cup Codes
  PROVE  grpcResult(m, reply) \in {"ok", "none"} \cup Codes
BY DEF grpcResult

(* Every step keeps the types and the pairing. *)
LEMMA ClientStep ==
  ASSUME ClientInv, [Next]_vars
  PROVE  ClientInv'
<1>a. TypeOK /\ CapInv /\ Paired
  BY DEF ClientInv
<1>b. CapInv'
  BY <1>a, NextIsCapStep, CapStepKeeps
<1>c. CapTypeOK'
  BY <1>b DEF CapInv
<1>1. ASSUME NEW c \in Callers, NEW r \in Requests, TurnAway(c, r)
      PROVE  TypeOK' /\ Paired'
  <2>1. turnedAway(r) \in Statuses
    BY <1>1 DEF TurnAway, turnedAway, Statuses
  <2> QED
    BY <1>1, <1>a, <1>c, <2>1, ClientAssumption
       DEF TurnAway, Step, TypeOK, Paired, labels, capVars, histVars
<1>2. ASSUME NEW c \in Callers, NEW r \in Requests, Ask(c, r)
      PROVE  TypeOK' /\ Paired'
  <2>1. TypeOK'
    BY <1>2, <1>a, <1>c, ClientAssumption
       DEF Ask, Step, TypeOK, capVars, histVars, routeVars, Methods
  <2>2. Paired'
    BY <1>2, <1>a DEF Ask, Step, TypeOK, Paired, labels, capVars
  <2> QED
    BY <2>1, <2>2
<1>3. ASSUME NEW c \in Callers, NEW m \in Called, Call(c, m)
      PROVE  TypeOK' /\ Paired'
  <2>1. m \in Methods /\ m # "GetTicketParams"
    BY ClientAssumption
  <2>2. TypeOK'
    BY <1>3, <1>a, <1>c, <2>1, ClientAssumption
       DEF Call, Step, TypeOK, capVars, histVars, routeVars
  <2>3. Paired'
    BY <1>3, <1>a, <2>1 DEF Call, Step, TypeOK, Paired, labels, capVars
  <2> QED
    BY <2>2, <2>3
<1>4. ASSUME NEW c \in Callers, Return(c) PROVE TypeOK' /\ Paired'
  <2>1. PICK reply \in {"ok", "empty"} \cup Codes :
          result' = [result EXCEPT ![c] = grpcResult(method[c], reply)]
    BY <1>4 DEF Return
  <2>2. result' \in [Callers -> {"ok", "none"} \cup Codes]
    BY <1>a, <2>1, ResultTyped DEF TypeOK
  <2>3. TypeOK'
    BY <1>4, <1>a, <1>c, <2>2 DEF Return, Step, TypeOK, capVars, histVars, routeVars
  <2>4. at[c] = "out"
    BY <1>4, <1>a DEF Return, Step, Paired
  <2>5. Paired'
    BY <1>4, <1>a, <2>1, <2>4 DEF Return, Step, TypeOK, Paired, labels, capVars
  <2> QED
    BY <2>3, <2>5
<1>5. ASSUME NEW c \in Callers, IncDaemonRPC(c) PROVE TypeOK' /\ Paired'
  <2>1. pc[c] = "inc" /\ UNCHANGED <<coarse, fast, answers, refused, method, asked, result, left>>
    BY <1>5 DEF IncDaemonRPC, histVars, routeVars
  <2>2. /\ pc' = pc \/ (pc' = [pc EXCEPT ![c] = "coarse"] /\ at' = [at EXCEPT ![c] = "out"])
        /\ \A d \in Callers \ {c} : at'[d] = at[d] /\ key'[d] = key[d]
        /\ key'[c] = key[c] \/ key'[c] = labels(c)
        /\ at[c] = "out" => key'[c] = labels(c)
    BY <1>5, <1>a DEF IncDaemonRPC, Load, allow, LoadCount, CompareAndSwap, OnExceed,
       Store, Add, Inc, Refused, Goto, TypeOK, CapTypeOK
  <2>3. TypeOK'
    BY <1>a, <1>c, <2>1, <2>2 DEF TypeOK
  <2>4. Paired'
    BY <1>a, <2>1, <2>2 DEF TypeOK, CapTypeOK, Paired, labels
  <2> QED
    BY <2>3, <2>4
<1>6. ASSUME NEW c \in Callers, ObserveCoarse(c) \/ ObserveFast(c)
      PROVE  TypeOK' /\ Paired'
  <2>1. TypeOK'
    BY <1>6, <1>a, <1>c, LabelsTyped
       DEF ObserveCoarse, ObserveFast, Step, TypeOK, capVars, routeVars
  <2>2. Paired'
    BY <1>6, <1>a DEF ObserveCoarse, ObserveFast, Step, TypeOK, Paired, labels, capVars
  <2> QED
    BY <2>1, <2>2
<1>7. ASSUME NEW c \in Callers, Answer(c) \/ CallReturns(c)
      PROVE  TypeOK' /\ Paired'
  <2>1. TypeOK'
    BY <1>7, <1>a, <1>c, ErrorStatus
       DEF Answer, CallReturns, Step, TypeOK, capVars, histVars, routeVars, Statuses
  <2>2. Paired'
    BY <1>7, <1>a DEF Answer, CallReturns, Step, TypeOK, Paired, labels, capVars
  <2> QED
    BY <2>1, <2>2
<1>8. ASSUME UNCHANGED vars PROVE TypeOK' /\ Paired'
  <2>1. TypeOK'
    BY <1>8, <1>a, <1>c DEF vars, callVars, histVars, routeVars, TypeOK
  <2>2. Paired'
    BY <1>8, <1>a DEF vars, capVars, callVars, Paired, labels
  <2> QED
    BY <2>1, <2>2
<1>9. TypeOK' /\ Paired'
  BY <1>1, <1>2, <1>3, <1>4, <1>5, <1>6, <1>7, <1>8 DEF Next
<1> QED
  BY <1>b, <1>9 DEF ClientInv

(* The client starts with nothing counted and everybody idle. *)
LEMMA ClientStart == Init => ClientInv
<1> SUFFICES ASSUME Init PROVE ClientInv
  OBVIOUS
<1>1. CapTypeOK
  BY FS_EmptySet DEF Init, CapInit, CapTypeOK
<1>2. TypeOK
  BY <1>1, ClientAssumption DEF Init, TypeOK, Methods, Statuses
<1>3. Paired
  BY DEF Init, CapInit, Paired
<1>4. storing = 0 /\ adding = 0 /\ logging = 0
  <2>1. AtIn(Pending) = {} /\ AtIn({"add"}) = {} /\ AtIn({"log"}) = {}
    BY DEF Init, CapInit, AtIn, Pending
  <2>2. Cardinality({}) = 0
    BY FS_EmptySet
  <2> QED
    BY <2>1, <2>2 DEF storing, adding, logging
<1>5. N > 0 /\ N \in Nat
  <2>1. IsFiniteSet(Callers) /\ Callers # {}
    BY CapAssumption
  <2>2. Cardinality(Callers) \in Nat /\ Cardinality(Callers) # 0
    BY <2>1, FS_EmptySet, FS_CardinalityType
  <2> QED
    BY <2>2 DEF N
<1>6. CapInv
  <2>1. Cardinality({}) = 0
    BY FS_EmptySet
  <2> QED
    BY <1>1, <1>4, <1>5, <2>1, CapAssumption DEF Init, CapInit, CapInv
<1> QED
  BY <1>2, <1>3, <1>6 DEF ClientInv

(* The inductive invariant of the metered client and its series cap. *)
THEOREM ClientInvariant == Spec => []ClientInv
<1>1. Init => ClientInv
  BY ClientStart
<1>2. ClientInv /\ [Next]_vars => ClientInv'
  BY ClientStep
<1> QED
  BY <1>1, <1>2, PTL DEF Spec

(* Racing callers of allow overshoot the cap by fewer series than there    *)
(* are callers, whatever the cap.                                          *)
THEOREM OvershootAlwaysBounded == Spec => []OvershootBounded
<1>1. ClientInv => OvershootBounded
  BY CapInvImplies DEF ClientInv
<1> QED
  BY <1>1, ClientInvariant, PTL

(* The count of capVec never falls behind the series it admitted. *)
THEOREM CountAlwaysCovers == Spec => []CountCoversSeen
<1>1. ClientInv => CountCoversSeen
  BY CapInvImplies DEF ClientInv
<1> QED
  BY <1>1, ClientInvariant, PTL

(* onCapHit runs once, and before the first increment is refused it is at  *)
(* least under way.                                                        *)
THEOREM CapReportedOnce == Spec => []ReportedOnce
<1>1. ClientInv => ReportedOnce
  BY CapInvImplies DEF ClientInv
<1> QED
  BY <1>1, ClientInvariant, PTL

-----------------------------------------------------------------------------
(* The accounts. *)

(* Callers of a tuple between two points are finitely many. *)
LEMMA BetweenFinite ==
  ASSUME NEW t, NEW ps
  PROVE  /\ IsFiniteSet(Between(t, ps)) /\ IsFiniteSet(Between(t, ps)')
         /\ Cardinality(Between(t, ps)) \in Nat /\ Cardinality(Between(t, ps)') \in Nat
<1>1. Between(t, ps) \subseteq Callers /\ Between(t, ps)' \subseteq Callers
  BY DEF Between
<1> QED
  BY <1>1, CapAssumption, FS_Subset, FS_CardinalityType

(* A caller that arrives at one of the points adds one, a caller that      *)
(* leaves takes one away, and any other step changes nothing.              *)
LEMMA BetweenMoves ==
  ASSUME TypeOK, NEW t, NEW ps, NEW c \in Callers, NEW p,
         pc' = [pc EXCEPT ![c] = p], UNCHANGED <<method, result>>
  PROVE  Cardinality(Between(t, ps)')
           = Cardinality(Between(t, ps))
             + (IF labels(c) = t THEN In(p, ps) - In(pc[c], ps) ELSE 0)
<1> DEFINE B == Between(t, ps)
<1>a. DOMAIN pc = Callers
  BY DEF TypeOK
<1>b. IsFiniteSet(B) /\ Cardinality(B) \in Nat
  BY BetweenFinite
<1>1. CASE labels(c) = t /\ p \in ps /\ pc[c] \notin ps
  <2>1. B' = B \cup {c} /\ c \notin B
    BY <1>1, <1>a DEF Between, labels
  <2> HIDE DEF B
  <2>2. Cardinality(B \cup {c}) = Cardinality(B) + 1
    BY <1>b, <2>1, FS_AddElement
  <2>3. Cardinality(B') = Cardinality(B) + (IF labels(c) = t THEN In(p, ps) - In(pc[c], ps) ELSE 0)
    BY <1>1, <1>b, <2>1, <2>2 DEF In
  <2> QED
    BY <2>3 DEF B
<1>2. CASE labels(c) = t /\ p \notin ps /\ pc[c] \in ps
  <2>1. B' = B \ {c} /\ c \in B
    BY <1>2, <1>a DEF Between, labels
  <2> HIDE DEF B
  <2>2. Cardinality(B \ {c}) = Cardinality(B) - 1
    BY <1>b, <2>1, FS_RemoveElement
  <2>3. Cardinality(B') = Cardinality(B) + (IF labels(c) = t THEN In(p, ps) - In(pc[c], ps) ELSE 0)
    BY <1>2, <1>b, <2>1, <2>2 DEF In
  <2> QED
    BY <2>3 DEF B
<1>3. CASE labels(c) # t \/ (p \in ps <=> pc[c] \in ps)
  <2>1. B' = B
    BY <1>3, <1>a DEF Between, labels
  <2> QED
    BY <1>3, <1>b, <2>1 DEF In
<1> QED
  BY <1>1, <1>2, <1>3

(* What a caller does away from the points changes no count. *)
LEMMA BetweenStill ==
  ASSUME NEW t, NEW ps,
         \A d \in Callers : \/ pc'[d] = pc[d] /\ labels(d)' = labels(d)
                            \/ pc'[d] \notin ps /\ pc[d] \notin ps
  PROVE  Cardinality(Between(t, ps)') = Cardinality(Between(t, ps))
<1>1. Between(t, ps)' = Between(t, ps)
  BY DEF Between
<1> QED
  BY <1>1

(* The steps that touch neither the counter nor a histogram. *)
Elsewhere(c) ==
  \/ \E r \in Requests : TurnAway(c, r) \/ Ask(c, r)
  \/ \E m \in Called : Call(c, m)
  \/ Return(c)

(* They move only the caller that takes them, from idle or towards inc. *)
LEMMA ElsewhereMoves ==
  ASSUME TypeOK, NEW c \in Callers, Elsewhere(c)
  PROVE  /\ \A d \in Callers \ {c} : pc'[d] = pc[d] /\ labels(d)' = labels(d)
         /\ pc[c] \in {"idle", "rpc"} /\ pc'[c] \in {"idle", "rpc", "inc"}
         /\ UNCHANGED <<vec, dropped, coarse, fast>>
<1>1. ASSUME NEW r \in Requests, TurnAway(c, r) \/ Ask(c, r)
      PROVE  /\ \A d \in Callers \ {c} : pc'[d] = pc[d] /\ labels(d)' = labels(d)
             /\ pc[c] \in {"idle", "rpc"} /\ pc'[c] \in {"idle", "rpc", "inc"}
             /\ UNCHANGED <<vec, dropped, coarse, fast>>
  BY <1>1 DEF TurnAway, Ask, Step, TypeOK, labels, capVars, histVars
<1>2. ASSUME NEW m \in Called, Call(c, m)
      PROVE  /\ \A d \in Callers \ {c} : pc'[d] = pc[d] /\ labels(d)' = labels(d)
             /\ pc[c] \in {"idle", "rpc"} /\ pc'[c] \in {"idle", "rpc", "inc"}
             /\ UNCHANGED <<vec, dropped, coarse, fast>>
  BY <1>2 DEF Call, Step, TypeOK, labels, capVars, histVars
<1>3. ASSUME Return(c)
      PROVE  /\ \A d \in Callers \ {c} : pc'[d] = pc[d] /\ labels(d)' = labels(d)
             /\ pc[c] \in {"idle", "rpc"} /\ pc'[c] \in {"idle", "rpc", "inc"}
             /\ UNCHANGED <<vec, dropped, coarse, fast>>
  BY <1>3 DEF Return, Step, TypeOK, labels, capVars, histVars
<1> QED
  BY <1>1, <1>2, <1>3 DEF Elsewhere

(* Every step keeps the accounts of the calls. *)
LEMMA RPCStep ==
  ASSUME ClientInv, RPCsAccounted, [Next]_vars
  PROVE  RPCsAccounted'
<1> SUFFICES ASSUME NEW t \in Tuples
             PROVE  /\ vec'[t] + dropped'[t]
                         = coarse'[t] + Cardinality(Between(t, {"coarse"})')
                    /\ coarse'[t] = fast'[t] + Cardinality(Between(t, {"fast"})')
  BY DEF RPCsAccounted
<1> DEFINE atCoarse == Cardinality(Between(t, {"coarse"}))
           atFast == Cardinality(Between(t, {"fast"}))
<1>a. TypeOK /\ Paired
  BY DEF ClientInv
<1>b. /\ vec[t] + dropped[t] = coarse[t] + atCoarse /\ coarse[t] = fast[t] + atFast
      /\ vec[t] \in Nat /\ dropped[t] \in Nat /\ coarse[t] \in Nat /\ fast[t] \in Nat
      /\ atCoarse \in Nat /\ atFast \in Nat
  BY <1>a, BetweenFinite DEF RPCsAccounted, TypeOK, CapTypeOK
<1> HIDE DEF atCoarse, atFast
<1> DEFINE goal == /\ vec'[t] + dropped'[t] = coarse'[t] + atCoarse'
                   /\ coarse'[t] = fast'[t] + atFast'
<1>1. ASSUME NEW c \in Callers, Elsewhere(c) PROVE goal
  <2>1. atCoarse' = atCoarse /\ atFast' = atFast
    BY <1>1, <1>a, ElsewhereMoves, BetweenStill DEF atCoarse, atFast
  <2> QED
    BY <1>1, <1>a, <1>b, <2>1, ElsewhereMoves
<1>2. ASSUME NEW c \in Callers, IncDaemonRPC(c) PROVE goal
  <2>1. pc[c] = "inc" /\ UNCHANGED <<coarse, fast, method, result>>
    BY <1>2 DEF IncDaemonRPC, histVars
  <2>2. CASE Inc(c) \/ Refused(c)
    <3>1. pc' = [pc EXCEPT ![c] = "coarse"] /\ key[c] = labels(c)
      BY <1>2, <1>a, <2>2 DEF IncDaemonRPC, Inc, Refused, Paired, Load, allow, LoadCount,
         CompareAndSwap, OnExceed, Store, Add
    <3>2. /\ atCoarse' = atCoarse + (IF labels(c) = t
                              THEN In("coarse", {"coarse"}) - In(pc[c], {"coarse"}) ELSE 0)
          /\ atFast' = atFast + (IF labels(c) = t
                              THEN In("coarse", {"fast"}) - In(pc[c], {"fast"}) ELSE 0)
      BY <1>a, <2>1, <3>1, BetweenMoves DEF atCoarse, atFast
    <3>3. /\ atCoarse' = atCoarse + (IF labels(c) = t THEN 1 ELSE 0) /\ atFast' = atFast
      BY <1>b, <2>1, <3>2 DEF In
    <3>4. vec'[t] + dropped'[t] = vec[t] + dropped[t] + (IF labels(c) = t THEN 1 ELSE 0)
      BY <1>a, <1>b, <2>2, <3>1 DEF Inc, Refused, TypeOK, CapTypeOK
    <3> QED
      BY <1>b, <2>1, <3>3, <3>4
  <2>3. CASE Load(c, labels(c)) \/ allow(c)
    <3>1. UNCHANGED <<vec, dropped, pc>>
      BY <1>2, <2>3 DEF IncDaemonRPC, Inc, Refused, Load, allow, LoadCount,
         CompareAndSwap, OnExceed, Store, Add
    <3>2. atCoarse' = atCoarse /\ atFast' = atFast
      BY <2>1, <3>1 DEF atCoarse, atFast, Between, labels
    <3> QED
      BY <1>b, <2>1, <3>1, <3>2
  <2> QED
    BY <1>2, <2>2, <2>3 DEF IncDaemonRPC
<1>3. ASSUME NEW c \in Callers, ObserveCoarse(c) PROVE goal
  <2>a. /\ pc[c] = "coarse" /\ pc' = [pc EXCEPT ![c] = "fast"]
        /\ UNCHANGED <<vec, dropped, fast, method, result>>
        /\ coarse' = [coarse EXCEPT ![labels(c)] = @ + 1]
    BY <1>3 DEF ObserveCoarse, Step, capVars
  <2>b. DOMAIN coarse = Tuples
    BY <1>a DEF TypeOK
  <2>c. coarse'[t] = coarse[t] + (IF labels(c) = t THEN 1 ELSE 0)
    BY <1>b, <2>a, <2>b
  <2>1. /\ pc[c] = "coarse" /\ pc' = [pc EXCEPT ![c] = "fast"]
        /\ UNCHANGED <<vec, dropped, fast, method, result>>
        /\ coarse'[t] = coarse[t] + (IF labels(c) = t THEN 1 ELSE 0)
    BY <2>a, <2>c
  <2>2. /\ atCoarse' = atCoarse + (IF labels(c) = t
                            THEN In("fast", {"coarse"}) - In(pc[c], {"coarse"}) ELSE 0)
        /\ atFast' = atFast + (IF labels(c) = t
                            THEN In("fast", {"fast"}) - In(pc[c], {"fast"}) ELSE 0)
    BY <1>a, <2>1, BetweenMoves DEF atCoarse, atFast
  <2>3. /\ atCoarse' = atCoarse - (IF labels(c) = t THEN 1 ELSE 0)
        /\ atFast' = atFast + (IF labels(c) = t THEN 1 ELSE 0)
    BY <1>b, <2>1, <2>2 DEF In
  <2>4. CASE labels(c) = t
    BY <1>b, <2>1, <2>3, <2>4
  <2>5. CASE labels(c) # t
    BY <1>b, <2>1, <2>3, <2>5
  <2> QED
    BY <2>4, <2>5
<1>4. ASSUME NEW c \in Callers, ObserveFast(c) PROVE goal
  <2>a. /\ pc[c] = "fast" /\ pc' = [pc EXCEPT ![c] = "return"]
        /\ UNCHANGED <<vec, dropped, coarse, method, result>>
        /\ fast' = [fast EXCEPT ![labels(c)] = @ + 1]
    BY <1>4 DEF ObserveFast, Step, capVars
  <2>b. DOMAIN fast = Tuples
    BY <1>a DEF TypeOK
  <2>c. fast'[t] = fast[t] + (IF labels(c) = t THEN 1 ELSE 0)
    BY <1>b, <2>a, <2>b
  <2>1. /\ pc[c] = "fast" /\ pc' = [pc EXCEPT ![c] = "return"]
        /\ UNCHANGED <<vec, dropped, coarse, method, result>>
        /\ fast'[t] = fast[t] + (IF labels(c) = t THEN 1 ELSE 0)
    BY <2>a, <2>c
  <2>2. /\ atCoarse' = atCoarse + (IF labels(c) = t
                            THEN In("return", {"coarse"}) - In(pc[c], {"coarse"}) ELSE 0)
        /\ atFast' = atFast + (IF labels(c) = t
                            THEN In("return", {"fast"}) - In(pc[c], {"fast"}) ELSE 0)
    BY <1>a, <2>1, BetweenMoves DEF atCoarse, atFast
  <2>3. atCoarse' = atCoarse /\ atFast' = atFast - (IF labels(c) = t THEN 1 ELSE 0)
    BY <1>b, <2>1, <2>2 DEF In
  <2>4. CASE labels(c) = t
    BY <1>b, <2>1, <2>3, <2>4
  <2>5. CASE labels(c) # t
    BY <1>b, <2>1, <2>3, <2>5
  <2> QED
    BY <2>4, <2>5
<1>5. ASSUME NEW c \in Callers, Answer(c) \/ CallReturns(c) PROVE goal
  <2>1. /\ pc[c] = "return" /\ pc' = [pc EXCEPT ![c] = "idle"]
        /\ UNCHANGED <<vec, dropped, coarse, fast, method, result>>
    BY <1>5 DEF Answer, CallReturns, Step, capVars, histVars
  <2>2. atCoarse' = atCoarse /\ atFast' = atFast
    BY <1>a, <2>1, BetweenStill DEF atCoarse, atFast, TypeOK, labels
  <2> QED
    BY <1>b, <2>1, <2>2
<1>6. ASSUME UNCHANGED vars PROVE goal
  <2>1. UNCHANGED <<pc, method, result, vec, dropped, coarse, fast>>
    BY <1>6 DEF vars, capVars, callVars, histVars
  <2>2. atCoarse' = atCoarse /\ atFast' = atFast
    BY <2>1 DEF atCoarse, atFast, Between, labels
  <2> QED
    BY <1>b, <2>1, <2>2
<1>7. goal
  <2> HIDE DEF goal
  <2> QED
    BY <1>1, <1>2, <1>3, <1>4, <1>5, <1>6 DEF Next, Elsewhere
<1> QED
  BY <1>7 DEF atCoarse, atFast

(* meteredClient loses no call and counts none twice, for any callers and  *)
(* methods.                                                                *)
THEOREM RPCsAlwaysAccounted == Spec => []RPCsAccounted
<1>1. Init => RPCsAccounted
  <2> SUFFICES ASSUME Init PROVE RPCsAccounted
    OBVIOUS
  <2>1. \A t : Between(t, {"coarse"}) = {} /\ Between(t, {"fast"}) = {}
    BY DEF Init, Between
  <2>2. Cardinality({}) = 0
    BY FS_EmptySet
  <2> QED
    BY <2>1, <2>2 DEF Init, CapInit, RPCsAccounted
<1>2. ClientInv /\ RPCsAccounted /\ [Next]_vars => RPCsAccounted'
  BY RPCStep
<1> QED
  BY <1>1, <1>2, ClientInvariant, PTL DEF Spec

-----------------------------------------------------------------------------
(* The answers.  params and pending name the subexpressions of             *)
(* AnswersAccounted.                                                       *)

params(o) == <<"GetTicketParams", o>>
pending(o) == Cardinality(Between(params(o), {"fast", "return"}))
failed == answers[400] + answers[401] + answers[500] + answers[503]

(* Every step keeps the metrics in agreement with the answers. *)
LEMMA AnswerStep ==
  ASSUME ClientInv, AnswersAccounted, [Next]_vars
  PROVE  AnswersAccounted'
<1> DEFINE ok == coarse[params("ok")]
           err == coarse[params("error")]
           goal == /\ ok' = answers'[200] + pending("ok")'
                   /\ err' + refused' = failed' + pending("error")'
<1>a. TypeOK /\ Paired
  BY DEF ClientInv
<1>b. /\ ok = answers[200] + pending("ok") /\ err + refused = failed + pending("error")
      /\ params("ok") \in Tuples /\ params("error") \in Tuples
      /\ ok \in Nat /\ err \in Nat /\ refused \in Nat
      /\ pending("ok") \in Nat /\ pending("error") \in Nat
      /\ \A s \in Statuses : answers[s] \in Nat
  <2>1. params("ok") \in Tuples /\ params("error") \in Tuples
    BY ClientAssumption DEF params, Methods, Outcomes
  <2> QED
    BY <1>a, <2>1, BetweenFinite DEF AnswersAccounted, TypeOK, pending, failed, params
<1>c. params("ok") # params("error")
  BY DEF params
<1>d. {200, 400, 401, 500, 503} = Statuses /\ failed \in Nat
  BY <1>b DEF Statuses, failed
<1>1. ASSUME NEW c \in Callers, NEW r \in Requests, TurnAway(c, r) PROVE goal
  <2>1. /\ UNCHANGED <<pc, method, result, coarse>> /\ refused' = refused + 1
        /\ answers' = [answers EXCEPT ![turnedAway(r)] = @ + 1]
        /\ turnedAway(r) \in {400, 401}
    BY <1>1, <1>a DEF TurnAway, Step, TypeOK, histVars, turnedAway
  <2>2. pending("ok")' = pending("ok") /\ pending("error")' = pending("error")
    BY <2>1 DEF pending, Between, labels, params
  <2>3. answers'[200] = answers[200] /\ failed' = failed + 1
    BY <1>a, <1>b, <1>d, <2>1 DEF TypeOK, failed
  <2> QED
    BY <1>b, <1>d, <2>1, <2>2, <2>3 DEF params
<1>2. ASSUME NEW c \in Callers, Elsewhere(c), UNCHANGED <<answers, refused>> PROVE goal
  <2>1. pending("ok")' = pending("ok") /\ pending("error")' = pending("error")
    BY <1>2, <1>a, ElsewhereMoves, BetweenStill DEF pending, params
  <2>2. coarse' = coarse
    BY <1>2, <1>a, ElsewhereMoves
  <2> QED
    BY <1>2, <1>b, <2>1, <2>2 DEF params, failed
<1>3. ASSUME NEW c \in Callers, IncDaemonRPC(c) PROVE goal
  <2>1. /\ UNCHANGED <<method, result, coarse, answers, refused>>
        /\ pc[c] = "inc" /\ (pc' = pc \/ pc' = [pc EXCEPT ![c] = "coarse"])
    BY <1>3 DEF IncDaemonRPC, histVars, routeVars
  <2>2. \A d \in Callers : \/ pc'[d] = pc[d] /\ labels(d)' = labels(d)
                           \/ pc'[d] \notin {"fast", "return"} /\ pc[d] \notin {"fast", "return"}
    BY <1>a, <2>1 DEF TypeOK, labels
  <2>3. pending("ok")' = pending("ok") /\ pending("error")' = pending("error")
    BY <2>2, BetweenStill DEF pending, params
  <2> QED
    BY <1>b, <2>1, <2>3 DEF params, failed
<1>4. ASSUME NEW c \in Callers, ObserveCoarse(c) PROVE goal
  <2>1. /\ pc[c] = "coarse" /\ pc' = [pc EXCEPT ![c] = "fast"]
        /\ UNCHANGED <<method, result, answers, refused>>
        /\ coarse' = [coarse EXCEPT ![labels(c)] = @ + 1]
    BY <1>4 DEF ObserveCoarse, Step, routeVars
  <2>2. ASSUME NEW o \in {"ok", "error"}
        PROVE  pending(o)' = pending(o) + (IF labels(c) = params(o) THEN 1 ELSE 0)
    <3>1. pending(o)' = pending(o) + (IF labels(c) = params(o)
              THEN In("fast", {"fast", "return"}) - In(pc[c], {"fast", "return"}) ELSE 0)
      BY <1>a, <2>1, BetweenMoves DEF pending, params
    <3> QED
      BY <1>b, <2>1, <3>1 DEF In
  <2>3. /\ coarse'[params("ok")] = ok + (IF labels(c) = params("ok") THEN 1 ELSE 0)
        /\ coarse'[params("error")] = err + (IF labels(c) = params("error") THEN 1 ELSE 0)
    BY <1>a, <1>b, <2>1 DEF TypeOK
  <2>4. /\ ok' = ok + (IF labels(c) = params("ok") THEN 1 ELSE 0)
        /\ err' = err + (IF labels(c) = params("error") THEN 1 ELSE 0)
    BY <2>3 DEF params
  <2> QED
    BY <1>b, <1>d, <2>1, <2>2, <2>4 DEF failed
<1>5. ASSUME NEW c \in Callers, ObserveFast(c) PROVE goal
  <2>1. /\ pc[c] = "fast" /\ pc' = [pc EXCEPT ![c] = "return"]
        /\ UNCHANGED <<method, result, coarse, answers, refused>>
    BY <1>5 DEF ObserveFast, Step, routeVars
  <2>2. ASSUME NEW o \in {"ok", "error"} PROVE pending(o)' = pending(o)
    <3>1. pending(o)' = pending(o) + (IF labels(c) = params(o)
              THEN In("return", {"fast", "return"}) - In(pc[c], {"fast", "return"}) ELSE 0)
      BY <1>a, <2>1, BetweenMoves DEF pending, params
    <3> QED
      BY <1>b, <2>1, <3>1 DEF In
  <2> QED
    BY <1>b, <2>1, <2>2 DEF params, failed
<1>6. ASSUME NEW c \in Callers, Answer(c) PROVE goal
  <2> DEFINE s == IF result[c] = "ok" THEN 200 ELSE writeTicketParamsProxyError(result[c])
             o == IF result[c] = "ok" THEN "ok" ELSE "error"
  <2>1. /\ pc[c] = "return" /\ pc' = [pc EXCEPT ![c] = "idle"]
        /\ UNCHANGED <<method, result, coarse, refused>>
        /\ answers' = [answers EXCEPT ![s] = @ + 1] /\ labels(c) = params(o)
    BY <1>6, <1>a DEF Answer, Step, histVars, Paired, labels, params
  <2>2. (s = 200 /\ o = "ok") \/ (s \in {400, 500, 503} /\ o = "error")
    BY ErrorStatus
  <2> HIDE DEF s, o
  <2>3. ASSUME NEW u \in {"ok", "error"}
        PROVE  pending(u)' = pending(u) - (IF u = o THEN 1 ELSE 0)
    <3>1. pending(u)' = pending(u) + (IF labels(c) = params(u)
              THEN In("idle", {"fast", "return"}) - In(pc[c], {"fast", "return"}) ELSE 0)
      BY <1>a, <2>1, BetweenMoves DEF pending, params
    <3>2. labels(c) = params(u) <=> u = o
      BY <2>1 DEF params
    <3> QED
      BY <1>b, <2>1, <3>1, <3>2 DEF In
  <2>4. /\ answers'[200] = answers[200] + (IF o = "ok" THEN 1 ELSE 0)
        /\ failed' = failed + (IF o = "error" THEN 1 ELSE 0)
    BY <1>a, <1>b, <1>d, <2>1, <2>2 DEF TypeOK, failed
  <2>5. ok' = ok /\ err' = err
    BY <2>1 DEF params
  <2> QED
    BY <1>b, <1>d, <2>1, <2>2, <2>3, <2>4, <2>5
<1>7. ASSUME NEW c \in Callers, CallReturns(c) PROVE goal
  <2>1. /\ pc[c] = "return" /\ pc' = [pc EXCEPT ![c] = "idle"]
        /\ UNCHANGED <<method, result, coarse, answers, refused>>
        /\ method[c] # "GetTicketParams"
    BY <1>7, <1>a DEF CallReturns, Step, histVars, routeVars, Paired
  <2>2. ASSUME NEW u \in {"ok", "error"} PROVE pending(u)' = pending(u)
    <3>1. Between(params(u), {"fast", "return"})' = Between(params(u), {"fast", "return"})
      BY <1>a, <2>1 DEF Between, params, labels, TypeOK
    <3> QED
      BY <3>1 DEF pending, params
  <2> QED
    BY <1>b, <2>1, <2>2 DEF params, failed
<1>8. ASSUME UNCHANGED vars PROVE goal
  <2>1. UNCHANGED <<pc, method, result, coarse, answers, refused>>
    BY <1>8 DEF vars, callVars, histVars, routeVars
  <2> QED
    BY <1>b, <2>1 DEF pending, Between, labels, params, failed
<1>9. goal
  <2> HIDE DEF goal
  <2>1. ASSUME NEW c \in Callers, NEW r \in Requests, Ask(c, r) PROVE goal
    BY <1>2, <2>1 DEF Elsewhere, Ask, routeVars
  <2>2. ASSUME NEW c \in Callers, NEW m \in Called, Call(c, m) PROVE goal
    BY <1>2, <2>2 DEF Elsewhere, Call, routeVars
  <2>3. ASSUME NEW c \in Callers, Return(c) PROVE goal
    BY <1>2, <2>3 DEF Elsewhere, Return, routeVars
  <2> QED
    BY <1>1, <1>3, <1>4, <1>5, <1>6, <1>7, <1>8, <2>1, <2>2, <2>3 DEF Next
<1> QED
  BY <1>9 DEF AnswersAccounted, pending, params, failed

(* The metrics agree with the answers of the ticket-params route, for any  *)
(* callers, requests and codes.                                            *)
THEOREM AnswersAlwaysAccounted == Spec => []AnswersAccounted
<1>1. Init => AnswersAccounted
  <2> SUFFICES ASSUME Init PROVE AnswersAccounted
    OBVIOUS
  <2>1. \A o : Between(<<"GetTicketParams", o>>, {"fast", "return"}) = {}
    BY DEF Init, Between
  <2>2. Cardinality({}) = 0
    BY FS_EmptySet
  <2>3. <<"GetTicketParams", "ok">> \in Tuples /\ <<"GetTicketParams", "error">> \in Tuples
    BY ClientAssumption DEF Methods, Outcomes
  <2> QED
    BY <2>1, <2>2, <2>3 DEF Init, AnswersAccounted, Statuses
<1>2. ClientInv /\ AnswersAccounted /\ [Next]_vars => AnswersAccounted'
  BY AnswerStep
<1> QED
  BY <1>1, <1>2, ClientInvariant, PTL DEF Spec

(* Only canonical requests reach the daemon, whatever is posted. *)
THEOREM OnlyCanonicalAsked == Spec => []CanonicalAsked
<1> DEFINE Inv == CanonicalAsked /\ asked = [c \in Callers |-> asked[c]]
<1>1. Init => Inv
  BY DEF Init, CanonicalAsked
<1>2. Inv /\ [Next]_vars => Inv'
  <2> SUFFICES ASSUME Inv, [Next]_vars PROVE Inv'
    OBVIOUS
  <2>1. ASSUME NEW c \in Callers, NEW r \in Requests, Ask(c, r) PROVE Inv'
    <3> DEFINE q == parseTicketParamsRequest(r)
    <3>1. asked' = [asked EXCEPT ![c] = {q}] /\ fieldsAccepted(r)
      BY <2>1 DEF Ask, turnedAway
    <3>2. r.capability \in Text /\ r.offering \in Text
      BY ClientAssumption
    <3>3. /\ q.sender \in Address /\ q.recipient \in Address /\ q.faceValue > 0
          /\ \A t \in {q.capability, q.offering} : Trimmed(t) /\ t # Empty
      BY <3>1, <3>2, TextAssumption
         DEF fieldsAccepted, parseHexAddress, parseTicketParamsRequest, Trimmed
    <3> HIDE DEF q
    <3>4. asked' = [d \in Callers |-> IF d = c THEN {q} ELSE asked[d]]
      BY <3>1
    <3> QED
      BY <3>3, <3>4 DEF CanonicalAsked
  <2>2. ASSUME NEW c \in Callers, Answer(c) PROVE Inv'
    <3>1. asked' = [d \in Callers |-> IF d = c THEN {} ELSE asked[d]]
      BY <2>2 DEF Answer
    <3> QED
      BY <3>1 DEF CanonicalAsked
  <2>3. ASSUME UNCHANGED asked PROVE Inv'
    BY <2>3 DEF CanonicalAsked
  <2> HIDE DEF Inv
  <2> QED
    BY <2>1, <2>2, <2>3 DEF Next, TurnAway, Call, Return, IncDaemonRPC, ObserveCoarse,
       ObserveFast, CallReturns, vars, callVars
<1> QED
  BY <1>1, <1>2, PTL DEF Spec
=============================================================================
