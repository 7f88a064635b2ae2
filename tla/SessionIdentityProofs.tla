----------------------- MODULE SessionIdentityProofs ------------------------
(***************************************************************************)
(* That a session is served, charged and addressed as the handler decided, *)
(* whatever a gateway puts into headers and body.                          *)
(***************************************************************************)
EXTENDS SessionIdentity, TLAPS

(* The first text that is not blank is trimmed: for three candidates. *)
LEMMA FirstOfThree ==
  ASSUME NEW a \in Text, NEW b \in Text, NEW c \in Text
  PROVE  /\ FirstOf(<<a, b, c>>) \in Text
         /\ Trimmed(FirstOf(<<a, b, c>>))
<1> DEFINE ts == <<a, b, c>>
           given == {i \in DOMAIN ts : Trim[ts[i]] # Empty}
<1>1. DOMAIN ts = {1, 2, 3} /\ ts[1] = a /\ ts[2] = b /\ ts[3] = c
  OBVIOUS
<1>2. CASE given = {}
  BY <1>2, TextAssumption DEF FirstOf, Trimmed
<1>3. CASE given # {}
  <2> DEFINE least == CHOOSE i \in given : \A j \in given : i <= j
  <2>1. given \subseteq {1, 2, 3}
    BY <1>1
  <2>2. \E i \in given : \A j \in given : i <= j
    <3>1. CASE 1 \in given
      BY <2>1, <3>1
    <3>2. CASE 1 \notin given /\ 2 \in given
      BY <2>1, <3>2
    <3>3. CASE 1 \notin given /\ 2 \notin given
      BY <1>3, <2>1, <3>3
    <3> QED
      BY <3>1, <3>2, <3>3
  <2> HIDE DEF given
  <2>3. least \in given
    BY <2>2
  <2>4. ts[least] \in Text
    BY <1>1, <2>1, <2>3
  <2>5. FirstOf(ts) = Trim[ts[least]]
    BY <1>3 DEF FirstOf, given
  <2> HIDE DEF ts, least
  <2> QED
    BY <2>4, <2>5, TextAssumption DEF Trimmed, ts
<1> QED
  BY <1>2, <1>3

(* The gateway's id is a trimmed text wherever it comes from. *)
LEMMA GatewayIDTrimmed ==
  ASSUME NEW s \in Starts, input[s] \in Inputs
  PROVE  /\ extractGatewaySessionID(s) \in Text
         /\ Trimmed(extractGatewaySessionID(s))
<1>1. /\ input[s].hdr.session \in Text
      /\ input[s].body.gatewaySession \in Text /\ input[s].body.session \in Text
  BY IdentityAssumption DEF RequestHeaders, RequestBodies
<1>2. BodyField(s, "gatewaySession") \in Text /\ BodyField(s, "session") \in Text
  BY <1>1, TextAssumption DEF BodyField
<1> QED
  BY <1>1, <1>2, FirstOfThree DEF extractGatewaySessionID

-----------------------------------------------------------------------------
(* The inductive invariant.  The two properties speak of sessions being    *)
(* served; that they hold rests on what the headers say from the moment    *)
(* the handler has written them, on the daemon keeping the first binding   *)
(* of a work id, and on the entries of the registry.                       *)

Written(s) == pc[s] \in {"pay", "serve", "open", "serving", "done"}

BindingOf(o) == [offering |-> o, price |-> Route[o].price]

TypeInv ==
  /\ input \in [Starts -> Inputs]
  /\ header \in [Starts -> RequestHeaders]
  /\ pc \in [Starts -> {"request", "pay", "rejected", "serve", "open",
                        "serving", "done"}]
  /\ DOMAIN daemon = Works /\ DOMAIN registry = Text
  /\ DOMAIN session = Starts

(* What the headers of a request say once the handler has written them:    *)
(* what the handler holds in its locals.                                   *)
HeaderInv(s) ==
  /\ header[s].session = extractGatewaySessionID(s)
  /\ header[s].offering = extractStreamingOffering(s)
  /\ header[s].work \in Works /\ header[s].work = input[s].payment
  /\ header[s].worker = WorkerName[header[s].work]
  /\ header[s].offering \in DOMAIN Route
  /\ header[s].url = Route[header[s].offering].url
  /\ header[s].session # Empty /\ Trimmed(header[s].session)
  /\ daemon[header[s].work] = {BindingOf(header[s].offering)}

(* What Serve took from them. *)
SessionInv(s) ==
  session[s] = [id |-> header[s].session, worker |-> header[s].worker,
                work |-> header[s].work, url |-> header[s].url]

(* The payment and the id of an entry are those of one start request. *)
Owned(i) ==
  \E o \in Starts : input[o].payment = i.work /\ extractGatewaySessionID(o) = i.id

(* An entry of the registry under id g. *)
EntryInv(g, i) ==
  /\ i.work \in Works /\ i.worker = WorkerName[i.work] /\ i.id = g
  /\ \E o \in DOMAIN Route :
       daemon[i.work] = {BindingOf(o)} /\ i.url = Route[o].url
  /\ i = [id |-> i.id, worker |-> i.worker, work |-> i.work, url |-> i.url]
  /\ Owned(i)

IdentityInv ==
  /\ TypeInv
  /\ \A s \in Starts : Written(s) => HeaderInv(s)
  /\ \A s \in Starts : Served(s) => SessionInv(s)
  /\ \A g \in Text : \A i \in registry[g] : EntryInv(g, i)

(* The locals of a handler stay, as the request it was sent does. *)
LEMMA LocalsStay ==
  ASSUME input' = input
  PROVE  /\ \A s : extractGatewaySessionID(s)' = extractGatewaySessionID(s)
         /\ \A s : extractStreamingOffering(s)' = extractStreamingOffering(s)
         /\ \A i : Owned(i)' <=> Owned(i)
<1>1. /\ \A s : extractGatewaySessionID(s)' = extractGatewaySessionID(s)
      /\ \A s : extractStreamingOffering(s)' = extractStreamingOffering(s)
  BY Zenon DEF extractGatewaySessionID, extractStreamingOffering, BodyField
<1>2. \A i : Owned(i)' <=> Owned(i)
  BY <1>1, Zenon DEF Owned
<1> QED
  BY <1>1, <1>2, Zenon

(* The invariant holds at first: nothing is written or registered. *)
LEMMA IdentityInit == Init => IdentityInv
<1> SUFFICES ASSUME Init PROVE IdentityInv
  OBVIOUS
<1>1. TypeInv
  <2>1. \A s \in Starts : input[s].hdr \in RequestHeaders
    BY IdentityAssumption DEF Init
  <2>2. header \in [Starts -> RequestHeaders]
    BY <2>1 DEF Init
  <2> QED
    BY <2>2 DEF Init, TypeInv
<1>2. \A s \in Starts : ~Written(s) /\ ~Served(s)
  BY DEF Init, Written, Served
<1>3. \A g \in Text : registry[g] = {}
  BY DEF Init
<1> QED
  BY <1>1, <1>2, <1>3 DEF IdentityInv

(* What the handler writes is what HeaderInv says, and the daemon's        *)
(* binding of any work id that has one stays.                              *)
LEMMA OpenAtDaemonFacts ==
  ASSUME IdentityInv, NEW s \in Starts, OpenAtDaemon(s)
  PROVE  /\ HeaderInv(s)'
         /\ \A w \in Works : daemon[w] # {} => daemon'[w] = daemon[w]
         /\ Rewritten(s) \in RequestHeaders
<1>1. /\ input[s] \in Inputs
      /\ input[s].payment \in Works
      /\ extractStreamingOffering(s) \in DOMAIN Route
      /\ extractGatewaySessionID(s) # Empty
      /\ header' = [header EXCEPT ![s] = Rewritten(s)]
      /\ daemon' = [daemon EXCEPT ![input[s].payment] = {Binding(s)}]
      /\ daemon[input[s].payment] \subseteq {Binding(s)}
      /\ input' = input
  BY DEF IdentityInv, TypeInv, OpenAtDaemon, Accepted, Bindable
<1>2. Binding(s) = BindingOf(extractStreamingOffering(s))
  BY DEF Binding, BindingOf
<1>3. /\ extractGatewaySessionID(s) \in Text
      /\ Trimmed(extractGatewaySessionID(s))
  BY <1>1, GatewayIDTrimmed
<1>4. /\ Rewritten(s).work = input[s].payment
      /\ Rewritten(s).worker = WorkerName[input[s].payment]
      /\ Rewritten(s).offering = extractStreamingOffering(s)
      /\ Rewritten(s).url = Route[extractStreamingOffering(s)].url
      /\ Rewritten(s).session = extractGatewaySessionID(s)
  BY DEF Rewritten, deriveWorkerSessionID
<1>5. Rewritten(s) \in RequestHeaders
  BY <1>1, <1>3, IdentityAssumption, TextAssumption
     DEF Rewritten, RequestHeaders, deriveWorkerSessionID
<1>6. header'[s] = Rewritten(s) /\ daemon'[input[s].payment] = {Binding(s)}
  BY <1>1 DEF IdentityInv, TypeInv
<1>7. HeaderInv(s)'
  BY <1>1, <1>2, <1>3, <1>4, <1>6, LocalsStay DEF HeaderInv, BindingOf, Trimmed
<1>8. ASSUME NEW w \in Works, daemon[w] # {}
      PROVE  daemon'[w] = daemon[w]
  BY <1>1, <1>8 DEF IdentityInv, TypeInv
<1> QED
  BY <1>5, <1>7, <1>8

(* Bindings that stay keep what the invariant says of them. *)
LEMMA BindingsStay ==
  ASSUME IdentityInv,
         \A w \in Works : daemon[w] # {} => daemon'[w] = daemon[w],
         registry' = registry, input' = input
  PROVE  \A g \in Text : \A i \in registry'[g] : EntryInv(g, i)'
<1> SUFFICES ASSUME NEW g \in Text, NEW i \in registry[g]
             PROVE  EntryInv(g, i)'
  OBVIOUS
<1>1. EntryInv(g, i)
  BY DEF IdentityInv
<1>2. daemon[i.work] # {}
  BY <1>1 DEF EntryInv
<1> QED
  BY <1>1, <1>2, LocalsStay DEF EntryInv, BindingOf

(* Steps of the start handler up to the answer keep the invariant. *)
LEMMA OpenStep ==
  ASSUME IdentityInv, NEW s \in Starts, OpenAtDaemon(s) \/ OpenFails(s)
  PROVE  IdentityInv'
<1> DEFINE rest == /\ input' = input /\ session' = session /\ registry' = registry
                   /\ header' = [header EXCEPT ![s] = Rewritten(s)]
                   /\ Accepted(s) /\ Bindable(s) /\ pc[s] = "request"
<1>1. rest
  BY DEF OpenAtDaemon, OpenFails
<1>2. \/ OpenAtDaemon(s)
      \/ pc' = [pc EXCEPT ![s] = "rejected"]
  BY DEF OpenFails, Goto
<1>3. pc' = [pc EXCEPT ![s] = "pay"] \/ pc' = [pc EXCEPT ![s] = "rejected"]
  BY <1>2 DEF OpenAtDaemon, Goto
<1>4. \A w \in Works : daemon[w] # {} => daemon'[w] = daemon[w]
  <2>1. \/ daemon' = daemon
        \/ daemon' = [daemon EXCEPT ![input[s].payment] = {Binding(s)}]
    BY DEF OpenAtDaemon, OpenFails
  <2>2. daemon[input[s].payment] \subseteq {Binding(s)}
    BY <1>1 DEF Bindable
  <2>3. DOMAIN daemon = Works
    BY DEF IdentityInv, TypeInv
  <2> QED
    BY <2>1, <2>2, <2>3
<1>5. Rewritten(s) \in RequestHeaders
  <2>1. /\ input[s] \in Inputs
        /\ input[s].payment \in Works
        /\ extractStreamingOffering(s) \in DOMAIN Route
    BY <1>1 DEF Accepted, IdentityInv, TypeInv
  <2>2. extractGatewaySessionID(s) \in Text
    BY <2>1, GatewayIDTrimmed
  <2> QED
    BY <2>1, <2>2, IdentityAssumption, TextAssumption
       DEF Rewritten, RequestHeaders, deriveWorkerSessionID
<1>6. TypeInv'
  <2>1. DOMAIN daemon' = Works
    BY DEF OpenAtDaemon, OpenFails, IdentityInv, TypeInv
  <2>2. header' \in [Starts -> RequestHeaders]
    BY <1>1, <1>5 DEF IdentityInv, TypeInv
  <2>3. pc' \in [Starts -> {"request", "pay", "rejected", "serve", "open",
                            "serving", "done"}]
    BY <1>3 DEF IdentityInv, TypeInv
  <2> QED
    BY <1>1, <2>1, <2>2, <2>3 DEF IdentityInv, TypeInv
<1>7. ASSUME NEW z \in Starts, Written(z)'
      PROVE  HeaderInv(z)'
  <2>1. CASE z = s
    <3>1. OpenAtDaemon(s)
      BY <1>2, <1>7, <2>1 DEF Written, IdentityInv, TypeInv
    <3> QED
      BY <2>1, <3>1, OpenAtDaemonFacts
  <2>2. CASE z # s
    <3>1. Written(z) /\ header'[z] = header[z]
      BY <1>1, <1>3, <1>7, <2>2 DEF Written, IdentityInv, TypeInv
    <3>2. HeaderInv(z)
      BY <3>1 DEF IdentityInv
    <3>3. daemon'[header[z].work] = daemon[header[z].work]
      BY <1>4, <3>2 DEF HeaderInv
    <3> QED
      BY <1>1, <3>1, <3>2, <3>3, LocalsStay DEF HeaderInv, BindingOf, Trimmed
  <2> QED
    BY <2>1, <2>2
<1>8. ASSUME NEW z \in Starts, Served(z)'
      PROVE  SessionInv(z)'
  <2>1. z # s /\ Served(z)
    BY <1>3, <1>8 DEF Served, IdentityInv, TypeInv
  <2> QED
    BY <1>1, <2>1 DEF SessionInv, IdentityInv, TypeInv
<1>9. \A g \in Text : \A i \in registry'[g] : EntryInv(g, i)'
  BY <1>1, <1>4, BindingsStay
<1> QED
  BY <1>6, <1>7, <1>8, <1>9 DEF IdentityInv

(* A step that only moves sessions onward or takes entries away. *)
LEMMA QuietStep ==
  ASSUME IdentityInv, TypeInv',
         UNCHANGED <<input, header, session, daemon>>,
         \A s \in Starts : Written(s)' => Written(s),
         \A s \in Starts : Served(s)' => Served(s),
         \A g \in Text : registry'[g] \subseteq registry[g]
  PROVE  IdentityInv'
<1>1. ASSUME NEW s \in Starts, Written(s)'
      PROVE  HeaderInv(s)'
  <2>1. HeaderInv(s)
    BY <1>1 DEF IdentityInv
  <2> QED
    BY <2>1, LocalsStay DEF HeaderInv, BindingOf, Trimmed
<1>2. ASSUME NEW s \in Starts, Served(s)'
      PROVE  SessionInv(s)'
  <2>1. SessionInv(s)
    BY <1>2 DEF IdentityInv
  <2> QED
    BY <2>1 DEF SessionInv
<1>3. ASSUME NEW g \in Text, NEW i \in registry'[g]
      PROVE  EntryInv(g, i)'
  <2>1. EntryInv(g, i)
    BY <1>3 DEF IdentityInv
  <2> QED
    BY <2>1, LocalsStay DEF EntryInv, BindingOf
<1> QED
  BY <1>1, <1>2, <1>3 DEF IdentityInv

(* Accept registers an entry that says what the headers say. *)
LEMMA AcceptStep ==
  ASSUME IdentityInv, NEW s \in Starts, Accept(s)
  PROVE  IdentityInv'
<1>1. /\ UNCHANGED <<input, header, session, daemon>>
      /\ pc[s] = "pay" /\ pc' = [pc EXCEPT ![s] = "serve"]
      /\ registry' = [registry EXCEPT ![Entry(s).id] = {Entry(s)}]
  BY DEF Accept, Goto
<1>2. HeaderInv(s)
  BY <1>1 DEF IdentityInv, Written
<1>e. ASSUME NEW e, e = Entry(s)
      PROVE  EntryInv(e.id, e)
  <2>1. /\ e.id = extractGatewaySessionID(s) /\ e.work = input[s].payment
        /\ e.worker = WorkerName[input[s].payment]
        /\ e.url = Route[extractStreamingOffering(s)].url
        /\ e = [id |-> e.id, worker |-> e.worker, work |-> e.work, url |-> e.url]
    BY <1>e DEF Entry, deriveWorkerSessionID
  <2>2. Owned(e)
    BY <2>1, Zenon DEF Owned
  <2> QED
    BY <1>2, <2>1, <2>2 DEF EntryInv, HeaderInv
<1>3. TypeInv'
  BY <1>1 DEF IdentityInv, TypeInv
<1>4. \A z \in Starts : Written(z)' => Written(z)
  BY <1>1 DEF Written, IdentityInv, TypeInv
<1>5. \A z \in Starts : Served(z)' => Served(z)
  BY <1>1 DEF Served, IdentityInv, TypeInv
<1>6. ASSUME NEW z \in Starts, Written(z)'
      PROVE  HeaderInv(z)'
  <2>1. HeaderInv(z)
    BY <1>4, <1>6 DEF IdentityInv
  <2> QED
    BY <1>1, <2>1, LocalsStay DEF HeaderInv, BindingOf, Trimmed
<1>7. ASSUME NEW z \in Starts, Served(z)'
      PROVE  SessionInv(z)'
  BY <1>1, <1>5, <1>7 DEF IdentityInv, SessionInv
<1>8. ASSUME NEW k \in Text, NEW i \in registry'[k]
      PROVE  EntryInv(k, i)'
  <2>1. EntryInv(k, i)
    <3>1. CASE k = Entry(s).id
      BY <1>1, <1>8, <1>e, <3>1 DEF IdentityInv, TypeInv
    <3>2. CASE k # Entry(s).id
      BY <1>1, <1>8, <3>2 DEF IdentityInv, TypeInv
    <3> QED
      BY <3>1, <3>2
  <2> QED
    BY <1>1, <2>1, LocalsStay DEF EntryInv, BindingOf
<1> QED
  BY <1>3, <1>6, <1>7, <1>8 DEF IdentityInv

(* Serve reads back what the handler wrote: no fallback is taken. *)
LEMMA ServeStep ==
  ASSUME IdentityInv, NEW s \in Starts, Serve(s)
  PROVE  IdentityInv'
<1>1. /\ UNCHANGED <<input, header, registry, daemon>>
      /\ pc[s] = "serve" /\ pc' = [pc EXCEPT ![s] = "open"]
  BY DEF Serve, Goto
<1>2. HeaderInv(s)
  BY <1>1 DEF IdentityInv, Written
<1>3. /\ extractSessionID(s) = header[s].session
      /\ extractWorkerSessionID(s, extractSessionID(s)) = header[s].worker
      /\ backendURLForRequest(header[s].url, BackendURL) = header[s].url
  BY <1>2, IdentityAssumption
     DEF HeaderInv, extractSessionID, extractWorkerSessionID,
         backendURLForRequest, Trimmed
<1>4. session' = [session EXCEPT ![s] =
                    [id |-> header[s].session, worker |-> header[s].worker,
                     work |-> header[s].work, url |-> header[s].url]]
  BY <1>3 DEF Serve
<1>5. TypeInv'
  BY <1>1, <1>4 DEF IdentityInv, TypeInv
<1>6. ASSUME NEW z \in Starts, Written(z)'
      PROVE  HeaderInv(z)'
  <2>1. Written(z)
    BY <1>1, <1>6 DEF Written, IdentityInv, TypeInv
  <2>2. HeaderInv(z)
    BY <2>1 DEF IdentityInv
  <2> QED
    BY <1>1, <2>2, LocalsStay DEF HeaderInv, BindingOf, Trimmed
<1>7. ASSUME NEW z \in Starts, Served(z)'
      PROVE  SessionInv(z)'
  <2>1. CASE z = s
    BY <1>1, <1>4, <2>1 DEF SessionInv, IdentityInv, TypeInv
  <2>2. CASE z # s
    <3>1. Served(z)
      BY <1>1, <1>7, <2>2 DEF Served, IdentityInv, TypeInv
    <3> QED
      BY <1>1, <1>4, <2>2, <3>1 DEF SessionInv, IdentityInv, TypeInv
  <2> QED
    BY <2>1, <2>2
<1>8. \A k \in Text : \A i \in registry'[k] : EntryInv(k, i)'
  BY <1>1, BindingsStay DEF IdentityInv, TypeInv
<1> QED
  BY <1>5, <1>6, <1>7, <1>8 DEF IdentityInv

(* Every step keeps the invariant. *)
LEMMA IdentityNext == IdentityInv /\ [Next]_vars => IdentityInv'
<1> SUFFICES ASSUME IdentityInv, [Next]_vars PROVE IdentityInv'
  OBVIOUS
<1>1. ASSUME NEW s \in Starts, Reject(s) \/ PaymentFails(s)
      PROVE  IdentityInv'
  <2>1. /\ UNCHANGED <<input, header, session, daemon, registry>>
        /\ pc' = [pc EXCEPT ![s] = "rejected"]
    BY <1>1 DEF Reject, PaymentFails, Goto
  <2>2. TypeInv' /\ \A z \in Starts : /\ Written(z)' => Written(z)
                                      /\ Served(z)' => Served(z)
    BY <2>1 DEF IdentityInv, TypeInv, Written, Served
  <2> QED
    BY <2>1, <2>2, QuietStep
<1>2. ASSUME NEW s \in Starts, OpenSession(s) \/ Return(s)
      PROVE  IdentityInv'
  <2>1. /\ UNCHANGED <<input, header, session, daemon>>
        /\ pc[s] \in {"open", "serving"}
        /\ \E l \in {"serving", "done"} : pc' = [pc EXCEPT ![s] = l]
        /\ \/ registry' = registry
           \/ registry' = [registry EXCEPT ![extractGatewaySessionID(s)] = {}]
    BY <1>2 DEF OpenSession, Return, Goto
  <2>2. TypeInv' /\ \A z \in Starts : /\ Written(z)' => Written(z)
                                      /\ Served(z)' => Served(z)
    BY <2>1 DEF IdentityInv, TypeInv, Written, Served
  <2>3. \A g \in Text : registry'[g] \subseteq registry[g]
    BY <2>1 DEF IdentityInv, TypeInv
  <2> QED
    BY <2>1, <2>2, <2>3, QuietStep
<1>3. ASSUME NEW e \in Ends,
             \/ EndNotFound(e) \/ EndLookup(e) \/ StopBackend(e)
             \/ StopFails(e) \/ EndSession(e) \/ CloseFails(e)
      PROVE  IdentityInv'
  <2>1. /\ UNCHANGED <<input, header, session, daemon, pc>>
        /\ \/ registry' = registry
           \/ registry' = [registry EXCEPT ![Trim[path[e]]] = {}]
    BY <1>3 DEF EndNotFound, EndLookup, StopBackend, StopFails, EndSession,
                CloseFails, startVars
  <2>2. TypeInv' /\ \A z \in Starts : /\ Written(z)' => Written(z)
                                      /\ Served(z)' => Served(z)
    BY <2>1 DEF IdentityInv, TypeInv, Written, Served
  <2>3. \A g \in Text : registry'[g] \subseteq registry[g]
    BY <2>1 DEF IdentityInv, TypeInv
  <2> QED
    BY <2>1, <2>2, <2>3, QuietStep
<1>4. ASSUME UNCHANGED vars PROVE IdentityInv'
  <2>1. UNCHANGED <<input, header, session, daemon, pc, registry>>
    BY <1>4 DEF vars, startVars
  <2>2. TypeInv' /\ \A z \in Starts : /\ Written(z)' => Written(z)
                                      /\ Served(z)' => Served(z)
    BY <2>1 DEF IdentityInv, TypeInv, Written, Served
  <2> QED
    BY <2>1, <2>2, QuietStep
<1> QED
  BY <1>1, <1>2, <1>3, <1>4, OpenStep, AcceptStep, ServeStep DEF Next

-----------------------------------------------------------------------------
(* What streamingMiddleware and Serve leave to later code always satisfies *)
(* the invariant.                                                          *)
THEOREM IdentityInvariant == Spec => []IdentityInv
<1> QED
  BY IdentityInit, IdentityNext, PTL DEF Spec

(* Whatever headers and body a gateway sends to the start handler, Serve   *)
(* charges the payment's work id, which the daemon has bound to an         *)
(* offering at its configured price, and uses that offering's backend.     *)
THEOREM PaidSession == Spec => []ServesWhatWasPaid
<1>1. IdentityInv => ServesWhatWasPaid
  <2> SUFFICES ASSUME IdentityInv, NEW s \in Starts, Served(s)
               PROVE  /\ session[s].work = input[s].payment
                      /\ \E b \in daemon[session[s].work] :
                           /\ b.price = Route[b.offering].price
                           /\ session[s].url = Route[b.offering].url
    BY DEF ServesWhatWasPaid
  <2>1. HeaderInv(s) /\ SessionInv(s)
    BY DEF IdentityInv, Written, Served
  <2>2. BindingOf(header[s].offering) \in daemon[session[s].work]
    BY <2>1 DEF HeaderInv, SessionInv
  <2> QED
    BY <2>1, <2>2 DEF HeaderInv, SessionInv, BindingOf
<1> QED
  BY <1>1, IdentityInvariant, PTL

(* An entry and a session with one work id have one backend: the daemon    *)
(* has bound the work id to one offering.                                  *)
LEMMA OneBackend ==
  ASSUME NEW s \in Starts, HeaderInv(s), SessionInv(s),
         NEW g \in Text, NEW i, EntryInv(g, i), i.work = session[s].work
  PROVE  i.url = session[s].url
<1>1. PICK o \in DOMAIN Route : daemon[i.work] = {BindingOf(o)} /\ i.url = Route[o].url
  BY DEF EntryInv
<1>2. i.work = header[s].work
  BY DEF SessionInv
<1>3. BindingOf(o) = BindingOf(header[s].offering)
  BY <1>1, <1>2 DEF HeaderInv
<1>4. o = header[s].offering
  BY <1>3 DEF BindingOf
<1> QED
  BY <1>1, <1>4 DEF HeaderInv, SessionInv

(* The id under which a session reports its events is the one its registry *)
(* entry is kept under, with the same worker id and backend, for every way *)
(* a gateway may name a session.                                           *)
THEOREM KnownSession == Spec => []KnownByItsEntry
<1>1. IdentityInv => KnownByItsEntry
  <2> SUFFICES ASSUME IdentityInv, NEW s \in Starts,
                      pc[s] \in {"open", "serving"}
               PROVE  /\ Trimmed(session[s].id) /\ session[s].id # Empty
                      /\ \A g \in Text : \A i \in registry[g] :
                           /\ i.work = session[s].work
                           /\ \/ g = session[s].id
                              \/ \A o \in Starts \ {s} :
                                   input[o].payment # input[s].payment
                           => i = session[s]
    BY DEF KnownByItsEntry
  <2>1. HeaderInv(s) /\ SessionInv(s)
    BY DEF IdentityInv, Written, Served
  <2>2. ASSUME NEW g \in Text, NEW i \in registry[g], i.work = session[s].work,
               \/ g = session[s].id
               \/ \A o \in Starts \ {s} : input[o].payment # input[s].payment
        PROVE  i = session[s]
    <3>1. EntryInv(g, i)
      BY <2>2 DEF IdentityInv
    <3>2. i.url = session[s].url
      BY <2>1, <2>2, <3>1, OneBackend
    <3>3. i.id = session[s].id
      <4>1. CASE g = session[s].id
        BY <3>1, <4>1, Zenon DEF EntryInv
      <4>2. CASE \A o \in Starts \ {s} : input[o].payment # input[s].payment
        <5>1. session[s].id = extractGatewaySessionID(s) /\ session[s].work = input[s].payment
          BY <2>1 DEF HeaderInv, SessionInv
        <5>2. PICK o \in Starts : input[o].payment = i.work /\ extractGatewaySessionID(o) = i.id
          BY <3>1, Zenon DEF EntryInv, Owned
        <5>3. o = s
          BY <2>2, <4>2, <5>1, <5>2, Zenon
        <5> QED
          BY <5>1, <5>2, <5>3, Zenon
      <4> QED
        BY <2>2, <4>1, <4>2, Zenon
    <3> QED
      BY <2>1, <2>2, <3>1, <3>2, <3>3 DEF EntryInv, HeaderInv, SessionInv
  <2>3. session[s].id = header[s].session
    BY <2>1 DEF SessionInv
  <2>4. Trimmed(session[s].id) /\ session[s].id # Empty
    BY <2>1, <2>3, Zenon DEF HeaderInv
  <2> QED
    BY <2>2, <2>4, Zenon
<1> QED
  BY <1>1, IdentityInvariant, PTL

-----------------------------------------------------------------------------
(* /end.  An entry it found may be gone from the registry when it stops    *)
(* the backend, and another may be there.  What the entry says stays true  *)
(* of the session it was made for.                                         *)
FoundInv ==
  /\ path \in [Ends -> PathIds] /\ DOMAIN found = Ends /\ DOMAIN epc = Ends
  /\ \A g \in Text : \A i, j \in registry[g] : i = j
  /\ \A s \in Starts : ~Served(s) => session[s] = NoSession
  /\ \A e \in Ends : /\ \A i \in found[e] : EntryInv(Trim[path[e]], i)
                     /\ \A i, j \in found[e] : i = j

(* No step takes the binding of a work id away or changes it. *)
LEMMA DaemonKeeps ==
  ASSUME IdentityInv, [Next]_vars
  PROVE  \A w \in Works : daemon[w] # {} => daemon'[w] = daemon[w]
<1>1. ASSUME NEW s \in Starts, OpenAtDaemon(s) \/ OpenFails(s)
      PROVE  \A w \in Works : daemon[w] # {} => daemon'[w] = daemon[w]
  <2>1. \/ daemon' = daemon
        \/ daemon' = [daemon EXCEPT ![input[s].payment] = {Binding(s)}]
    BY <1>1, Zenon DEF OpenAtDaemon, OpenFails
  <2>2. daemon[input[s].payment] \subseteq {Binding(s)} /\ DOMAIN daemon = Works
    BY <1>1, Zenon DEF OpenAtDaemon, OpenFails, Bindable, IdentityInv, TypeInv
  <2> QED
    BY <2>1, <2>2
<1>2. ASSUME daemon' = daemon
      PROVE  \A w \in Works : daemon[w] # {} => daemon'[w] = daemon[w]
  BY <1>2
<1> QED
  BY <1>1, <1>2, Zenon
     DEF Next, vars, Reject, PaymentFails, Accept, Serve, OpenSession, Return, EndNotFound,
         EndLookup, StopBackend, StopFails, EndSession, CloseFails

(* An entry the daemon's bindings made true stays true. *)
LEMMA EntryStays ==
  ASSUME IdentityInv, [Next]_vars, NEW g \in Text, NEW i, EntryInv(g, i)
  PROVE  EntryInv(g, i)'
<1>1. daemon[i.work] # {} /\ i.work \in Works
  BY Zenon DEF EntryInv
<1>2. daemon'[i.work] = daemon[i.work]
  BY <1>1, DaemonKeeps, Zenon
<1>3. input' = input
  BY Zenon
     DEF Next, vars, startVars, Reject, OpenAtDaemon, OpenFails, PaymentFails, Accept,
         Serve, OpenSession, Return, EndNotFound, EndLookup, StopBackend, StopFails,
         EndSession, CloseFails
<1> QED
  BY <1>2, <1>3, LocalsStay, Zenon DEF EntryInv, BindingOf

(* What /end found and what is registered keep to FoundInv. *)
LEMMA FoundStep ==
  ASSUME IdentityInv, FoundInv, [Next]_vars
  PROVE  FoundInv'
<1>a. /\ DOMAIN registry = Text /\ DOMAIN session = Starts /\ DOMAIN pc = Starts
      /\ DOMAIN found = Ends /\ DOMAIN epc = Ends
  BY Zenon DEF IdentityInv, TypeInv, FoundInv
<1>b. \A e \in Ends : Trim[path[e]] \in Text
  BY TextAssumption, IdentityAssumption DEF FoundInv
<1>1. path' = path
  BY Zenon
     DEF Next, vars, startVars, endVars, Reject, OpenAtDaemon, OpenFails, PaymentFails,
         Accept, Serve, OpenSession, Return, EndNotFound, EndLookup, StopBackend,
         StopFails, EndSession, CloseFails
<1>2. \A g \in Text : \A i, j \in registry'[g] : i = j
  <2>1. ASSUME NEW h, NEW x, registry' = [registry EXCEPT ![h] = {x}]
        PROVE  \A g \in Text : \A i, j \in registry'[g] : i = j
    BY <1>a, <2>1 DEF FoundInv
  <2>2. ASSUME NEW h, registry' = [registry EXCEPT ![h] = {}]
        PROVE  \A g \in Text : \A i, j \in registry'[g] : i = j
    BY <1>a, <2>2 DEF FoundInv
  <2>3. ASSUME registry' = registry
        PROVE  \A g \in Text : \A i, j \in registry'[g] : i = j
    BY <2>3, Zenon DEF FoundInv
  <2> QED
    BY <2>1, <2>2, <2>3, Zenon
       DEF Next, vars, startVars, Reject, OpenAtDaemon, OpenFails, PaymentFails, Accept,
           Serve, OpenSession, Return, EndNotFound, EndLookup, StopBackend, StopFails,
           EndSession, CloseFails
<1>3. \A s \in Starts : ~Served(s)' => session'[s] = NoSession
  <2>1. ASSUME NEW s \in Starts, Serve(s)
        PROVE  \A z \in Starts : ~Served(z)' => session'[z] = NoSession
    <3>1. /\ \A z \in Starts \ {s} : pc'[z] = pc[z] /\ session'[z] = session[z]
          /\ pc'[s] = "open"
      BY <1>a, <2>1, Zenon DEF Serve, Goto
    <3> QED
      BY <3>1, Zenon DEF Served, FoundInv
  <2>2. ASSUME NEW s \in Starts,
               \/ Reject(s) \/ OpenAtDaemon(s) \/ OpenFails(s) \/ PaymentFails(s)
               \/ Accept(s) \/ OpenSession(s) \/ Return(s)
        PROVE  \A z \in Starts : ~Served(z)' => session'[z] = NoSession
    <3>1. /\ \A z \in Starts \ {s} : pc'[z] = pc[z]
          /\ session' = session /\ (Served(s) => Served(s)')
      BY <1>a, <2>2, Zenon
         DEF Reject, OpenAtDaemon, OpenFails, PaymentFails, Accept, OpenSession, Return,
             Goto, Served
    <3> QED
      BY <3>1, Zenon DEF Served, FoundInv
  <2>3. ASSUME UNCHANGED startVars
        PROVE  \A z \in Starts : ~Served(z)' => session'[z] = NoSession
    BY <2>3, Zenon DEF startVars, Served, FoundInv
  <2> QED
    BY <2>1, <2>2, <2>3, Zenon
       DEF Next, vars, EndNotFound, EndLookup, StopBackend, StopFails, EndSession,
           CloseFails
<1>4. /\ DOMAIN found' = Ends /\ DOMAIN epc' = Ends
      /\ \/ found' = found
         \/ \E e \in Ends : found' = [found EXCEPT ![e] = registry[Trim[path[e]]]]
  BY <1>a, Zenon
     DEF Next, vars, endVars, Reject, OpenAtDaemon, OpenFails, PaymentFails, Accept, Serve,
         OpenSession, Return, EndNotFound, EndLookup, StopBackend, StopFails, EndSession,
         CloseFails, GotoEnd
<1>5. \A e \in Ends : found'[e] = found[e] \/ found'[e] = registry[Trim[path[e]]]
  BY <1>a, <1>4
<1>6. ASSUME NEW e \in Ends
      PROVE  /\ \A i \in found'[e] : EntryInv(Trim[path[e]], i)'
             /\ \A i, j \in found'[e] : i = j
  <2>1. /\ \A i \in found'[e] : EntryInv(Trim[path[e]], i)
        /\ \A i, j \in found'[e] : i = j
    <3>1. CASE found'[e] = found[e]
      BY <3>1, Zenon DEF FoundInv
    <3>2. CASE found'[e] = registry[Trim[path[e]]]
      BY <1>b, <3>2, SMTT(30) DEF FoundInv, IdentityInv
    <3> QED
      BY <1>5, <3>1, <3>2, Zenon
  <2>2. ASSUME NEW g \in Text, g = Trim[path[e]], NEW i \in found'[e]
        PROVE  EntryInv(g, i)'
    BY <2>1, <2>2, EntryStays, Zenon
  <2> QED
    BY <1>1, <1>b, <2>1, <2>2, Zenon DEF EntryInv
<1> QED
  BY <1>1, <1>2, <1>3, <1>4, <1>6, Zenon DEF FoundInv

(* What Init writes satisfies FoundInv. *)
LEMMA FoundInit == Init => FoundInv
<1> SUFFICES ASSUME Init PROVE FoundInv
  OBVIOUS
<1>1. \A e \in Ends : found[e] = {}
  BY DEF Init
<1>2. \A g \in Text : registry[g] = {}
  BY DEF Init
<1>3. \A s \in Starts : session[s] = NoSession
  BY Zenon DEF Init
<1>4. path \in [Ends -> PathIds] /\ DOMAIN found = Ends /\ DOMAIN epc = Ends
  BY DEF Init
<1> QED
  BY <1>1, <1>2, <1>3, <1>4, Zenon DEF FoundInv

(* What /end found is true of the session it found it for, however the     *)
(* registry has changed since the lookup.                                  *)
THEOREM FoundInvariant == Spec => []FoundInv
<1> QED
  BY FoundInit, FoundStep, IdentityInvariant, PTL DEF Spec

(* Where the ids of /end paths need no escaping, /end stops the session it *)
(* found at that session's own backend, even when the entry was removed or *)
(* replaced between the lookup and the stop.                               *)
THEOREM EndAlwaysTearsDown ==
  (\A p \in PathIds : PathEscape[Trim[p]] = Trim[p]) => (Spec => StopTearsDown)
<1> SUFFICES ASSUME \A p \in PathIds : PathEscape[Trim[p]] = Trim[p]
             PROVE  Spec => StopTearsDown
  OBVIOUS
<1>1. ASSUME IdentityInv, FoundInv, [Next]_vars, NEW e \in Ends, NEW s \in Starts,
             epc[e] = "stop", epc'[e] = "close", FoundBy(e, s),
             input[s].body.session = session[s].id
      PROVE  <<session[s].url, input[s].body.session>> \notin rendering'
  <2>1. PICK i \in found[e] : i.id = session[s].id /\ i.work = session[s].work
    BY <1>1, Zenon DEF FoundBy
  <2>2. path[e] \in PathIds /\ Trim[path[e]] \in Text
    BY <1>1, TextAssumption, IdentityAssumption DEF FoundInv
  <2>3. EntryInv(Trim[path[e]], i)
    BY <1>1, Zenon DEF FoundInv
  <2>4. Served(s)
    <3>1. i.work \in Works /\ i.work # Empty
      BY <2>3, IdentityAssumption DEF EntryInv
    <3>2. NoSession.work = Empty
      BY DEF NoSession
    <3> QED
      BY <1>1, <2>1, <3>1, <3>2, Zenon DEF FoundInv
  <2>5. HeaderInv(s) /\ SessionInv(s)
    BY <1>1, <2>4 DEF IdentityInv, Written, Served
  <2>6. i.url = session[s].url
    BY <2>1, <2>2, <2>3, <2>5, OneBackend
  <2>7. i.id = Trim[path[e]]
    BY <2>3, Zenon DEF EntryInv
  <2>8. StopBackend(e)
    <3>1. ASSUME epc' = epc
          PROVE  FALSE
      BY <1>1, <3>1
    <3>2. ASSUME NEW x \in Ends, NEW l, epc' = [epc EXCEPT ![x] = l],
                 epc[x] # "stop" \/ l # "close"
          PROVE  FALSE
      BY <1>1, <3>2 DEF FoundInv
    <3>3. ASSUME NEW x \in Ends, epc' = [epc EXCEPT ![x] = "close"]
          PROVE  x = e
      BY <1>1, <3>3 DEF FoundInv
    <3>4. ASSUME NEW x \in Ends,
                 EndNotFound(x) \/ EndLookup(x) \/ StopFails(x) \/ EndSession(x)
                   \/ CloseFails(x)
          PROVE  FALSE
      BY <3>2, <3>4, Zenon
         DEF EndNotFound, EndLookup, StopFails, EndSession, CloseFails, GotoEnd
    <3>5. ASSUME NEW x \in Ends, StopBackend(x)
          PROVE  StopBackend(e)
      BY <3>3, <3>5, Zenon DEF StopBackend, GotoEnd
    <3> QED
      BY <1>1, <3>1, <3>4, <3>5, Zenon
         DEF Next, vars, endVars, Reject, OpenAtDaemon, OpenFails, PaymentFails, Accept,
             Serve, OpenSession, Return
  <2>9. PICK j \in found[e] : rendering' = rendering \ {sessionStopURL(j.url, Trim[path[e]])}
    BY <2>8, Zenon DEF StopBackend
  <2>10. j = i
    BY <1>1, Zenon DEF FoundInv
  <2>11. sessionStopURL(i.url, Trim[path[e]]) = <<session[s].url, input[s].body.session>>
    BY <1>1, <2>1, <2>2, <2>6, <2>7 DEF sessionStopURL
  <2> QED
    BY <2>9, <2>10, <2>11
<1>2. ASSUME IdentityInv, FoundInv, [Next]_vars
      PROVE  [\A e \in Ends, s \in Starts :
                /\ epc[e] = "stop" /\ epc'[e] = "close" /\ FoundBy(e, s)
                /\ input[s].body.session = session[s].id
                => <<session[s].url, input[s].body.session>> \notin rendering']_vars
  BY <1>1, <1>2, Zenon
<1> QED
  BY <1>2, IdentityInvariant, FoundInvariant, PTL DEF Spec, StopTearsDown
=============================================================================
