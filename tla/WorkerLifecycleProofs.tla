----------------------- MODULE WorkerLifecycleProofs ------------------------
(***************************************************************************)
(* What a worker that serves has checked, and what its exit code means,    *)
(* for every configuration, daemon catalog and interleaving of goroutines. *)
(***************************************************************************)
EXTENDS WorkerLifecycle, TLAPS

(* The positions of a sequence. *)
LEMMA SeqDomain ==
  ASSUME NEW s, IsSeq(s)
  PROVE  Len(s) \in Nat /\ DOMAIN s = 1..Len(s)
<1>1. \A S : s \in Seq(S) => Len(s) \in Nat /\ DOMAIN s = 1..Len(s)
  OBVIOUS
<1> DEFINE S == {s[i] : i \in DOMAIN s}
<1>2. s \in Seq(S)
  BY DEF IsSeq
<1> HIDE DEF S
<1> QED
  BY <1>1, <1>2

(* In a catalog validate accepted, Lookup finds the row it is asked for:   *)
(* no other row has the key, so none overwrote it.                         *)
LEMMA LookupFinds ==
  ASSUME NEW cs, validateCapabilities(cs), IsSeq(cs),
         \A i \in DOMAIN cs : IsSeq(cs[i].offerings),
         NEW i \in DOMAIN cs, NEW j \in DOMAIN cs[i].offerings
  PROVE  Lookup(cs, cs[i].capability, cs[i].offerings[j].id)
           = [workUnit |-> cs[i].workUnit, price |-> cs[i].offerings[j].price]
<1> DEFINE rowsOf(c, o) ==
             UNION {{<<a, b>> : b \in {k \in DOMAIN cs[a].offerings :
                                         cs[a].offerings[k].id = o}} :
                    a \in {k \in DOMAIN cs : cs[k].capability = c}}
           rows == rowsOf(cs[i].capability, cs[i].offerings[j].id)
           last == CHOOSE r \in rows :
                     \A q \in rows : q[1] < r[1] \/ (q[1] = r[1] /\ q[2] <= r[2])
<1>1. i \in Nat /\ j \in Nat
  BY SeqDomain
<1>2. {k \in DOMAIN cs : cs[k].capability = cs[i].capability} = {i}
  BY DEF validateCapabilities
<1>3. {k \in DOMAIN cs[i].offerings :
         cs[i].offerings[k].id = cs[i].offerings[j].id} = {j}
  BY DEF validateCapabilities, validateCapability
<1>4. rows = {<<i, j>>}
  BY <1>2, <1>3
<1>5. Lookup(cs, cs[i].capability, cs[i].offerings[j].id)
        = IF rows = {} THEN NoRoute
          ELSE [workUnit |-> cs[last[1]].workUnit,
                price |-> cs[last[1]].offerings[last[2]].price]
  BY DEF Lookup
<1> HIDE DEF rows
<1>6. last = <<i, j>>
  <2>1. \A q \in rows : q[1] < <<i, j>>[1] \/ (q[1] = <<i, j>>[1] /\ q[2] <= <<i, j>>[2])
    BY <1>1, <1>4
  <2> QED
    BY <1>4, <2>1
<1> HIDE DEF last
<1>7. last[1] = i /\ last[2] = j /\ rows # {}
  BY <1>4, <1>6
<1> QED
  BY <1>5, <1>7

-----------------------------------------------------------------------------
(* Startup. *)

Up == {"start", "select", "shutdown", "joinMetrics", "joinServer"}

(* What each point of run has behind it. *)
ConfigInv ==
  /\ doc \in Documents
  /\ pc \in {"dial", "verify", "register"} \cup Up => validate(doc)
  /\ pc \in {"register"} \cup Up /\ verifyOnStart =>
       daemon \in DaemonCatalogs /\ VerifyDaemonCatalog(caps, daemon)
  /\ pc \in Up => /\ registrable = DOMAIN caps
                  /\ paidCapabilities = {caps[i].capability : i \in DOMAIN caps}
                  /\ SessionRoutes \subseteq registered
  /\ pc # "panicked"

(* The serving points, which nothing after startup leaves but to exit. *)
LEMMA ServingUp == Serving <=> pc \in Up \ {"start"}
BY DEF Serving, Up

(* Once the servers are started no step touches the configuration. *)
LEMMA ConfigKept ==
  ASSUME ConfigInv, UNCHANGED configVars,
         pc' = pc \/ pc' = "exited" \/ (pc \in Up /\ pc' \in Up)
  PROVE  ConfigInv'
BY DEF ConfigInv, configVars, caps, verifyOnStart, registrable, Up

(* The goroutines of the servers leave main and the configuration alone.   *)
LEMMA GoroutinesKeepMain ==
  ASSUME Start \/ ListenerServe \/ Stop \/ srvServe \/ Signal
  PROVE  UNCHANGED <<configVars, pc, exit>>
BY DEF Start, ListenerServe, Stop, srvServe, Signal, HttpServe, HttpReturns,
       ListenerBinds, ListenerBindFails, ListenerStopped, ListenerReturns,
       StopBegins, StopEnds, MetricsServe, MetricsReturns

(* The invariant of startup is inductive. *)
LEMMA ConfigNext == ConfigInv /\ [Next]_vars => ConfigInv'
<1> SUFFICES ASSUME ConfigInv, [Next]_vars PROVE ConfigInv'
  OBVIOUS
<1>1. CASE \/ BadFlags \/ ListCapabilitiesFails \/ StartServers
           \/ ServerExits \/ ListenerExits \/ ShutdownBegins \/ ShutdownFails
           \/ ShutdownDrained \/ JoinMetrics \/ JoinServer
  <2>1. UNCHANGED configVars
    BY <1>1 DEF BadFlags, ListCapabilitiesFails, StartServers, ServerExits,
         ListenerExits, ShutdownBegins, ShutdownFails, ShutdownDrained,
         JoinMetrics, JoinServer
  <2>2. pc' = "exited" \/ (pc \in Up /\ pc' \in Up)
    BY <1>1 DEF BadFlags, ListCapabilitiesFails, StartServers, ServerExits,
         ListenerExits, ShutdownBegins, ShutdownFails, ShutdownDrained,
         JoinMetrics, JoinServer, Return, Goto, Up
  <2> QED
    BY <2>1, <2>2, ConfigKept
<1>2. CASE \E p \in Ports : Flags(p)
  <2>1. UNCHANGED configVars /\ pc' = "load"
    BY <1>2 DEF Flags, Goto
  <2> QED
    BY <2>1 DEF ConfigInv, configVars, Up
<1>3. CASE Load
  <2>1. /\ UNCHANGED configVars
        /\ pc' = "exited" \/ (pc' = "dial" /\ validate(doc))
    BY <1>3 DEF Load, Goto, Return
  <2> QED
    BY <2>1 DEF ConfigInv, configVars, Up
<1>4. CASE Dial
  <2>1. /\ UNCHANGED configVars /\ pc = "dial"
        /\ \/ pc' = "exited"
           \/ pc' = "verify"
           \/ pc' = "register" /\ ~verifyOnStart
    BY <1>4 DEF Dial, Goto, Return
  <2> QED
    BY <2>1 DEF ConfigInv, configVars, Up, verifyOnStart
<1>5. CASE Verify
  <2>1. /\ doc' = doc /\ pc = "verify"
        /\ \/ pc' = "exited"
           \/ /\ pc' = "register" /\ daemon' \in DaemonCatalogs
              /\ VerifyDaemonCatalog(caps, daemon')
    BY <1>5 DEF Verify, Goto, Return
  <2>2. VerifyDaemonCatalog(caps, daemon)' <=> VerifyDaemonCatalog(caps, daemon')
    BY <2>1 DEF VerifyDaemonCatalog, sameOfferings, priceInfoToWeiString, caps
  <2> QED
    BY <2>1, <2>2 DEF ConfigInv, Up
<1>6. CASE Register
  <2>1. validate(doc) /\ pc = "register"
    BY <1>6 DEF Register, ConfigInv
  <2>2. ~DuplicateRoute
    BY <2>1 DEF DuplicateRoute, registrable, validate, validateCapabilities, caps
  <2>3. /\ doc' = doc /\ daemon' = daemon
        /\ \/ pc' = "exited"
           \/ /\ pc' = "start" /\ registrable = DOMAIN caps /\ registrable # {}
              /\ paidCapabilities' = {caps[i].capability : i \in registrable}
              /\ SessionRoutes \subseteq registered'
    BY <1>6, <2>2 DEF Register, Goto, Return
  <2> QED
    BY <2>1, <2>3 DEF ConfigInv, Up, caps, verifyOnStart, registrable
<1>7. CASE Start \/ ListenerServe \/ Stop \/ srvServe \/ Signal
  BY <1>7, GoroutinesKeepMain, ConfigKept
<1>8. CASE UNCHANGED vars
  BY <1>8, ConfigKept DEF vars
<1> QED
  BY <1>1, <1>2, <1>3, <1>4, <1>5, <1>6, <1>7, <1>8 DEF Next, run

(* A worker past startup has validated, verified and registered. *)
THEOREM ConfigInvariant == Spec => []ConfigInv
<1>1. Init => ConfigInv
  BY DEF Init, ConfigInv, Up
<1> QED
  BY <1>1, ConfigNext, PTL DEF Spec

RowAt(cs, i, j) ==
  [capability |-> cs[i].capability, workUnit |-> cs[i].workUnit,
   id |-> cs[i].offerings[j].id, price |-> cs[i].offerings[j].price]

(* A row of /registry/offerings is a row of the catalog. *)
LEMMA AdvertisedRow ==
  ASSUME NEW cs, NEW r \in registryOfferings(cs)
  PROVE  \E i \in DOMAIN cs : \E j \in DOMAIN cs[i].offerings : r = RowAt(cs, i, j)
BY DEF registryOfferings, RowAt

(* validate and missingCapabilityModules together leave no capability      *)
(* without its module and its routes, and no route registered twice.       *)
THEOREM CapabilitiesBacked == Spec => []EveryCapabilityBacked
<1>1. ConfigInv => EveryCapabilityBacked
  BY ServingUp DEF ConfigInv, EveryCapabilityBacked
<1> QED
  BY <1>1, ConfigInvariant, PTL

(* The route table requests are charged from is what /registry/offerings   *)
(* says, for every catalog validate accepts.                               *)
THEOREM AdvertisedAlwaysCharged == Spec => []AdvertisedIsCharged
<1>1. ASSUME ConfigInv, Serving PROVE AdvertisedIsCharged
  <2>1. /\ validateCapabilities(caps) /\ IsSeq(caps)
        /\ \A i \in DOMAIN caps : IsSeq(caps[i].offerings)
    BY <1>1, ServingUp, ProcessAssumption DEF ConfigInv, validate, caps
  <2> SUFFICES ASSUME NEW r \in registryOfferings(caps)
               PROVE  Lookup(caps, r.capability, r.id)
                        = [workUnit |-> r.workUnit, price |-> r.price]
    BY DEF AdvertisedIsCharged
  <2>a. PICK i \in DOMAIN caps :
          \E j \in DOMAIN caps[i].offerings : r = RowAt(caps, i, j)
    BY AdvertisedRow
  <2>2. PICK j \in DOMAIN caps[i].offerings : r = RowAt(caps, i, j)
    BY <2>a
  <2>3. Lookup(caps, caps[i].capability, caps[i].offerings[j].id)
          = [workUnit |-> caps[i].workUnit, price |-> caps[i].offerings[j].price]
    BY <2>1, LookupFinds
  <2> QED
    BY <2>2, <2>3 DEF RowAt
<1>2. ConfigInv => AdvertisedIsCharged
  BY <1>1 DEF AdvertisedIsCharged
<1> QED
  BY <1>2, ConfigInvariant, PTL

(* What sessions and routes assume of their configuration holds of every   *)
(* configuration validate accepts, with the defaults of withDefaults.      *)
THEOREM AssumptionsAlwaysMet == Spec => []AssumptionsMet
<1>1. ASSUME ConfigInv, Serving PROVE AssumptionsMet
  <2>1. /\ doc.worker.maxConcurrent > 0 /\ validateCapabilities(caps)
        /\ \A i \in DOMAIN caps : IsSeq(caps[i].offerings)
    BY <1>1, ServingUp, ProcessAssumption
       DEF ConfigInv, validate, validateWorker, caps
  <2>2. ASSUME NEW i \in DOMAIN caps
        PROVE  LET m == moduleConfig(caps[i])
               IN  m.cadence > 0 /\ m.runway > 0 /\ m.grace > 0 /\ m.url # ""
    <3>1. caps[i].offerings # <<>> /\ IsSeq(caps[i].offerings)
      BY <2>1, <2>2 DEF validateCapabilities, validateCapability
    <3>2. 1 \in DOMAIN caps[i].offerings
      <4>1. \A S : \A s \in Seq(S) : s # <<>> => 1 \in DOMAIN s
        OBVIOUS
      <4> DEFINE S == {caps[i].offerings[j] : j \in DOMAIN caps[i].offerings}
      <4>2. caps[i].offerings \in Seq(S)
        BY <3>1 DEF IsSeq
      <4> HIDE DEF S
      <4> QED
        BY <3>1, <4>1, <4>2
    <3>3. caps[i].offerings[1].url # ""
      BY <2>1, <3>2 DEF validateCapabilities, validateCapability, validateOffering
    <3>4. Default.cadence > 0 /\ Default.runway > 0 /\ Default.grace > 0
      BY CatalogAssumption
    <3>5. \A sec, d : d > 0 => override(sec, d) > 0
      BY DEF override
    <3> QED
      BY <3>3, <3>4, <3>5 DEF moduleConfig
  <2>3. ASSUME NEW r \in registryOfferings(caps) PROVE r.price > 0
    <3>a. PICK i \in DOMAIN caps :
            \E j \in DOMAIN caps[i].offerings : r = RowAt(caps, i, j)
      BY AdvertisedRow
    <3>1. PICK j \in DOMAIN caps[i].offerings : r = RowAt(caps, i, j)
      BY <3>a
    <3>2. caps[i].offerings[j].price > 0
      BY <2>1 DEF validateCapabilities, validateCapability, validateOffering
    <3> QED
      BY <3>1, <3>2 DEF RowAt
  <2> QED
    BY <2>1, <2>2, <2>3 DEF AssumptionsMet
<1>2. ConfigInv => AssumptionsMet
  BY <1>1 DEF AssumptionsMet
<1> QED
  BY <1>2, ConfigInvariant, PTL

(* "For worker-node pricing pixelsPerUnit is always 1" (grpc.go). *)
WholeWei ==
  \A d \in DaemonCatalogs : \A i \in DOMAIN d : \A j \in DOMAIN d[i].offerings :
    d[i].offerings[j].scale = 1

(* A worker that verified its catalog charges each offering as the daemon  *)
(* does, if the daemon states its prices in whole wei as it does today:    *)
(* the division in priceInfoToWeiString is exact then.                     *)
THEOREM CatalogAgrees == WholeWei /\ Spec => []ServesDaemonCatalog
<1>1. ASSUME WholeWei, ConfigInv, Serving, verifyOnStart PROVE ServesDaemonCatalog
  <2>1. /\ validateCapabilities(caps) /\ IsSeq(caps)
        /\ \A i \in DOMAIN caps : /\ IsSeq(caps[i].offerings)
                                  /\ \A j \in DOMAIN caps[i].offerings :
                                       caps[i].offerings[j].price \in Int
    BY <1>1, ServingUp, ProcessAssumption DEF ConfigInv, validate, caps
  <2>2. /\ daemon \in DaemonCatalogs /\ VerifyDaemonCatalog(caps, daemon)
        /\ IsSeq(daemon) /\ \A i \in DOMAIN daemon : IsSeq(daemon[i].offerings)
    BY <1>1, ServingUp, ProcessAssumption DEF ConfigInv
  <2>3. DOMAIN caps = DOMAIN daemon
    BY <2>1, <2>2, SeqDomain DEF VerifyDaemonCatalog
  <2>4. ASSUME NEW i \in DOMAIN caps
        PROVE  DOMAIN caps[i].offerings = DOMAIN daemon[i].offerings
    <3>1. Len(caps[i].offerings) = Len(daemon[i].offerings)
      BY <2>2, <2>4 DEF VerifyDaemonCatalog, sameOfferings
    <3>2. IsSeq(caps[i].offerings) /\ IsSeq(daemon[i].offerings)
      BY <2>1, <2>2, <2>3, <2>4
    <3> QED
      BY <3>1, <3>2, SeqDomain
  <2>5. ASSUME NEW i \in DOMAIN caps, NEW j \in DOMAIN caps[i].offerings
        PROVE  /\ daemon[i].capability = caps[i].capability
               /\ daemon[i].workUnit = caps[i].workUnit
               /\ daemon[i].offerings[j].id = caps[i].offerings[j].id
               /\ daemon[i].offerings[j].perUnit = caps[i].offerings[j].price
               /\ daemon[i].offerings[j].scale = 1
    <3>1. /\ caps[i].capability = daemon[i].capability
          /\ caps[i].workUnit = daemon[i].workUnit
          /\ caps[i].offerings[j].id = daemon[i].offerings[j].id
          /\ caps[i].offerings[j].price
               = priceInfoToWeiString(daemon[i].offerings[j])
      BY <2>2, <2>5 DEF VerifyDaemonCatalog, sameOfferings
    <3>2. /\ daemon[i].offerings[j].scale = 1
          /\ daemon[i].offerings[j].perUnit \in Int
      BY <1>1, <2>2, <2>3, <2>4, <2>5, ProcessAssumption DEF WholeWei
    <3>3. \A n \in Int : n \div 1 = n
      OBVIOUS
    <3> QED
      BY <3>1, <3>2, <3>3 DEF priceInfoToWeiString
  <2>6. ASSUME NEW i \in DOMAIN daemon, NEW j \in DOMAIN daemon[i].offerings
        PROVE  LET o == daemon[i].offerings[j]
                   r == Lookup(caps, daemon[i].capability, o.id)
               IN  /\ r # NoRoute /\ r.workUnit = daemon[i].workUnit
                   /\ r.price * o.scale = o.perUnit
    <3>1. i \in DOMAIN caps /\ j \in DOMAIN caps[i].offerings
      BY <2>3, <2>4, <2>6
    <3> DEFINE o == daemon[i].offerings[j]
               r == Lookup(caps, daemon[i].capability, o.id)
    <3>2. r = [workUnit |-> caps[i].workUnit, price |-> caps[i].offerings[j].price]
      <4>1. Lookup(caps, caps[i].capability, caps[i].offerings[j].id)
              = [workUnit |-> caps[i].workUnit, price |-> caps[i].offerings[j].price]
        BY <2>1, <3>1, LookupFinds
      <4>2. daemon[i].capability = caps[i].capability /\ o.id = caps[i].offerings[j].id
        BY <2>5, <3>1
      <4> QED
        BY <4>1, <4>2
    <3>3. caps[i].workUnit \in knownWorkUnits /\ caps[i].offerings[j].price \in Int
      BY <2>1, <3>1 DEF validateCapabilities, validateCapability
    <3>4. r # NoRoute
      BY <3>2, <3>3, ProcessAssumption
    <3>5. r.workUnit = daemon[i].workUnit /\ r.price = o.perUnit /\ o.scale = 1
      BY <2>5, <3>1, <3>2
    <3>6. r.price * o.scale = o.perUnit
      BY <3>2, <3>3, <3>5
    <3> QED
      BY <3>4, <3>5, <3>6
  <2>7. ASSUME NEW r \in registryOfferings(caps)
        PROVE  \E i \in DOMAIN daemon : \E j \in DOMAIN daemon[i].offerings :
                 /\ daemon[i].capability = r.capability
                 /\ daemon[i].offerings[j].id = r.id
    <3>a. PICK i \in DOMAIN caps :
            \E j \in DOMAIN caps[i].offerings : r = RowAt(caps, i, j)
      BY AdvertisedRow
    <3>1. PICK j \in DOMAIN caps[i].offerings : r = RowAt(caps, i, j)
      BY <3>a
    <3> QED
      BY <2>3, <2>4, <2>5, <3>1 DEF RowAt
  <2> QED
    BY <2>6, <2>7 DEF ServesDaemonCatalog
<1>2. WholeWei /\ ConfigInv => ServesDaemonCatalog
  BY <1>1 DEF ServesDaemonCatalog
<1>3. CASE WholeWei
  BY <1>2, <1>3, ConfigInvariant, PTL
<1> QED
  BY <1>3

-----------------------------------------------------------------------------
(* Shutdown.  CleanExit is about the last step only; that it holds there   *)
(* rests on what each channel's content says of the goroutine that sent    *)
(* it, and on a server returning without an error only when barred.        *)
Startup == {"flags", "load", "dial", "verify", "register", "start"}
Closing == {"shutdown", "joinMetrics", "joinServer"}

ShutdownInv ==
  /\ (exit = NoCode) = (pc # "exited")
  /\ {serverErr, stopErr, metricsErr} \subseteq Channel
  /\ httpDown => pc \in Closing \cup {"exited"} /\ signalled
  /\ pc \in Closing => httpDown
  /\ pc \in Startup => httpServer = "none" /\ listener = "none"
  /\ metricsCtx => httpDown
  /\ serverErr # "none" => httpServer = "returned"
  /\ serverErr = "nil" => httpDown
  /\ metricsDown => metricsCtx
  /\ stopper \in {"stopping", "stopped"} => metricsCtx
  /\ listener = "stopped" => metricsCtx
  /\ stopErr = "nil" => metricsDown
  /\ metricsErr # "none" => listener = "returned"
  /\ metricsErr = "nil" => metricsCtx
  /\ pc = "joinServer" /\ metricsOn => listener = "returned"
  /\ CleanExit

(* Main's steps up to the servers keep it: there is nothing to shut down.  *)
LEMMA StartupKeepsShutdown ==
  ASSUME ShutdownInv,
         \/ BadFlags \/ (\E p \in Ports : Flags(p)) \/ Load \/ Dial \/ Verify
         \/ ListCapabilitiesFails \/ Register \/ StartServers
  PROVE  ShutdownInv'
<1>1. /\ UNCHANGED <<signalled, httpDown, serverErr, metricsCtx, stopper,
                    metricsDown, stopErr, metricsErr>>
      /\ pc \in Startup
      /\ \/ /\ UNCHANGED <<httpServer, listener>>
            /\ \/ exit' \in {1, 2} /\ pc' = "exited"
               \/ exit' = exit /\ pc' \in Startup \cup {"panicked"}
         \/ /\ httpServer' = "starting" /\ listener' \in {"bind", "none"}
            /\ exit' = exit /\ pc' = "select"
  BY DEF BadFlags, Flags, Load, Dial, Verify, ListCapabilitiesFails, Register,
         StartServers, Return, Goto, httpVars, metricsVars, listenerVars, Startup, Channel
<1> QED
  BY <1>1, ProcessAssumption DEF ShutdownInv, CleanExit, Startup, Closing, Channel

(* The goroutines of the HTTP server and the metrics listener keep it. *)
LEMMA GoroutinesKeepShutdown ==
  ASSUME ShutdownInv, Start \/ ListenerServe \/ Stop \/ srvServe \/ Signal
  PROVE  ShutdownInv'
<1>a. exit = NoCode /\ exit' = exit /\ pc' = pc /\ pc # "exited"
  BY DEF Start, ListenerServe, Stop, srvServe, Signal, HttpServe, HttpReturns,
         ListenerBinds, ListenerBindFails, ListenerStopped, ListenerReturns,
         StopBegins, StopEnds, MetricsServe, MetricsReturns, Alive, ShutdownInv
<1>b. CleanExit'
  BY <1>a, ProcessAssumption DEF CleanExit
<1>1. CASE Start
  BY <1>1, <1>a, <1>b DEF Start, HttpServe, HttpReturns, ShutdownInv, metricsVars,
                         listenerVars, Startup, Channel
<1>2. CASE ListenerServe
  BY <1>2, <1>a, <1>b DEF ListenerServe, ListenerBinds, ListenerBindFails,
       ListenerStopped, ListenerReturns, ShutdownInv, httpVars, Startup, Channel
<1>3. CASE Stop
  BY <1>3, <1>a, <1>b DEF Stop, StopBegins, StopEnds, ShutdownInv, httpVars
<1>4. CASE srvServe
  BY <1>4, <1>a, <1>b DEF srvServe, MetricsServe, MetricsReturns, ShutdownInv, httpVars,
                         Channel
<1>5. CASE Signal
  BY <1>5, <1>a, <1>b DEF Signal, ShutdownInv, httpVars, metricsVars, listenerVars,
                         Closing
<1> QED
  BY <1>1, <1>2, <1>3, <1>4, <1>5

(* The end of run keeps it. *)
LEMMA ClosingKeepsShutdown ==
  ASSUME ShutdownInv,
         \/ ServerExits \/ ListenerExits \/ ShutdownBegins \/ ShutdownFails
         \/ ShutdownDrained \/ JoinMetrics \/ JoinServer
  PROVE  ShutdownInv'
<1>1. CASE ServerExits
  <2>1. serverErr # "nil"
    BY <1>1 DEF ServerExits, ShutdownInv, Closing
  <2> QED
    BY <1>1, <2>1, ProcessAssumption DEF ServerExits, ShutdownInv, CleanExit, Return,
       metricsVars, listenerVars, Closing, Startup, Channel
<1>2. CASE ListenerExits
  <2>1. metricsErr # "nil"
    BY <1>2 DEF ListenerExits, ShutdownInv, Closing
  <2> QED
    BY <1>2, <2>1, ProcessAssumption DEF ListenerExits, ShutdownInv, CleanExit, Return,
       httpVars, Closing, Startup, Channel
<1>3. CASE ShutdownBegins
  BY <1>3, ProcessAssumption DEF ShutdownBegins, ShutdownInv, CleanExit, Goto,
     metricsVars, listenerVars, Closing, Startup, Channel
<1>4. CASE ShutdownFails
  BY <1>4, ProcessAssumption DEF ShutdownFails, ShutdownInv, CleanExit, Return,
     httpVars, metricsVars, listenerVars, Closing, Startup, Channel
<1>5. CASE ShutdownDrained
  BY <1>5, ProcessAssumption DEF ShutdownDrained, ShutdownInv, CleanExit, Goto,
     httpVars, listenerVars, Closing, Startup, Channel
<1>6. CASE JoinMetrics
  BY <1>6, ProcessAssumption DEF JoinMetrics, ShutdownInv, CleanExit, Goto,
     httpVars, Closing, Startup, Channel
<1>7. CASE JoinServer
  BY <1>7, ProcessAssumption DEF JoinServer, ShutdownInv, CleanExit, Return,
     metricsVars, listenerVars, Closing, Startup, Channel
<1> QED
  BY <1>1, <1>2, <1>3, <1>4, <1>5, <1>6, <1>7

(* Exit code 0 means a clean shutdown on a signal, with the HTTP server    *)
(* and the metrics listener returned, for every order in which main and    *)
(* the goroutines take their steps.                                        *)
THEOREM ZeroIsClean == Spec => []CleanExit
<1>1. Init => ShutdownInv
  BY ProcessAssumption DEF Init, ShutdownInv, CleanExit, Startup, Closing, Channel
<1>2. ShutdownInv /\ [Next]_vars => ShutdownInv'
  <2> SUFFICES ASSUME ShutdownInv, [Next]_vars PROVE ShutdownInv'
    OBVIOUS
  <2>1. CASE UNCHANGED vars
    BY <2>1 DEF vars, httpVars, metricsVars, listenerVars, ShutdownInv, CleanExit
  <2> QED
    BY <2>1, StartupKeepsShutdown, GoroutinesKeepShutdown, ClosingKeepsShutdown
       DEF Next, run
<1>3. ShutdownInv => CleanExit
  BY DEF ShutdownInv
<1> QED
  BY <1>1, <1>2, <1>3, PTL DEF Spec
=============================================================================
