-------------------------- MODULE WorkerLifecycle --------------------------
(***************************************************************************)
(* The life of the process (main.run): configuration, catalog              *)
(* verification, module registration, then the goroutines it starts (the   *)
(* HTTP server, the metrics listener with its own server and stopper) and  *)
(* the shutdown that joins them.                                           *)
(*                                                                         *)
(* A definition named D_Flaw is definition D with a plausible bug; nothing *)
(* uses it but the mutation runs.                                          *)
(***************************************************************************)
EXTENDS Catalog

CONSTANTS
  Documents,   \* what worker.yaml may hold
  DaemonCatalogs, \* what the daemon may report
  Ports,       \* the ports --metrics-listen may name; 0 stands for none
  Implemented, \* capabilities registerModules has a case for
  NoCode       \* exit code of a process still running

IsSeq(s) == s \in Seq({s[i] : i \in DOMAIN s})

ASSUME ProcessAssumption ==
  /\ \A d \in Documents :
       /\ IsSeq(d.caps)
       /\ \A i \in DOMAIN d.caps :
            /\ IsSeq(d.caps[i].offerings)
            /\ \A j \in DOMAIN d.caps[i].offerings : d.caps[i].offerings[j].price \in Int
  /\ \A d \in DaemonCatalogs :
       /\ IsSeq(d)
       /\ \A i \in DOMAIN d :
            /\ IsSeq(d[i].offerings)
            /\ \A j \in DOMAIN d[i].offerings : d[i].offerings[j].perUnit \in Int
  /\ NoRoute \notin [workUnit : knownWorkUnits, price : Int]
  /\ NoCode \notin 0..2

VARIABLES
  doc,              \* worker.yaml
  daemon,           \* the daemon's catalog, once verified
  paidCapabilities, \* capabilities with a route registered
  registered,       \* the routes of the mux
  pc, exit, signalled,
  httpServer, httpDown,  \* srv.Start's goroutine; srv.Shutdown was called
  serverErr,
  metricsOn, metricsCtx, \* --metrics-listen is set; metricsCtx is cancelled
  listener,              \* Listener.Serve
  stopper,               \* its goroutine that calls Stop
  metricsServer,         \* its goroutine in l.srv.Serve
  metricsDown,           \* l.srv.Shutdown was called
  stopErr, metricsErr

configVars == <<doc, daemon, paidCapabilities, registered>>
httpVars == <<httpServer, httpDown, serverErr>>
listenerVars == <<listener, stopper, metricsServer, metricsDown, stopErr, metricsErr>>
metricsVars == <<metricsOn, metricsCtx, listenerVars>>
vars == <<configVars, pc, exit, signalled, httpVars, metricsVars>>

caps == doc.caps
verifyOnStart == doc.worker.verifyOnStart

Init ==
  /\ doc \in Documents
  /\ daemon = <<>> /\ paidCapabilities = {} /\ registered = {}
  /\ pc = "flags" /\ exit = NoCode /\ signalled = FALSE
  /\ httpServer = "none" /\ httpDown = FALSE /\ serverErr = "none"
  /\ metricsOn = FALSE /\ metricsCtx = FALSE
  /\ listener = "none" /\ stopper = "none" /\ metricsServer = "none"
  /\ metricsDown = FALSE /\ stopErr = "none" /\ metricsErr = "none"

(* What a channel of capacity one holds. *)
Channel == {"none", "nil", "err"}

(* The places of run and its goroutines, what the channels hold, and that  *)
(* run has an exit code exactly when it has returned.                      *)
TypeOK ==
  /\ pc \in {"flags", "load", "dial", "verify", "register", "start", "select",
             "shutdown", "joinMetrics", "joinServer", "exited", "panicked"}
  /\ exit \in {0, 1, 2, NoCode} /\ signalled \in BOOLEAN
  /\ (exit = NoCode) = (pc # "exited")
  /\ httpServer \in {"none", "starting", "serving", "returned"}
  /\ listener \in {"none", "bind", "select", "stopped", "returned"}
  /\ stopper \in {"none", "waiting", "stopping", "stopped"}
  /\ metricsServer \in {"none", "starting", "serving", "returned"}
  /\ serverErr \in Channel /\ stopErr \in Channel /\ metricsErr \in Channel
  /\ httpDown \in BOOLEAN /\ metricsDown \in BOOLEAN /\ metricsCtx \in BOOLEAN

Alive == pc \notin {"exited", "panicked"}

Return(code) == pc' = "exited" /\ exit' = code

Goto(l) == pc' = l /\ UNCHANGED exit

-----------------------------------------------------------------------------
(* run, up to the first goroutine. *)

validateMetricsListen(p) == p = 0 \/ p \in 1024..65535

(* Flags that do not parse, or an address that is refused. *)
BadFlags ==
  /\ pc = "flags"
  /\ Return(2)
  /\ UNCHANGED <<configVars, signalled, httpVars, metricsVars>>

(* The recorder is Prometheus, and there is a listener, iff a port is set. *)
Flags(p) ==
  /\ pc = "flags" /\ validateMetricsListen(p)
  /\ metricsOn' = (p # 0)
  /\ Goto("load")
  /\ UNCHANGED <<configVars, signalled, httpVars, metricsCtx, listenerVars>>

Load ==
  /\ pc = "load"
  /\ IF parseReader(doc) /\ validate(doc) THEN Goto("dial") ELSE Return(1)
  /\ UNCHANGED <<configVars, signalled, httpVars, metricsVars>>

Dial ==
  /\ pc = "dial"
  /\ \/ Return(1)
     \/ Goto(IF verifyOnStart THEN "verify" ELSE "register")
  /\ UNCHANGED <<configVars, signalled, httpVars, metricsVars>>

Verify ==
  /\ pc = "verify"
  /\ \E d \in DaemonCatalogs :
       IF VerifyDaemonCatalog(caps, d) THEN daemon' = d /\ Goto("register")
       ELSE Return(1) /\ UNCHANGED daemon
  /\ UNCHANGED <<doc, paidCapabilities, registered, signalled, httpVars, metricsVars>>

ListCapabilitiesFails ==
  /\ pc = "verify"
  /\ Return(1)
  /\ UNCHANGED <<configVars, signalled, httpVars, metricsVars>>

(* The modules with a case, and whether one is bound to a taken route. *)
registrable == {i \in DOMAIN caps : caps[i].capability \in Implemented}

DuplicateRoute ==
  \E i, k \in registrable : i # k /\ caps[i].capability = caps[k].capability

UnpaidPaths == {"/health", "/registry/offerings", "/v1/payment/ticket-params"}
SessionRoutes == {"start", "topup", "end"}

(* RegisterUnpaidHandlers, registerModules, then missingCapabilityModules. *)
Register ==
  /\ pc = "register"
  /\ paidCapabilities' = {caps[i].capability : i \in registrable}
  /\ registered' = UnpaidPaths \cup IF registrable = {} THEN {} ELSE SessionRoutes
  /\ IF DuplicateRoute THEN Goto("panicked")
     ELSE IF registrable = {} \/ registrable # DOMAIN caps THEN Return(1)
     ELSE Goto("start")
  /\ UNCHANGED <<doc, daemon, signalled, httpVars, metricsVars>>

(* The server's goroutine, and the listener's when metrics are on. *)
StartServers ==
  /\ pc = "start"
  /\ httpServer' = "starting"
  /\ listener' = IF metricsOn THEN "bind" ELSE "none"
  /\ Goto("select")
  /\ UNCHANGED <<configVars, signalled, httpDown, serverErr, metricsOn, metricsCtx, stopper,
                 metricsServer, metricsDown, stopErr, metricsErr>>

-----------------------------------------------------------------------------
(* Server.Start: ListenAndServe, which returns at once after a Shutdown. *)
HttpServe ==
  /\ Alive /\ httpServer = "starting"
  /\ httpServer' = "serving"
  /\ UNCHANGED <<configVars, pc, exit, signalled, httpDown, serverErr, metricsVars>>

HttpReturns ==
  /\ Alive /\ httpServer \in {"starting", "serving"}
  /\ \/ httpDown /\ serverErr' = "nil"
     \/ ~httpDown /\ serverErr' = "err"
  /\ httpServer' = "returned"
  /\ UNCHANGED <<configVars, pc, exit, signalled, httpDown, metricsVars>>

-----------------------------------------------------------------------------
(* Listener.Serve and its two goroutines. *)
ListenerBinds ==
  /\ Alive /\ listener = "bind"
  /\ listener' = "select" /\ stopper' = "waiting" /\ metricsServer' = "starting"
  /\ UNCHANGED <<configVars, pc, exit, signalled, httpVars, metricsOn, metricsCtx,
                 metricsDown, stopErr, metricsErr>>

ListenerBindFails ==
  /\ Alive /\ listener = "bind"
  /\ listener' = "returned" /\ metricsErr' = "err"
  /\ UNCHANGED <<configVars, pc, exit, signalled, httpVars, metricsOn, metricsCtx,
                 stopper, metricsServer, metricsDown, stopErr>>

(* Stop: Shutdown bars the server, then drains for two seconds at most. *)
StopBegins ==
  /\ Alive /\ stopper = "waiting" /\ metricsCtx
  /\ stopper' = "stopping" /\ metricsDown' = TRUE
  /\ UNCHANGED <<configVars, pc, exit, signalled, httpVars, metricsOn, metricsCtx,
                 listener, metricsServer, stopErr, metricsErr>>

StopEnds ==
  /\ Alive /\ stopper = "stopping"
  /\ stopper' = "stopped"
  /\ UNCHANGED <<configVars, pc, exit, signalled, httpVars, metricsOn, metricsCtx,
                 listener, metricsServer, metricsDown, stopErr, metricsErr>>

MetricsServe ==
  /\ Alive /\ metricsServer = "starting"
  /\ metricsServer' = "serving"
  /\ UNCHANGED <<configVars, pc, exit, signalled, httpVars, metricsOn, metricsCtx,
                 listener, stopper, metricsDown, stopErr, metricsErr>>

(* l.srv.Serve: ErrServerClosed, which Serve takes as nil, or a failure. *)
MetricsReturns ==
  /\ Alive /\ metricsServer \in {"starting", "serving"}
  /\ stopErr' = IF metricsDown THEN "nil" ELSE "err"
  /\ metricsServer' = "returned"
  /\ UNCHANGED <<configVars, pc, exit, signalled, httpVars, metricsOn, metricsCtx,
                 listener, stopper, metricsDown, metricsErr>>

(* The selects of Serve: the server's error, or the stopper and then the   *)
(* server's error or 100 ms.                                               *)
ListenerStopped ==
  /\ Alive /\ listener = "select" /\ stopper = "stopped"
  /\ listener' = "stopped"
  /\ UNCHANGED <<configVars, pc, exit, signalled, httpVars, metricsOn, metricsCtx,
                 stopper, metricsServer, metricsDown, stopErr, metricsErr>>

ListenerReturns ==
  /\ Alive
  /\ \/ /\ listener \in {"select", "stopped"} /\ stopErr # "none"
        /\ metricsErr' = stopErr /\ stopErr' = "none"
     \/ /\ listener = "stopped"
        /\ metricsErr' = "nil" /\ UNCHANGED stopErr
  /\ listener' = "returned"
  /\ UNCHANGED <<configVars, pc, exit, signalled, httpVars, metricsOn, metricsCtx,
                 stopper, metricsServer, metricsDown>>

-----------------------------------------------------------------------------
(* run's select and the shutdown. *)
Signal ==
  /\ pc = "select" /\ ~signalled
  /\ signalled' = TRUE
  /\ UNCHANGED <<configVars, pc, exit, httpVars, metricsVars>>

ServerExits ==
  /\ pc = "select" /\ serverErr # "none"
  /\ Return(IF serverErr = "err" THEN 1 ELSE 0)
  /\ serverErr' = "none"
  /\ UNCHANGED <<configVars, signalled, httpServer, httpDown, metricsVars>>

ListenerExits ==
  /\ pc = "select" /\ metricsErr # "none"
  /\ Return(IF metricsErr = "err" THEN 1 ELSE 0)
  /\ metricsErr' = "none"
  /\ UNCHANGED <<configVars, signalled, httpVars, metricsOn, metricsCtx, listener,
                 stopper, metricsServer, metricsDown, stopErr>>

ShutdownBegins ==
  /\ pc = "select" /\ signalled
  /\ httpDown' = TRUE
  /\ Goto("shutdown")
  /\ UNCHANGED <<configVars, signalled, httpServer, serverErr, metricsVars>>

ShutdownFails ==
  /\ pc = "shutdown"
  /\ Return(1)
  /\ UNCHANGED <<configVars, signalled, httpVars, metricsVars>>

ShutdownDrained_KeepsMetrics ==
  /\ pc = "shutdown"
  /\ Goto(IF metricsOn THEN "joinMetrics" ELSE "joinServer")
  /\ UNCHANGED <<configVars, signalled, httpVars, metricsOn, metricsCtx, listenerVars>>

(* Shutdown returned nil: cancelMetrics, then the joins. *)
ShutdownDrained ==
  /\ pc = "shutdown"
  /\ metricsCtx' = TRUE
  /\ Goto(IF metricsOn THEN "joinMetrics" ELSE "joinServer")
  /\ UNCHANGED <<configVars, signalled, httpVars, metricsOn, listenerVars>>

JoinMetrics ==
  /\ pc = "joinMetrics" /\ metricsErr # "none"
  /\ metricsErr' = "none"
  /\ Goto("joinServer")
  /\ UNCHANGED <<configVars, signalled, httpVars, metricsOn, metricsCtx, listener,
                 stopper, metricsServer, metricsDown, stopErr>>

JoinServer_Skipped ==
  /\ pc = "joinServer"
  /\ Return(0)
  /\ UNCHANGED <<configVars, signalled, httpVars, metricsVars>>

JoinServer ==
  /\ pc = "joinServer" /\ serverErr # "none"
  /\ serverErr' = "none"
  /\ Return(0)
  /\ UNCHANGED <<configVars, signalled, httpServer, httpDown, metricsVars>>

run ==
  \/ BadFlags \/ (\E p \in Ports : Flags(p)) \/ Load \/ Dial \/ Verify
  \/ ListCapabilitiesFails \/ Register \/ StartServers
  \/ ServerExits \/ ListenerExits \/ ShutdownBegins \/ ShutdownFails \/ ShutdownDrained
  \/ JoinMetrics \/ JoinServer

Start == HttpServe \/ HttpReturns

ListenerServe == ListenerBinds \/ ListenerBindFails \/ ListenerStopped \/ ListenerReturns

Stop == StopBegins \/ StopEnds

srvServe == MetricsServe \/ MetricsReturns

Next == run \/ Start \/ ListenerServe \/ Stop \/ srvServe \/ Signal

Spec == Init /\ [][Next]_vars

(* Goroutines are scheduled, and a server barred by Shutdown returns; a    *)
(* server not barred may run for ever.                                     *)
Fairness ==
  /\ WF_vars(run)
  /\ WF_vars(ListenerServe) /\ WF_vars(Stop)
  /\ WF_vars(httpDown /\ HttpReturns) /\ WF_vars(metricsDown /\ MetricsReturns)

FairSpec == Spec /\ Fairness

-----------------------------------------------------------------------------
(* Properties. *)

Serving == pc \in {"select", "shutdown", "joinMetrics", "joinServer"}

(* A worker that verified its catalog prices every request as the daemon   *)
(* does: each offering of the daemon has a route with its unit and exactly *)
(* its price, and there is no route the daemon lacks.                      *)
ServesDaemonCatalog ==
  Serving /\ verifyOnStart =>
    /\ \A i \in DOMAIN daemon : \A j \in DOMAIN daemon[i].offerings :
         LET o == daemon[i].offerings[j]
             r == Lookup(caps, daemon[i].capability, o.id)
         IN  /\ r # NoRoute
             /\ r.workUnit = daemon[i].workUnit
             /\ r.price * o.scale = o.perUnit
    /\ \A r \in registryOfferings(caps) :
         \E i \in DOMAIN daemon : \E j \in DOMAIN daemon[i].offerings :
           daemon[i].capability = r.capability /\ daemon[i].offerings[j].id = r.id

(* What /registry/offerings advertises is what a start request is charged: *)
(* the route table, in which one row could hide another, has each row with *)
(* its unit and price.                                                     *)
AdvertisedIsCharged ==
  Serving => \A r \in registryOfferings(caps) :
    Lookup(caps, r.capability, r.id) = [workUnit |-> r.workUnit, price |-> r.price]

(* No configuration validate accepts breaks what sessions and routes rely  *)
(* on (SessionAssumption of VtuberSession, RouteAssumption of the routes): *)
(* a tick is of at least one second, the runway and the grace window are   *)
(* positive, there is a backend to fall back on, the price is positive and *)
(* the semaphore has a slot.                                               *)
AssumptionsMet ==
  Serving =>
    /\ doc.worker.maxConcurrent > 0
    /\ \A i \in DOMAIN caps :
         LET m == moduleConfig(caps[i])
         IN  m.cadence > 0 /\ m.runway > 0 /\ m.grace > 0 /\ m.url # ""
    /\ \A r \in registryOfferings(caps) : r.price > 0

(* A serving worker has a module for every capability it advertises and    *)
(* the routes to start, top up and end its sessions, and no configuration  *)
(* validate accepts makes a route registration panic.                      *)
EveryCapabilityBacked ==
  /\ pc # "panicked"
  /\ Serving => /\ paidCapabilities = {caps[i].capability : i \in DOMAIN caps}
                /\ SessionRoutes \subseteq registered

(* Exit code 0 means what run documents, a clean shutdown on a signal: the *)
(* server and the metrics listener have returned.                          *)
CleanExit ==
  exit = 0 =>
    /\ signalled /\ httpServer = "returned"
    /\ metricsOn => listener = "returned"

(* A signal ends the process, whichever goroutine was where.               *)
SignalStops == signalled ~> pc = "exited"
=============================================================================
