# A verification project for vtuber-worker-node

The worker sells GPU work by the second. A gateway opens a session over HTTP with a
payment blob; the worker credits it at a payment daemon, forwards the session to a
local renderer, and debits the daemon every few seconds until the session ends. This
directory models that code in TLA+, model-checks it with TLC and proves the
properties that matter most with TLAPS. Paths below are relative to `src/`.

## Inventory

| Part | Source | State | Operations | Modules |
|---|---|---|---|---|
| vtuber-session module | `internal/service/modules/vtuber_session/module.go`, `events.go` | `session` (debitSeq, cumulativeUnits, low-balance flag, grace timer, end reason), two channels | `Serve`, `runLoop`, `tick`, `debitWithRetry`, low balance, `bridgeReader`, deferred ending | VtuberSession |
| PaymentSession contract | `internal/service/modules/streaming.go` | debits charged and acknowledged, open or closed | `Debit`, `Sufficient`, `Close` | PaymentSession |
| Streaming routes, registry | `internal/runtime/http/streaming.go`, `mux.go` | semaphore, registry by gateway id, adapters | start, topup, end | StreamingRoute |
| Session identity | `streaming.go`, `module.go`, `system.go` | X-Vtuber headers, registry entries, what `Serve` took | the `extract…` functions, header rewriting, stop URL | SessionIdentity, Text |
| Session backend | `vtuber_session/system.go`, `deps.go` | sessions rendered | open, stop | SessionIdentity, StreamingRoute |
| One-shot paid routes | `internal/runtime/http/middleware.go` | semaphore, gauge, status | `paymentMiddleware` | PaidRoute |
| Payment daemon client | `internal/providers/payeedaemon` | ledger of sessions, balances, replays; RPC metrics | open, pay, debit, sufficient, close; `meteredClient` | PayeeDaemon, DaemonClient |
| Unpaid handlers | `internal/runtime/http/handlers.go` | none | ticket-params proxy, `/registry/offerings` | UnpaidRoutes, Catalog |
| Metrics recorder | `internal/providers/metrics` | `capVec` (seen, count, exceeded), counters, histograms, gauges | `allow`, `Inc…`, `Observe…`, `Set…` | CapVec, DaemonClient, BackendClient, PaidRoute |
| Backend HTTP client | `internal/providers/backendhttp` | response bodies, metrics | `DoJSON`, `DoRaw`, `DoStream`, `recordOutcome` | BackendClient |
| Configuration, catalog | `internal/config` | ordered catalog, route map | parse, validate, `Lookup`, `VerifyDaemonCatalog` | Catalog |
| Process | `cmd/vtuber-worker-node/main.go`, `internal/runtime/http/server.go` | goroutines, channels, exit code | `run` | WorkerLifecycle |
| Metrics listener | `internal/runtime/metrics/listener.go` | goroutines, `stopErr` | `Serve`, `Stop` | WorkerLifecycle |
| Lint, generated protocol | `lint/`, `internal/contract` | not part of the worker's behaviour | | |

What makes it hard: a debit is a remote call whose reply can be lost; `/topup` and
`/end` act on the daemon session under a running `Serve`; the registry is keyed by an
id the gateway chooses and spells in a header, a body and a path; a slot of the
semaphore passes from a handler to a goroutine; the series cap is lock-free; and
shutdown joins some goroutines and not others. `PROJECT.json` lists each hazard at its
line with the properties about it.

## Modules

* **PayeeDaemon** is the ledger. The daemon is another program; the semantics are
  those of `payeedaemon.Fake`, which the repository keeps to stand for it. Each call
  is an action on `status`, `binding`, `sender`, `balances` and `debitReplays`;
  `credited` is a history variable. Callers add the failures: a call refused, failed
  before the ledger, or applied with the reply lost.
* **PaymentSession** is an abstract specification: sequence numbers charged in order,
  each once, none tried before the last is acknowledged, nothing after a revocation or
  `Close`.
* **VtuberSession** is one `Serve` with its reader goroutine. `pc` is the point of
  the session goroutine: `open` (backend), `select` (the loop), `debit`, `retry`,
  `sufficient`, `recheck` (the last check of the grace timer), `ending`, `close`,
  `returned`. `events` is everything handed to `Bridge.Send`. `TopUp` and
  `EndHandlerCloses` are the route's handlers acting on the same session.
* **StreamingRoute** is every start, end and topup request over the ledger, with the
  semaphore, the registry, the renderer and the exit of the process. `Serve` is
  abstracted to debits in order, an end, one `Close`.
* **SessionIdentity** is the same start and end, seen for their names: which header or
  body field each id comes from, what the middleware writes over the `X-Vtuber` headers,
  what `Serve` reads back, the registry entry, the daemon's binding of the work id, and
  the URL that stops the session. The semaphore and the debits are left to
  StreamingRoute. **Text** is what is known of strings: a set and its `TrimSpace`.
* **PaidRoute** is `paymentMiddleware`. No module of the shipped binary registers a
  one-shot route, but the middleware is part of the worker and shares its semaphore.
* **CapVec** is `capVec.allow`, one action per atomic operation. **UnpaidRoutes** is the
  pure part of the ticket-params handler: authorisation, parsing, and the status an error
  becomes. **DaemonClient** composes both with the gRPC client and `meteredClient`:
  handlers and other goroutines call the daemon, and every call goes through the counter,
  its cap and two histograms, a step at a time.
* **BackendClient** is `fetchClient` inside its `meteredClient`: calls that fail at each
  stage, the response body on the wire, and `recordOutcome`, a metric at a time.
* **Catalog** is the pure part of the configuration: validation, the route table, what
  `/registry/offerings` tells, the overrides a module gets, the comparison with the
  daemon. **WorkerLifecycle** extends it with `main.run`, the HTTP server's goroutine and
  the metrics listener's three.
* **VtuberSessionProofs**, **StreamingRouteProofs**, **SessionIdentityProofs**,
  **PaidRouteProofs**, **DaemonClientProofs**, **BackendClientProofs** and
  **WorkerLifecycleProofs** hold the theorems about the module they are named after,
  and **PayeeDaemonProofs** the lemmas about the ledger that three of them share.
  **MC**-modules give TLC its constants. A definition `D_Flaw` is `D` with a
  plausible bug; only the mutation runs use it.

## Runs

Runs that pass:

| Run | Config | Shows |
|---|---|---|
| session | `VtuberSession_session` | each tick charged once (`ChargedOnce`), an overdraft of more than one tick only after a negative reply was read as credit (`OverdraftTraced`), usage reported as charged (`UsageReported`), the grace timer in step with the events (`GraceDiscipline`), the ending reported last with its reason (`EndingReported`), the contract (`ImplementsPaymentSession`), and that the session ends closed (`SessionEnds`) |
| route_safety | `StreamingRoute_safety` | slots conserved, no registry leak, entries paid for, sessions addressable, each charged for itself, refused requests never charged, money settled after `/end` |
| route_live | `StreamingRoute_live` | every slot comes back |
| identity | `SessionIdentity_identity` | a session is served under the work id, offering and backend that were paid for (`ServesWhatWasPaid`), whatever headers the gateway sent; the module, which reads the headers, and the registry, written from the handler's locals, know it by one id (`KnownByItsEntry`); a stop that succeeds reached the renderer's session (`StopTearsDown`), for sessions named in the body's `session_id` by an id that needs no escaping |
| paid_safety | `PaidRoute_safety` | with the client `main.go` wires: nothing served before its payment's upfront debit is on the ledger with a reply read as credit, work beyond the estimate collected unless the reconciling debit fails (`ServedWasCharged`); a payment pays for one estimate and one excess, however many requests present it (`ChargedForWork`); slots conserved |
| paid_live | `PaidRoute_live` | every request that came in finishes, gives its slot back and is counted in an outcome bucket, also when the module wrote nothing |
| metering | `DaemonClient_metering` | bounded overshoot of the cap, no uncounted series, one report; every RPC in the counter and both histograms under one tuple (`RPCsAccounted`), in agreement with what gateways were answered (`AnswersAccounted`); only canonical requests reach the daemon (`CanonicalAsked`) |
| backend | `BackendClient_calls` | no response body left open (`BodiesClosed`), every call in one outcome and one error class (`CallsAccounted`), the deadlines and lookup timeouts returned classed as timeouts at whatever stage they fell (`DeadlinesAreTimeouts`) |
| process | `WorkerLifecycle_process` | a worker that starts agrees with the daemon's catalog, charges what it advertises (`AdvertisedIsCharged`), meets what the session and route modules assume of their constants (`AssumptionsMet`) and backs every capability; a signal ends the process; exit code 0 means everything was joined |

Runs that end in a violation check one sentence of the repository each and show
behaviour that contradicts it; `PROJECT.json` quotes the sentence under "findings".

| Run | Shows |
|---|---|
| session_sign | the gRPC client's `SetBytes` makes every balance non-negative, so `tick` never sees an overdraft |
| route_race | `/end` before the backend's session-open leaves the backend rendering |
| identity_escape | a session id that a URL escapes is escaped twice in the stop URL; the backend does not know the result, and its 409 is taken for success |

Other comments the code does not keep, each stated by a definition that TLC refutes
when it is named in the config of the run given:

| Definition | Config to change | Behaviour |
|---|---|---|
| `UsageTickPerDebit` | `VtuberSession_session` | the debit that overdraws is charged and not reported; `events.go:40` promises a usage tick for every successful debit |
| `ExhaustedOnlyIfLow` | `VtuberSession_session` | `checkSufficientNoEmit` takes a failed call for a low balance and ends a refilled session as exhausted; `events.go:95` says "with the balance still low" |
| `ReaderStops` | `VtuberSession_session`, `Cancellable = FALSE` | a reader blocked on a full channel outlives the session; `module.go:522` says it stops when the bridge closes |
| `ClosedChannelReadOnce` | `VtuberSession_session` | the loop spins on the closed inbound channel; `module.go:324` closes it "so the select doesn't loop on that one branch forever" |
| `ShutdownEndsSessions` | `StreamingRoute_safety` | the process exits under running sessions; `internal/service/modules/streaming.go:53-56` has `Serve` return on worker shutdown |
| `StopReachesAll` | `SessionIdentity_identity` | a session whose id came in a header, or in `gateway_session_id`, is stopped by that id, while the backend knows it by the body's `session_id`, if by any; `deps.go:79-80` says that the module forwards "body + relevant headers" |
| `InflightIsDepth` | `PaidRoute_safety` | the depth is read and stored in two steps, so an idle worker can report requests in flight; `recorder.go:76` says "the live semaphore depth" |
| `ServedWasPaid` | `PaidRoute_safety` | the lost sign leaves `paymentMiddleware` serving what the payment does not cover; `payeedaemon/types.go:50` has callers refuse |
| `EachIsCharged` | `PaidRoute_safety` | requests that present one payment all debit under sequence numbers 1 and 2, so the second is answered by replay and served uncharged |
| `EntryIsItsOwn` | `StreamingRoute_safety` | of two sessions with one gateway id the first to close deletes the other's registry entry, which `/topup` then no longer finds; exec plan 0002 has the registry for "session correlation for Pattern B topups" |
| `HardCap` | `DaemonClient_metering` | concurrent new tuples all pass the check; `prometheus.go:16` calls the cap hard |
| `HistogramCapped` | `DaemonClient_metering` | the histograms bypass the cap that `prometheus.go:16` puts on any vector |
| `DroppedBeyondCap` | `DaemonClient_metering`, `max = 2` | a tuple counted twice trips the cap early and drops a series within it; `prometheus.go:17` |
| `TimeoutsAreTimeouts` | `BackendClient_calls` | the class goes by words: the system's "connection timed out" is counted as a connect error, any failure that quotes a URL with "timeout" in it as a timeout, and a deadline in a body that `DoStream` drains as neither; `backendhttp/interface.go:125` calls the error strings well-known |
| `LastSuccessNewest` | `BackendClient_calls` | two successes store their times out of order |
| `LastSuccessIs2xx` | `BackendClient_calls` | a 404 counts as a success; `backendhttp/interface.go:103` says "on a successful 2xx" |
| `ServesDaemonCatalog` | `WorkerLifecycle_process`, `Scales = {1, 2}` | the daemon's price is divided and truncated before it is compared, so a fractional price passes; the comment at `grpc.go:216-219` excludes such prices |

`enterLowBalance` (`module.go:492`) also puts the balance in wei into
`runway_seconds_remaining`, so at a price above one wei the event overstates the runway.
The comment at `internal/runtime/http/middleware.go:97-99` says that the outcome is
recorded after the semaphore is released; deferred calls run last first, so it is
recorded before, and so PaidRoute has it.

### Bounds

* Session: credit 2 to 6 wei at 3 wei a tick, so every outcome of the runway test,
  exact exhaustion and overdrafts of one and two wei occur; a retry budget of 2 has a first, a last
  and a successful retry; `MaxTicks` of 5 exceeds what the credit pays for, so an
  overdraft, not the bound, ends a session (in session_sign the bound does).
  `Int64Max` is 1, so that `wei64` saturates balances of 2 and 3 from
  above and of -2 from below. The session run has a client that keeps the sign, so that
  the ending on an overdraft occurs; its invariants hold with the other client too (over
  23 million states, too long for a regular run), and are proved for both.
* One-shot routes: two requests over two payments, of which they may share one, at two
  prices; a credit of 1 that the dearer estimate overdraws; work at and above the
  estimate; a module that writes nothing, a success, or a 402 of its own.
* Routes: two starts, one end, one topup over two payments and two gateway ids cover
  every sharing pattern, `Init` ranging over all assignments. One debit per session:
  what a longer sequence does is the subject of VtuberSession. One slot in the
  liveness runs makes the semaphore refuse.
* Identity: two starts that take every combination of six header sets, four bodies and
  three payments (ids missing, blank, padded and contradictory; offerings known, unknown
  and missing), and an end whose path is blank, padded or another id.
* Metering: three callers, two of them handlers, so that two race in the cap while a
  third observes; a cap of one; four calls in all; requests that fail each check and
  one that has to be trimmed. Handlers are symmetric, and so are the other callers.
* Backend: two callers and three calls, so that two overlap and one repeats; a
  success, a client error and a server error; URLs with no word the classifier looks
  for, with "timeout" and with "malformed".
* Process: up to two capabilities of up to two offerings, valid or not, ports below and
  above 1024 and none, overrides absent, positive and negative; an offering without a
  name, and a daemon offering without price information, which reads as zero.

The type invariants of SessionIdentity, WorkerLifecycle and BackendClient hold when
they are added to their configs; that of DaemonClient is part of what is proved. Deadlock is not checked: in every
run the system may stop, at a session that returned, requests answered, calls used up
or a process that exited.

### Fairness

* A call returns: `WF` of `Serve`, of a handler in flight, of `paymentMiddleware`.
  The code gives most daemon calls no deadline, so this is an assumption on the daemon.
* Go's `select` chooses uniformly among ready cases, so a case ready again and again
  is taken: `SF` of the loop's cases, which matters because the closed inbound
  channel is always ready.
* `SessionEnds` is checked for a client that keeps the sign and for calls that return.
  With the client `main.go` wires a session whose `Sufficient` calls keep failing has
  nothing to end it. The streaming and one-shot runs have the
  client `main.go` wires.
* Goroutines of the process that can run do (`SignalStops`).
* Requests, top-ups, signals and bridge events are never forced.

## Proofs

TLAPS proves the following for every value of the constants that the named
assumptions allow (`DaemonAssumption`, `SessionAssumption`, `RouteAssumption`,
`TextAssumption`, `IdentityAssumption`, `PaidAssumption`, `CapAssumption`,
`ClientAssumption`, `BackendAssumption`, `CatalogAssumption`, `ProcessAssumption`; TLC
evaluates each of them in a run). They are types of configuration values that
`config` validates, that the requests alive at one time are finitely many where slots
are counted, and that one request is not of two kinds. Two theorems carry a
hypothesis besides, because a run or the table above shows the property false without
it: `EndAlwaysTearsDown` (the ids in `/end` paths are their own escape) and
`CatalogAgrees` (`WholeWei`: the daemon's prices are whole). The others hold with either
client, the one that keeps the sign of a balance and the one that loses it.
Every inductive invariant below was first checked by TLC on its run's constants.

**A session** (`VtuberSessionProofs`):
`TypeCorrect`, `NoDoubleCharge` (`ChargedOnce`), `OverdraftSafe` (`OverdraftTraced`)
and `Refinement` (`ImplementsPaymentSession`). They
rest on `SessionInvariant`. `ChargedOnce` is not inductive: that the ledger holds
exactly `1..debitSeq` or `1..debitSeq + 1` says nothing of where `Serve` is, and a tick
that starts with a debit outstanding could add another. `SessionInv` is `TypeOK`,
`BindingInv` (the session stays bound to its sender and offering, retries stay within
the budget, `Close` is the last step) and `LedgerInv` (the ledger holds exactly the
sequence numbers charged, the balance is the credit less their cost, and one is
unacknowledged only while `Serve` is debiting, retrying or over).
`OverdraftTraced` needs `SolvencyInv` besides. A debit that overdraws may lose its
reply, and a top-up may land before the retry; the replay still answers with the
recorded balance, and the actual one is at least that, top-ups only adding to it. So a
session that goes on after a reply was either solvent or misread the reply, and a
negative balance that was read as one ends it.
`PayeeDaemonProofs` proves once what each ledger operation preserves.

**What a session reports** (`VtuberSessionProofs`): `UsageAlwaysReported`,
`GraceAlwaysDisciplined` and `EndingAlwaysReported`, over an event history of any
length. The properties are stated over positions of the history, without recursion, so
that no induction on it is needed: a step appends one event, or warnings and
the fatal error that ends the session, and the lemmas say which for each kind of step. `ReportInv` strengthens the three: `UsageInv` tells the two cases of
`UsageReported` apart (a debit is acknowledged and unreported only when it overdrew and
ended the session), `GraceInv` adds that the last check of the grace timer happens in
the low-balance state, and `EndingInv` says at each point of `Serve` which final events
have been sent, since `session.ended` is built from a reason set by an earlier step.

**The streaming routes** (`StreamingRouteProofs`): all that route_safety checks, for
any number of requests and slots: `SlotsAlwaysConserved`, `RegistryNeverLeaks`,
`RefusedNeverCharged`, `RouteTypesKept`, `EntriesAlwaysPaid`, `AlwaysAddressable`,
`AlwaysChargedForItself` and the action property `AlwaysSettledAfterEnd`. `RouteInv`
adds what holds at the control points between a check and its use. `PaidInv`: a start
past `ProcessPayment` is paid at the daemon from then on, and so is an entry that `/end`
or `/topup` has read, though the entry may be gone. `SettledInv`: what `/end` closed
stays closed, which is why no late debit or top-up moves its money. `SoleInv`: until
`Serve` leaves its loop every debit it made was acknowledged, so the next sequence number
is new to the ledger; a reply lost on the last debit is the other case. The slots are
counted with the cardinality theorems of the library.

**One-shot routes** (`PaidRouteProofs`): `PaidSlotsConserved`, `PaidTypesKept`,
`AlwaysChargedForWork` and `ServedWasAlwaysCharged`. Requests may share a payment, and
all debit under sequence numbers 1 and 2. `ServedInv` speaks of the recorded reply to
number 1 and not of the balance: the reply is what a second request is shown, and it
never changes, while the balance does. `ChargedInv` names, for each payment, the request
whose upfront debit is on the ledger and the one whose reconciling debit is, and says
that both are past the step that made them, so that no later step of theirs changes what
they were charged for; every other debit under the same number is a replay. `CallingInv`
supplies what the daemon checks before it debits.

**Identity** (`SessionIdentityProofs`): `PaidSession` (`ServesWhatWasPaid`) and
`KnownSession` (`KnownByItsEntry`), whatever requests gateways send. `IdentityInv`
says what the headers hold once the middleware has written them and that the daemon has
the work id bound to that very offering, that they agree with the handler's locals, from
which the registry entry is made, what `Serve` took from them, and that every
registry entry names a bound work id and the id and payment of one start (`Owned`). The properties compare the two ends of this
chain; the induction needs its links. `EndAlwaysTearsDown` (`StopTearsDown`) is about an
entry read at the lookup and used at the stop, when the registry may hold another:
`FoundInv` says that what was found stays true of the session it was made for, because
the daemon never changes the binding of a work id, and so names that session's backend.

**The daemon client** (`DaemonClientProofs`): `OvershootAlwaysBounded`,
`CountAlwaysCovers` and `CapReportedOnce` for any finite set of callers, and
`RPCsAlwaysAccounted`, `AnswersAlwaysAccounted`, `OnlyCanonicalAsked`. The cap's bound
is not inductive on `count` alone: callers past the check and before the increment have
already been admitted, so `CapInv` bounds `count` plus these callers, `seen` by `count`
plus those about to add, and the reports made plus those under way. `ClientInv` adds
`Paired`: a caller is inside `allow` only while it counts its RPC, for that RPC's labels,
and only handlers ask for ticket params.

**The backend client** (`BackendClientProofs`): `BodiesAlwaysClosed`,
`CallsAlwaysAccounted` and `DeadlinesAlwaysTimeouts`, for any callers and URLs. The
three are inductive together with the types and `CallInv`, which says that a call has
no body and no error before the stages that make them, and that only failed calls
reach the classification.

**The process** (`WorkerLifecycleProofs`): `CapabilitiesBacked`,
`AdvertisedAlwaysCharged`, `AssumptionsAlwaysMet`, and `CatalogAgrees` for prices in
whole wei, from `ConfigInv` (what each point of `run` has behind it); and `ZeroIsClean`
(`CleanExit`) from `ShutdownInv`, which says what each channel's content tells of the
goroutine that sent it. `CleanExit` speaks of the last step only.

Only model-checked: liveness (`SessionEnds`, both `SlotsReturned`, `SignalStops`), since
fairness and `ENABLED` are out of the prover's reach. Every other property of a passing
run is a theorem.

## Not modelled

* The lint, which is run on source code in CI, and the code generated by protoc.
* The health handler, which only reads, and the rendering of JSON answers; the HTML
  and health pages of the metrics listener.
* YAML syntax, regular expressions, the syntax of addresses and URLs; log lines;
  event ids and times; `time.Duration` overflow at cadences of centuries.
* Recorders that are a single call into the Prometheus library, and the no-op recorder.
* A signal before `signal.Notify`, which the runtime turns into termination; the
  uptime ticker.
* A bridge shared by several sessions: `Config.Bridge` belongs to the module and each
  session closes it, harmless for the stub, the only bridge wired.
* A panic inside `Bridge.Send`, for the same reason: the stub's cannot. Panics of the
  backend and of the payment session are modelled.
* Two guards of `Serve` the route and the configuration make unreachable.
* A daemon that restarts or changes its catalog after startup: no code reacts to one.

## Plan

Done: every part of the worker with behaviour of its own is modelled. What would add
most next:

1. Several `Serve` instances under the routes, with VtuberSession's loop in place of
   the abstract session and StreamingRoute shown to abstract it; a shared bridge once
   one is wired.
2. A proof that the metered daemon client and the routes' semaphore each implement an
   abstract counter, so that the accounting arguments of three modules become one.
