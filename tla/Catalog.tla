------------------------------ MODULE Catalog ------------------------------
(***************************************************************************)
(* worker.yaml (internal/config): the document, its validation, the        *)
(* catalog with the route table requests are priced from, what             *)
(* /registry/offerings tells of it, what a module is configured with, and  *)
(* the comparison with the daemon's catalog.                               *)
(*                                                                         *)
(* A document is a record: yaml says how the file decodes, worker is its   *)
(* worker section, caps the catalog, a sequence of                         *)
(*   [capability, workUnit, offerings, cadence, runway, grace],            *)
(* with offerings a sequence of [id, price, url].  Prices are the numbers  *)
(* their decimal strings denote; the comparison of the strings themselves  *)
(* is stricter.  The syntax of names, addresses and URLs is left out.      *)
(*                                                                         *)
(* A definition named D_Flaw is definition D with a plausible bug; nothing *)
(* uses it but the mutation runs.                                          *)
(***************************************************************************)
EXTENDS Integers, Sequences

CONSTANTS
  knownWorkUnits,
  CurrentProtocolVersion,
  Default, \* the module's own [cadence, runway, grace], in seconds
  NoRoute

ASSUME CatalogAssumption ==
  \A f \in {"cadence", "runway", "grace"} : Default[f] \in Nat \ {0}

-----------------------------------------------------------------------------
(* Load: parseReader, validate, projectFromYAML. *)

parseReader(d) == d.yaml = "one document"

validateOffering(o) == o.id # "" /\ o.price > 0 /\ o.url # ""

validateCapability_DuplicateOfferings(c) ==
  /\ c.workUnit \in knownWorkUnits
  /\ c.offerings # <<>>
  /\ \A j \in DOMAIN c.offerings : validateOffering(c.offerings[j])

validateCapability(c) ==
  /\ c.workUnit \in knownWorkUnits
  /\ c.offerings # <<>>
  /\ \A j \in DOMAIN c.offerings : validateOffering(c.offerings[j])
  /\ \A j, k \in DOMAIN c.offerings : c.offerings[j].id = c.offerings[k].id => j = k

validateCapabilities_DuplicatesPass(caps) ==
  /\ caps # <<>>
  /\ \A i \in DOMAIN caps : validateCapability(caps[i])

validateCapabilities(caps) ==
  /\ caps # <<>>
  /\ \A i \in DOMAIN caps : validateCapability(caps[i])
  /\ \A i, k \in DOMAIN caps : caps[i].capability = caps[k].capability => i = k

validateWorker(w) ==
  w.httpListen # "" /\ w.socket # "" /\ w.maxConcurrent > 0

validate(d) ==
  /\ ~d.publisher
  /\ d.protocolVersion = CurrentProtocolVersion
  /\ d.paymentDaemon
  /\ validateWorker(d.worker)
  /\ validateCapabilities(d.caps)

(* Config.Lookup over the map New builds, where a later row overwrites an  *)
(* earlier one with the same key.                                          *)
Lookup(caps, capability, id) ==
  LET rows == UNION {{<<i, j>> : j \in {k \in DOMAIN caps[i].offerings :
                                          caps[i].offerings[k].id = id}} :
                     i \in {k \in DOMAIN caps : caps[k].capability = capability}}
      last == CHOOSE r \in rows :
                \A q \in rows : q[1] < r[1] \/ (q[1] = r[1] /\ q[2] <= r[2])
  IN  IF rows = {} THEN NoRoute
      ELSE [workUnit |-> caps[last[1]].workUnit,
            price |-> caps[last[1]].offerings[last[2]].price]

(* GET /registry/offerings: one row for each offering of the catalog. *)
registryOfferings(caps) ==
  UNION {{[capability |-> caps[i].capability, workUnit |-> caps[i].workUnit,
           id |-> caps[i].offerings[j].id, price |-> caps[i].offerings[j].price] :
            j \in DOMAIN caps[i].offerings} : i \in DOMAIN caps}

-----------------------------------------------------------------------------
(* What registerModules and withDefaults configure a session module with:  *)
(* the first offering's backend, and an override only if it is positive.   *)
override_NotZero(seconds, default) == IF seconds # 0 THEN seconds ELSE default

override(seconds, default) == IF seconds > 0 THEN seconds ELSE default

moduleConfig(c) ==
  [url |-> c.offerings[1].url,
   cadence |-> override(c.cadence, Default.cadence),
   runway |-> override(c.runway, Default.runway),
   grace |-> override(c.grace, Default.grace)]

-----------------------------------------------------------------------------
(* The daemon's catalog has [id, perUnit, scale] for an offering, a price  *)
(* of perUnit / scale; one without price info reads as zeros.              *)
priceInfoToWeiString(o) ==
  IF o.scale <= 0 THEN o.perUnit ELSE o.perUnit \div o.scale

sameOfferings(os, ds) ==
  /\ Len(os) = Len(ds)
  /\ \A j \in DOMAIN os :
       os[j].id = ds[j].id /\ os[j].price = priceInfoToWeiString(ds[j])

VerifyDaemonCatalog_IgnoresUnit(caps, daemon) ==
  /\ Len(caps) = Len(daemon)
  /\ \A i \in DOMAIN caps :
       /\ caps[i].capability = daemon[i].capability
       /\ sameOfferings(caps[i].offerings, daemon[i].offerings)

(* Position by position, to the first drift. *)
VerifyDaemonCatalog(caps, daemon) ==
  /\ Len(caps) = Len(daemon)
  /\ \A i \in DOMAIN caps :
       /\ caps[i].capability = daemon[i].capability
       /\ caps[i].workUnit = daemon[i].workUnit
       /\ sameOfferings(caps[i].offerings, daemon[i].offerings)
=============================================================================
