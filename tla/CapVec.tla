------------------------------- MODULE CapVec -------------------------------
(***************************************************************************)
(* The series cap of one counter vector (capVec in                         *)
(* internal/providers/metrics/prometheus.go).  inc is called from every    *)
(* request's goroutine and asks allow, which takes no lock: a concurrent   *)
(* map, an atomic counter and a compare-and-swap, each atomic, none of     *)
(* them together.  A caller names its label tuple when it enters allow     *)
(* (joinNul makes distinct tuples distinct keys) and leaves through Inc or *)
(* Refused.                                                                *)
(*                                                                         *)
(* A definition named D_Flaw is definition D with a plausible bug; nothing *)
(* uses it but the mutation runs.                                          *)
(***************************************************************************)
EXTENDS Integers, FiniteSets

CONSTANTS
  Callers, \* goroutines
  Tuples,  \* label tuples
  NoTuple,
  max      \* MaxSeriesPerMetric; 0 disables the cap

ASSUME CapAssumption ==
  /\ max \in Nat /\ NoTuple \notin Tuples
  /\ IsFiniteSet(Callers) /\ Callers # {}

VARIABLES
  seen, count, exceeded,
  vec,     \* the counters of the wrapped CounterVec
  logged,  \* history: calls of onExceed
  dropped, \* history: increments refused, by tuple
  key,     \* the tuple each caller is counting
  at       \* where each caller is in allow

capVars == <<seen, count, exceeded, vec, logged, dropped, key, at>>

CapInit ==
  /\ seen = {} /\ count = 0 /\ exceeded = FALSE
  /\ vec = [t \in Tuples |-> 0]
  /\ logged = 0 /\ dropped = [t \in Tuples |-> 0]
  /\ key = [c \in Callers |-> NoTuple]
  /\ at = [c \in Callers |-> "out"]

CapTypeOK ==
  /\ seen \subseteq Tuples /\ IsFiniteSet(seen)
  /\ count \in Nat /\ logged \in Nat /\ exceeded \in BOOLEAN
  /\ vec \in [Tuples -> Nat] /\ dropped \in [Tuples -> Nat]
  /\ key \in [Callers -> Tuples \cup {NoTuple}]
  /\ at \in [Callers -> {"out", "count", "full", "log", "store", "add",
                          "allowed", "refused"}]
  /\ \A c \in Callers : at[c] # "out" => key[c] \in Tuples

Goto(c, l) == at' = [at EXCEPT ![c] = l]

-----------------------------------------------------------------------------
(* allow, one action per atomic operation. *)

(* seen.Load: with no cap, or for a tuple already admitted, allow is done. *)
Load(c, t) ==
  /\ at[c] = "out"
  /\ key' = [key EXCEPT ![c] = t]
  /\ Goto(c, IF max = 0 \/ t \in seen THEN "allowed" ELSE "count")
  /\ UNCHANGED <<seen, count, exceeded, vec, logged, dropped>>

LoadCount_OffByOne(c) ==
  /\ at[c] = "count"
  /\ Goto(c, IF count > max THEN "full" ELSE "store")
  /\ UNCHANGED <<seen, count, exceeded, vec, logged, dropped, key>>

LoadCount(c) ==
  /\ at[c] = "count"
  /\ Goto(c, IF count >= max THEN "full" ELSE "store")
  /\ UNCHANGED <<seen, count, exceeded, vec, logged, dropped, key>>

CompareAndSwap_PlainLoad(c) ==
  /\ at[c] = "full"
  /\ Goto(c, IF exceeded THEN "refused" ELSE "log")
  /\ UNCHANGED <<seen, count, exceeded, vec, logged, dropped, key>>

(* The first caller to find the cap reached reports it. *)
CompareAndSwap(c) ==
  /\ at[c] = "full"
  /\ exceeded' = TRUE
  /\ Goto(c, IF exceeded THEN "refused" ELSE "log")
  /\ UNCHANGED <<seen, count, vec, logged, dropped, key>>

(* onCapHit. *)
OnExceed(c) ==
  /\ at[c] = "log"
  /\ logged' = logged + 1
  /\ Goto(c, "refused")
  /\ UNCHANGED <<seen, count, exceeded, vec, dropped, key>>

Store_Uncounted(c) ==
  /\ at[c] = "store"
  /\ seen' = seen \cup {key[c]}
  /\ Goto(c, "allowed")
  /\ UNCHANGED <<count, exceeded, vec, logged, dropped, key>>

Store(c) ==
  /\ at[c] = "store"
  /\ seen' = seen \cup {key[c]}
  /\ Goto(c, "add")
  /\ UNCHANGED <<count, exceeded, vec, logged, dropped, key>>

Add(c) ==
  /\ at[c] = "add"
  /\ count' = count + 1
  /\ Goto(c, "allowed")
  /\ UNCHANGED <<seen, exceeded, vec, logged, dropped, key>>

allow(c) ==
  LoadCount(c) \/ CompareAndSwap(c) \/ OnExceed(c) \/ Store(c) \/ Add(c)

(* inc and add: the counter moves when allow says so. *)
Inc(c) ==
  /\ at[c] = "allowed"
  /\ vec' = [vec EXCEPT ![key[c]] = @ + 1]
  /\ Goto(c, "out")
  /\ UNCHANGED <<seen, count, exceeded, logged, dropped, key>>

Refused(c) ==
  /\ at[c] = "refused"
  /\ dropped' = [dropped EXCEPT ![key[c]] = @ + 1]
  /\ Goto(c, "out")
  /\ UNCHANGED <<seen, count, exceeded, vec, logged, key>>

-----------------------------------------------------------------------------
(* Properties. *)

At(l) == {c \in Callers : at[c] = l}

(* Racing callers may overshoot the cap of allow, but by fewer series than *)
(* there are callers.                                                      *)
OvershootBounded == max > 0 => Cardinality(seen) < max + Cardinality(Callers)

(* No admitted series goes uncounted: but for callers between the store    *)
(* and the add, count is at least the number of series, so the cap does    *)
(* hold for every later call.                                              *)
CountCoversSeen == Cardinality(seen) <= count + Cardinality(At("add"))

(* onExceed is called at most once, however many callers find the cap      *)
(* reached together, and nothing is refused without a report made or under *)
(* way.                                                                    *)
ReportedOnce ==
  /\ logged + Cardinality(At("log")) = IF exceeded THEN 1 ELSE 0
  /\ (\E t \in Tuples : dropped[t] > 0) => exceeded

(* "MaxSeriesPerMetric is the hard cap on distinct label tuples"           *)
(* (PrometheusConfig).                                                     *)
HardCap == max > 0 => Cardinality(seen) <= max

(* "New combinations beyond the cap are silently dropped"                  *)
(* (PrometheusConfig): a tuple is refused only when max others are held.   *)
DroppedBeyondCap ==
  (\E t \in Tuples : dropped[t] > 0) => Cardinality(seen) >= max
=============================================================================
