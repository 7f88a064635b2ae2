------------------------- MODULE MCWorkerLifecycle -------------------------
(* Values of the constants of WorkerLifecycle for TLC. *)
EXTENDS WorkerLifecycle, TLC

CONSTANTS
  vtuber, other, second, token, small, large,
  Scales \* the scales the daemon may state prices in

UpTo(n, S) == UNION {[1..m -> S] : m \in 0..n}

Row(i, p) == [id |-> i, price |-> p, url |-> "http://backend"]
MCRows == {Row(small, 1), Row(small, 2), Row(large, 1)}

(* Two offerings in either order, one twice, at another price; a free one, *)
(* a nameless one and one without a backend, which validation refuses.     *)
MCOfferings ==
  UpTo(2, MCRows) \cup {<<Row(large, 0)>>, <<Row("", 1)>>,
                         <<[Row(large, 1) EXCEPT !.url = ""]>>}

(* Capability, unit and overrides of the session's timing. *)
MCKinds == {<<vtuber, second, 0>>, <<vtuber, token, -1>>, <<other, second, 3>>}

Catalogs ==
  UpTo(2, {[capability |-> k[1], workUnit |-> k[2], offerings |-> os,
            cadence |-> k[3], runway |-> k[3], grace |-> k[3]] :
             k \in MCKinds, os \in MCOfferings})

Worker == [httpListen |-> ":8080", socket |-> "/run/payee.sock",
           maxConcurrent |-> 1, verifyOnStart |-> TRUE]

Document(cs, v) ==
  [yaml |-> "one document", publisher |-> FALSE, protocolVersion |-> 1,
   paymentDaemon |-> TRUE, worker |-> [Worker EXCEPT !.verifyOnStart = v],
   caps |-> cs]

Good == Document(<<[capability |-> vtuber, workUnit |-> second,
                    offerings |-> <<Row(small, 1)>>,
                    cadence |-> 0, runway |-> 0, grace |-> 0]>>, TRUE)

(* Every catalog in a sound document, and a sound catalog in documents     *)
(* refused for something else.                                             *)
MCDocuments ==
  {Document(cs, v) : cs \in Catalogs, v \in BOOLEAN}
  \cup {[Good EXCEPT !.yaml = y] : y \in {"unreadable", "two documents"}}
  \cup {[Good EXCEPT !.publisher = TRUE], [Good EXCEPT !.protocolVersion = 2],
        [Good EXCEPT !.paymentDaemon = FALSE],
        [Good EXCEPT !.worker.httpListen = ""], [Good EXCEPT !.worker.socket = ""],
        [Good EXCEPT !.worker.maxConcurrent = 0]}

(* At a scale above one no price is a whole number of wei; the last        *)
(* offering has no price info.                                             *)
MCDaemonCatalogs ==
  UpTo(2, {[capability |-> k[1], workUnit |-> k[2], offerings |-> os] :
             k \in MCKinds,
             os \in UpTo(2, {[id |-> r.id, perUnit |-> x * r.price + x - 1, scale |-> x] :
                               r \in MCRows, x \in Scales})
                     \cup {<<[id |-> small, perUnit |-> 0, scale |-> 0]>>}})

MCImplemented == {vtuber}
MCWorkUnits == {second, token}
MCDefault == [cadence |-> 5, runway |-> 30, grace |-> 60]
=============================================================================
