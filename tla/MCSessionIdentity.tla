------------------------- MODULE MCSessionIdentity --------------------------
(* Values of the constants of SessionIdentity for TLC. *)
EXTENDS SessionIdentity, TLC

MCText == {"", " ", "a", " a ", "b", "b c", "b%20c", "low", "high", " high",
           "http://low", "http://high", "http://other", "w1", "w2", "worker_w1",
           "worker_w2", "unknown", "other"}
MCTrim == [t \in MCText |-> CASE t = " " -> "" [] t = " a " -> "a"
             [] t = " high" -> "high" [] OTHER -> t]
MCPathEscape == [t \in MCText |-> IF t = "b c" THEN "b%20c" ELSE t]
MCWorkerName == ("w1" :> "worker_w1") @@ ("w2" :> "worker_w2")
MCRoute == ("low" :> [price |-> 1, url |-> "http://low"])
        @@ ("high" :> [price |-> 2, url |-> "http://high"])

Header(id, o, x, y) ==
  [session |-> id, offering |-> o, url |-> x, worker |-> y, work |-> y]
Body(j, g, i, o) ==
  [json |-> j, gatewaySession |-> g, session |-> i, offering |-> o]

(* Headers sent by the gateway, blank or not sent; bodies that hold one id, *)
(* two, or cannot be read.                                                  *)
Headers == {Header(id, o, "", "") : id \in {"", " a "}, o \in {"", " high"}}
             \cup {Header(id, "low", "http://other", "other") : id \in {" ", "a"}}
Bodies == {Body(TRUE, "", "a", "low"), Body(TRUE, " a ", "b", "high"),
           Body(TRUE, "", " ", ""), Body(FALSE, "", "", "")}
MCInputs == [hdr : Headers, body : Bodies, payment : {"", "w1", "w2"}]

(* Gateways that put the id, one that a URL escapes, into the body alone. *)
ReservedInputs ==
  [hdr : {Header("", "", "", "")}, body : {Body(TRUE, "", "b c", "low")},
   payment : {"w1", "w2"}]
=============================================================================
