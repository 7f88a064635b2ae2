--------------------------- MODULE MCDaemonClient ---------------------------
(* Values of the constants of DaemonClient for TLC. *)
EXTENDS DaemonClient, TLC

MCText == {"", "  ", "x", " x ", "0xa", " 0xa", "0", "1 ", "1"}
MCTrim == [t \in MCText |-> CASE t = "  " -> "" [] t = " x " -> "x"
             [] t = " 0xa" -> "0xa" [] t = "1 " -> "1" [] OTHER -> t]
MCDecimal == ("0" :> 0) @@ ("1" :> 1)
MCTuples == Methods \X Outcomes

Good == [auth |-> "x", body |-> "object", sender |-> "0xa",
         recipient |-> "0xa", faceValue |-> "1", capability |-> "x",
         offering |-> "x"]

(* A good request, and what each check may be given to refuse or to trim. *)
MCRequests ==
  {Good, [Good EXCEPT !.sender = " 0xa", !.faceValue = "1 ", !.offering = " x "]}
  \cup {[Good EXCEPT !.auth = a] : a \in {"", " x "}}
  \cup {[Good EXCEPT !.body = b] : b \in Bodies \ {"object"}}
  \cup {[Good EXCEPT !.sender = "x"], [Good EXCEPT !.recipient = ""]}
  \cup {[Good EXCEPT !.faceValue = f] : f \in {"x", "0"}}
  \cup {[Good EXCEPT !.capability = "  "], [Good EXCEPT !.offering = ""]}

(* The handlers are interchangeable, and so are the other callers. *)
Interchangeable ==
  Permutations(Handlers) \cup Permutations(Callers \ Handlers)
=============================================================================
