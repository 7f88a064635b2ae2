-------------------------- MODULE MCStreamingRoute --------------------------
(* Values of the constants of StreamingRoute for TLC. *)
EXTENDS StreamingRoute, TLC

CONSTANTS vtuber, alice

MCSenders == {alice}
MCOfferings == {vtuber}
Price1 == [o \in MCOfferings |-> 1]

(* Requests and ids are interchangeable: work, payer and gateway range over *)
(* all functions in Init and no action singles one out.                     *)
Interchangeable ==
  Permutations(Starts) \cup Permutations(WorkIDs) \cup Permutations(Gateways)
=============================================================================
