---------------------------- MODULE MCPaidRoute ----------------------------
(* Values of the constants of PaidRoute for TLC. *)
EXTENDS PaidRoute, TLC

CONSTANTS alice, cheap, dear

MCSenders == {alice}
MCOfferings == {cheap, dear}
MCPrices == [o \in MCOfferings |-> IF o = cheap THEN 1 ELSE 2]
MCEstimates == {-1, 1}

(* Requests and work ids are interchangeable: Init ranges over every       *)
(* assignment and no action singles one out.                               *)
Interchangeable == Permutations(Requests) \cup Permutations(WorkIDs)
=============================================================================
