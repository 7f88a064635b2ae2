-------------------------- MODULE MCVtuberSession --------------------------
(* Values of the constants of VtuberSession for TLC. *)
EXTENDS VtuberSession

CONSTANTS w1, alice, vtuber

MCWorkIDs == {w1}
MCSenders == {alice}
MCOfferings == {vtuber}
Price1 == [o \in MCOfferings |-> 1]
=============================================================================
