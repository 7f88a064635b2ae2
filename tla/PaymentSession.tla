--------------------------- MODULE PaymentSession ---------------------------
(***************************************************************************)
(* What modules.PaymentSession promises, and asks of the StreamingModule   *)
(* that holds one (internal/service/modules/streaming.go): sequence        *)
(* numbers are charged in order, each once; the next one is not tried      *)
(* before the last is acknowledged; a gateway may revoke the session under *)
(* the module; Close happens once and nothing is charged after either.     *)
(***************************************************************************)
EXTENDS Naturals

VARIABLES
  charged, \* sequence numbers the ledger has charged: 1..charged
  acked,   \* sequence numbers the module knows to be charged: 1..acked
  phase    \* "open", "revoked" by the gateway, or "closed" by the module

paymentVars == <<charged, acked, phase>>

PaymentInit == charged = 0 /\ acked = 0 /\ phase = "open"

(* A Debit reaches the ledger; its reply may be lost. *)
Charge ==
  /\ phase = "open" /\ charged = acked
  /\ charged' = charged + 1
  /\ acked' \in {acked, acked + 1}
  /\ UNCHANGED phase

(* A replay of the outstanding sequence number is answered. *)
Acknowledge ==
  /\ phase = "open" /\ charged = acked + 1
  /\ acked' = charged
  /\ UNCHANGED <<charged, phase>>

Revoke == phase = "open" /\ phase' = "revoked" /\ UNCHANGED <<charged, acked>>

Close == phase # "closed" /\ phase' = "closed" /\ UNCHANGED <<charged, acked>>

PaymentNext == Charge \/ Acknowledge \/ Revoke \/ Close

PaymentSpec == PaymentInit /\ [][PaymentNext]_paymentVars
=============================================================================
