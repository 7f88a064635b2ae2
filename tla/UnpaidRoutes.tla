---------------------------- MODULE UnpaidRoutes ----------------------------
(***************************************************************************)
(* What POST /v1/payment/ticket-params accepts and answers                 *)
(* (internal/runtime/http/handlers.go), as operators on a request: the     *)
(* checks in the code's order, the request put to the daemon, and the      *)
(* status a daemon error becomes.                                          *)
(*                                                                         *)
(* A request is a record: auth is the Authorization header, body says how  *)
(* the bytes decode, and the rest are the fields of the JSON object.       *)
(* wellFormed stands for the regular expression of an address and the      *)
(* decimal syntax of a face value, both applied to the trimmed text.       *)
(*                                                                         *)
(* A definition named D_Flaw is definition D with a plausible bug; nothing *)
(* uses it but the mutation runs.                                          *)
(***************************************************************************)
EXTENDS Integers, Text

CONSTANTS
  authToken, \* worker.yaml's auth_token; Empty leaves the route open
  Address,   \* the texts that are addresses
  Decimal    \* the value of each text that is a decimal integer

(* How a body decodes: one JSON object of known fields within the size     *)
(* limit, several documents, or anything json.Decoder refuses.             *)
Bodies == {"object", "documents", "refused"}

requireBearerAuth(r) == authToken = Empty \/ r.auth = authToken

parseHexAddress(t) == Trim[t] \in Address

fieldsAccepted_Untrimmed(r) ==
  /\ parseHexAddress(r.sender) /\ parseHexAddress(r.recipient)
  /\ Trim[r.faceValue] \in DOMAIN Decimal /\ Decimal[Trim[r.faceValue]] > 0
  /\ r.capability # Empty /\ r.offering # Empty

fieldsAccepted(r) ==
  /\ parseHexAddress(r.sender) /\ parseHexAddress(r.recipient)
  /\ Trim[r.faceValue] \in DOMAIN Decimal /\ Decimal[Trim[r.faceValue]] > 0
  /\ Trim[r.capability] # Empty /\ Trim[r.offering] # Empty

(* The daemon is asked about the trimmed fields. *)
parseTicketParamsRequest(r) ==
  [sender |-> Trim[r.sender], recipient |-> Trim[r.recipient],
   faceValue |-> Decimal[Trim[r.faceValue]],
   capability |-> Trim[r.capability], offering |-> Trim[r.offering]]

(* The status of a request turned away before the daemon is asked, or 0. *)
turnedAway(r) ==
  IF ~requireBearerAuth(r) THEN 401
  ELSE IF r.body # "object" \/ ~fieldsAccepted(r) THEN 400 ELSE 0

(* gRPC codes keep their code through the client's wrapping; an error the  *)
(* client makes itself has none.                                           *)
writeTicketParamsProxyError(err) ==
  CASE err \in {"Unavailable", "DeadlineExceeded"} -> 503
    [] err \in {"InvalidArgument", "NotFound", "FailedPrecondition"} -> 400
    [] OTHER -> 500

Statuses == {200, 400, 401, 500, 503}
=============================================================================
