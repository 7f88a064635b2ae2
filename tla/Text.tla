-------------------------------- MODULE Text --------------------------------
(***************************************************************************)
(* Header values and JSON strings, as far as the code tells them apart:    *)
(* an opaque set with an empty text and Go's strings.TrimSpace as a        *)
(* function on it.                                                         *)
(***************************************************************************)
CONSTANTS
  Text,
  Empty, \* the empty string, and the value of a header that is not sent
  Trim   \* strings.TrimSpace

ASSUME TextAssumption ==
  /\ Empty \in Text /\ Trim \in [Text -> Text] /\ Trim[Empty] = Empty
  /\ \A t \in Text : Trim[Trim[t]] = Trim[t]

Trimmed(t) == Trim[t] = t
=============================================================================
