CONSTANTS
  Callers = {h1, h2, s1}
  Handlers = {h1, h2}
  Tuples <- MCTuples
  NoTuple = NoTuple
  max = 1
  Text <- MCText
  Empty = ""
  Trim <- MCTrim
  authToken = "x"
  Address = {"0xa"}
  Decimal <- MCDecimal
  Requests <- MCRequests
  Called = {"OpenSession"}
  Codes = {"Unavailable", "NotFound"}
  MaxCalls = 4
SPECIFICATION Spec
INVARIANTS OvershootBounded CountCoversSeen ReportedOnce
  RPCsAccounted AnswersAccounted CanonicalAsked
SYMMETRY Interchangeable
CHECK_DEADLOCK FALSE
