CONSTANTS
  Starts = {s1, s2}
  Ends = {e1}
  Inputs <- MCInputs
  PathIds = {" ", " a ", "b"}
  Text <- MCText
  Empty = ""
  Trim <- MCTrim
  Works = {"w1", "w2"}
  WorkerName <- MCWorkerName
  Route <- MCRoute
  BackendURL = "http://low"
  PathEscape <- MCPathEscape
  Unknown = "unknown"
SPECIFICATION Spec
INVARIANTS ServesWhatWasPaid KnownByItsEntry
PROPERTY StopTearsDown
CHECK_DEADLOCK FALSE
