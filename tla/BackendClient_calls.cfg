CONSTANTS
  Callers = {c1, c2}
  Status = {200, 404, 500}
  Urls = {{}, {"timeout"}, {"malformed"}}
  MaxCalls = 3
SPECIFICATION Spec
INVARIANTS BodiesClosed CallsAccounted DeadlinesAreTimeouts
CHECK_DEADLOCK FALSE
