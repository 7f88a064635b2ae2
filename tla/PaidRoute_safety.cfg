CONSTANTS
  alice = alice
  cheap = cheap
  dear = dear
  NoSender = NoSender
  NoOffering = NoOffering
  WorkIDs = {w1, w2}
  Senders <- MCSenders
  Offerings <- MCOfferings
  PriceOf <- MCPrices
  Credits = {1}
  Requests = {r1, r2}
  MaxConcurrent = 2
  Estimates <- MCEstimates
  Actuals = {1, 2}
  SignedClient = FALSE
SPECIFICATION Spec
INVARIANTS TypeOK ServedWasCharged ChargedForWork SlotsConserved
SYMMETRY Interchangeable
CHECK_DEADLOCK FALSE
