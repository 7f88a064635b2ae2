CONSTANTS
  alice = alice
  cheap = cheap
  dear = dear
  NoSender = NoSender
  NoOffering = NoOffering
  WorkIDs = {w1}
  Senders <- MCSenders
  Offerings <- MCOfferings
  PriceOf <- MCPrices
  Credits = {1, 3}
  Requests = {r1, r2}
  MaxConcurrent = 1
  Estimates <- MCEstimates
  Actuals = {2}
  SignedClient = FALSE
SPECIFICATION FairSpec
PROPERTY SlotsReturned
CHECK_DEADLOCK FALSE
