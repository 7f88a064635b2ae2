CONSTANTS
  w1 = w1
  alice = alice
  vtuber = vtuber
  NoSender = NoSender
  NoOffering = NoOffering
  WorkIDs <- MCWorkIDs
  Senders <- MCSenders
  Offerings <- MCOfferings
  PriceOf <- Price1
  WorkID = w1
  Sender = alice
  Offering = vtuber
  Credits = {2, 3}
  Units = 2
  RunwayMinUnits = 2
  DebitRetryBudget = 2
  InboundEvents = {}
  InboundCap = 1
  Int64Max = 15
  SignedClient = FALSE
  Cancellable = TRUE
  MaxCredited = 5
  MaxTicks = 5
SPECIFICATION Spec
INVARIANT OverdraftBounded
CHECK_DEADLOCK FALSE
