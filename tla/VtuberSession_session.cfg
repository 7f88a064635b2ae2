CONSTANTS
  w1 = w1
  alice = alice
  vtuber = vtuber
  NoSender = NoSender
  NoOffering = NoOffering
  WorkIDs <- MCWorkIDs
  Senders <- MCSenders
  Offerings <- MCOfferings
  PriceOf <- Price1
  WorkID = w1
  Sender = alice
  Offering = vtuber
  Credits = {2, 3}
  Units = 3
  RunwayMinUnits = 2
  DebitRetryBudget = 2
  InboundEvents = {"session.end", "other"}
  InboundCap = 1
  Int64Max = 1
  SignedClient = TRUE
  Cancellable = TRUE
  MaxCredited = 6
  MaxTicks = 5
SPECIFICATION FairSpec
INVARIANTS
  TypeOK ChargedOnce OverdraftTraced UsageReported GraceDiscipline EndingReported
PROPERTIES SessionEnds ImplementsPaymentSession
CHECK_DEADLOCK FALSE
