CONSTANTS
  vtuber = vtuber
  alice = alice
  NoSender = NoSender
  NoOffering = NoOffering
  WorkIDs = {w1, w2}
  Senders <- MCSenders
  Offerings <- MCOfferings
  Offering = vtuber
  PriceOf <- Price1
  Credits = {1}
  Starts = {s1, s2}
  Ends = {e1}
  Topups = {t1}
  Gateways = {g1, g2}
  Units = 1
  MaxConcurrent = 2
  MaxDebits = 1
SPECIFICATION Spec
INVARIANTS
  TypeOK SlotsConserved NoRegistryLeak EntriesArePaid Addressable ChargedForItself
  RefusedNotCharged
PROPERTY SettledAfterEnd
SYMMETRY Interchangeable
CHECK_DEADLOCK FALSE
