CONSTANTS
  vtuber = vtuber
  alice = alice
  NoSender = NoSender
  NoOffering = NoOffering
  WorkIDs = {w1}
  Senders <- MCSenders
  Offerings <- MCOfferings
  Offering = vtuber
  PriceOf <- Price1
  Credits = {1}
  Starts = {s1, s2}
  Ends = {e1}
  Topups = {}
  Gateways = {g1}
  Units = 1
  MaxConcurrent = 1
  MaxDebits = 1
SPECIFICATION FairSpec
PROPERTY SlotsReturned
CHECK_DEADLOCK FALSE
