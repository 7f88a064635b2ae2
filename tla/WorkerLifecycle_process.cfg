CONSTANTS
  vtuber = vtuber
  other = other
  second = second
  token = token
  small = small
  large = large
  NoRoute = NoRoute
  NoCode = NoCode
  knownWorkUnits <- MCWorkUnits
  CurrentProtocolVersion = 1
  Default <- MCDefault
  Documents <- MCDocuments
  DaemonCatalogs <- MCDaemonCatalogs
  Scales = {1}
  Ports = {0, 80, 9093}
  Implemented <- MCImplemented
SPECIFICATION FairSpec
INVARIANTS CleanExit ServesDaemonCatalog EveryCapabilityBacked
  AdvertisedIsCharged AssumptionsMet
PROPERTY SignalStops
CHECK_DEADLOCK FALSE
