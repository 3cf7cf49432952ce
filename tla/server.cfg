SPECIFICATION FairSpec
CONSTANTS
  NumCameras = 2
  Conns = {s1, s2}
  NoConn = NoConn
  MaxDefer = 3
INVARIANTS
  TypeOK
  StateAgreement
  WatchdogOnlyWhileRunning
  NoSendAfterFree
  RawSinkOwned
  SubscriptionsServed
  NoLeakedSession
  ViewsCurrent
PROPERTIES
  OnlyCommanderActs
  HandlersReturn
