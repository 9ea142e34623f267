SPECIFICATION FairSpec
CONSTANTS
  uni = uni
  multi = multi
  any = any
  portless = portless
  Dest <- MCDest
  KindOf <- MCKindOf
  Environments <- MCEnvironments
  MaxRequests = 2
  LocalPort = {1, 2}
  Size = {64, 800, 1000}
  FrameLimit = 900
  IoTimeout = 1
  FirstPort = 40000
  LastPort = 40001
  MaxMappings = 1
  Lifetime = 2
  MaxTime = 3
INVARIANTS OnlyAllowedContacted 
 
CHECK_DEADLOCK FALSE
