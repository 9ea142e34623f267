SPECIFICATION FairSpec
CONSTANTS
  Relay = {1, 2, 3}
  ClientPeer = 9
  Freshness = 1
  Mode = "TwoHop"
  Metadata <- MCMetadata
  MaxConnects = 3
  MaxSessions = 2
  MaxTime = 1
INVARIANTS ActiveIsWhole ReadyMeansConnected OneHandshakeAtATime 
PROPERTIES RouteLeadsToSession
CHECK_DEADLOCK FALSE
