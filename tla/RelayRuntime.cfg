SPECIFICATION RelayFairSpec
CONSTANTS
  a = a
  b = b
  Peer <- MCIds
  Session <- MCIds
  Flow <- MCIds
  MaxPeers = 1
  MaxSessions = 1
  MaxFlows = 1
  MaxSamples = 2
  Freshness = 1
  MaxConns = 2
INVARIANTS AdmittedAreActive EarlyStopLeavesNothing
PROPERTIES IsolationIsReported ConnectedRecovers
CHECK_DEADLOCK FALSE
