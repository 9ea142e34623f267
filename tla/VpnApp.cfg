SPECIFICATION FairSpec
CONSTANTS
  Dest = {}
  KindOf <- MCKindOf
  MaxPolls = 1
  MaxConnects = 2
INVARIANTS AndroidKeepsItsDescriptor DisconnectSticks
PROPERTIES DisconnectReleasesTun
