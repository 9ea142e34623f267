SPECIFICATION FairSpec
CONSTANTS
  Dest = {}
  KindOf <- MCKindOf
  MaxConnects = 1
  MaxPolls = 1
PROPERTY ClientComesUp
