SPECIFICATION StartupSpec
CONSTANTS
  ten = ten
  one = one
  eleven = eleven
  other = other
  Route <- MCRoute
  Wanted <- MCWanted
  Foreign <- MCForeign
  Occurs <- MCOccurs
  Faults = TRUE
  Others = TRUE
  Client = client
  Process = {client, relay}
  Key = {k1, k2, k3}
  NoKey = NoKey
SYMMETRY MCSymmetry
INVARIANTS OthersKept OwnershipIsExact CleanupIsComplete OneIdentity
