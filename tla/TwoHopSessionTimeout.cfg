SPECIFICATION Spec
CONSTANTS
  c1 = c1
  c2 = c2
  c3 = c3
  Client <- MCClients
  SessionLimit = 2
INVARIANTS EntryKeepsRunning
CHECK_DEADLOCK FALSE
