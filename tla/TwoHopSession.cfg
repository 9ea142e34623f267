SPECIFICATION FairSpec
CONSTANTS
  c1 = c1
  c2 = c2
  c3 = c3
  Client <- MCClients
  SessionLimit = 2
INVARIANTS EstablishedEndToEnd RelaySessionsAgree
PROPERTIES SomeoneIsServed
CHECK_DEADLOCK FALSE
