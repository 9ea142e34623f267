SPECIFICATION Spec
CONSTANTS
  f1 = f1
  f2 = f2
  f3 = f3
  s1 = s1
  s2 = s2
  Flow <- MCFlow
  Session <- MCSession
  SessionOf <- MCSessionOf
  FirstPort = 40000
  LastPort = 40002
  MaxMappings = 2
  Lifetime = 2
  MaxTime = 5
INVARIANTS Bijective AnswerIsOwnAndLive
PROPERTIES PortNotTakenOver
