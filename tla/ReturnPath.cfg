SPECIFICATION ReturnSpec
CONSTANTS
  p1 = p1
  p2 = p2
  b1 = b1
  b2 = b2
  s1 = s1
  s2 = s2
  Packet <- MCPacket
  Binding <- MCBinding
  ReturnSession <- MCReturnSession
  SessionOfBinding <- MCSessionOfBinding
  Capacity = 1
  ReturnLifetime = 2
  ReturnMaxTime = 6
INVARIANTS OneReturnPerInsert ReturnsAreSpaced
