SPECIFICATION FairSpec
CONSTANTS
  c1 = c1
  c2 = c2
  c3 = c3
  Client <- MCClients
  OneHopClient <- MCOneHop
  MaxRequests = 3
  MaxPending = 2
  MaxFlows = 2
INVARIANTS AnswersAreOwn AnswersInOrder OneExchangePerContext OneForwardOutstanding 
 
CHECK_DEADLOCK FALSE
