\* A packet server and the camera server, two connections each.
SPECIFICATION FairSpec
CONSTANTS
  c1 = c1
  c2 = c2
  NumServers = 2
  Connections = {c1, c2}
INVARIANTS TypeOK NeverMisused ConnectionsAreThose ReturnIsClean AbortHasCause
PROPERTY ShutdownReturns
