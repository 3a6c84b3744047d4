SPECIFICATION Spec
CONSTANTS
  a = a
  b = b
  Tasks <- One
  Ops <- AllOps
  Multiples <- No
  Cancels = TRUE
  Losses = TRUE
  MaxConn = 2
  MaxChan = 2
  MaxGen = 2
  MaxTags = 1
INVARIANTS
  TypeOK
  UnackedReachable
  ClosedIsClean
PROPERTIES
  OnlyConnectDialsTwice
VIEW Essential
