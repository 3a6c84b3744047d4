SPECIFICATION Spec
CONSTANTS
  a = a
  b = b
  Tasks <- Two
  Ops <- UseOps
  Multiples <- No
  Cancels = FALSE
  Losses = FALSE
  MaxConn = 2
  MaxChan = 2
  MaxGen = 1
  MaxTags = 1
INVARIANTS
  SingleConnection
