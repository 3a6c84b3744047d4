SPECIFICATION Spec
CONSTANTS
  a = a
  b = b
  Tasks <- Two
  Ops <- SettleOps
  Multiples <- No
  Cancels = FALSE
  Losses = TRUE
  MaxConn = 1
  MaxChan = 2
  MaxGen = 2
  MaxTags = 2
INVARIANTS
  SettledOnce
SYMMETRY Interchangeable
VIEW Essential
