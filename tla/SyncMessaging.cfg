SPECIFICATION MSpec
CONSTANTS
  MaxConn = 2
  Ops <- QueueOps
  MaxMsgs = 2
  MaxTags = 2
INVARIANTS
  MTypeOK
  NothingLost
  ReceiptsLive
  HeldIsReachable
VIEW WithoutOut
