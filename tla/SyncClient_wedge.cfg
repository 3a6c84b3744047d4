SPECIFICATION Spec
CONSTANTS
  MaxConn = 2
  Ops <- FewOps
INVARIANT ChannelGuaranteed
