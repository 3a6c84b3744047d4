SPECIFICATION Spec
CONSTANTS
  r1 = r1
  r2 = r2
  m1 = m1
  m2 = m2
  Runs <- TwoRuns
  Messages <- TwoMessages
  Tools <- AllTools
  Losses = TRUE
  Codecs <- AnyCodec
INVARIANT TypeOK
PROPERTIES
  RunsRelease
  HeldReturns
  LossIsReported
  MailboxSpec
SYMMETRY Interchangeable
VIEW WithoutOut
