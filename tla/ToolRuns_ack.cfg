SPECIFICATION Spec
CONSTANTS
  r1 = r1
  r2 = r2
  m1 = m1
  m2 = m2
  Runs <- OneRun
  Messages <- OneMessage
  Tools <- AckTools
  Losses = FALSE
  Codecs <- Known
INVARIANT AcknowledgedIsGone
