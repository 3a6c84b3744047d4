SPECIFICATION Spec
CONSTANTS
  MaxConn = 3
  Ops <- AllOps
INVARIANTS
  TypeOK
  UseMatchesCheck
  HealthTruth
PROPERTIES
  PublishOkTaken
  OnlyConnectLeaks
  CloseReleases
  CloseRecovers
  WedgeNeedsReset
