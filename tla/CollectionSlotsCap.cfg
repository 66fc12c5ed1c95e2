SPECIFICATION FairSpec
CONSTANTS
  Slugs = {a, b, c, d}
  Cap = 2
  RxCap = 3
  MaxMounted = 1
  MaxCalls = 3
  OtherErrors = FALSE
PROPERTY MountedGetsOpen
