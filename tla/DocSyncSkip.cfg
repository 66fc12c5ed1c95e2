SPECIFICATION FairSpec
CONSTANTS
  MaxBodies = 2
  MaxFaults = 0
  Validity = {TRUE, FALSE}
INVARIANT SkippedEditStaysLocal
