SPECIFICATION FairSpec
CONSTANTS
  Items = {x, y}
  MaxRetries = 2
  MaxFaults = 1
  MaxClicks = 2
INVARIANTS TypeOK FileKeptUntilStored CompletedIsStored CopiesExplained RetriesBounded
PROPERTIES UploadsResolve Promise
