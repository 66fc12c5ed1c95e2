SPECIFICATION FairSpec
CONSTANTS
  Items = {x}
  MaxRetries = 2
  MaxFaults = 1
  MaxClicks = 0
PROPERTY EveryUploadResolves
