SPECIFICATION FairSpec
CONSTANTS
  Ids = {1, 2}
  Limit = 3
  TombLimit = 2
  MaxStamp = 2
  MaxDeletes = 0
  MaxLate = 1
  MaxDisorder = 1
  MaxFails = 0
PROPERTY EveryDocumentArrives
