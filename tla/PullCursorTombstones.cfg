SPECIFICATION FairSpec
CONSTANTS
  Ids = {1, 2}
  Limit = 3
  TombLimit = 2
  MaxStamp = 4
  MaxDeletes = 1
  MaxLate = 0
  MaxDisorder = 1
  MaxFails = 0
PROPERTY TombstonesArrive
