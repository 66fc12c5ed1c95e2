SPECIFICATION FairSpec
CONSTANTS
  Ids = {1, 2, 3, 4}
  Limit = 3
  TombLimit = 2
  MaxStamp = 3
  MaxDeletes = 1
  MaxLate = 1
  MaxDisorder = 1
  MaxFails = 1
INVARIANTS TypeOK CheckpointCovers
PROPERTIES CheckpointAdvances PullEnds DocumentsArrive
