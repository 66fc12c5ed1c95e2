SPECIFICATION FairSpec
CONSTANTS
  Slugs = {a, b, c, d}
  Cap = 2
  RxCap = 3
  MaxMounted = 2
  MaxCalls = 2
  OtherErrors = TRUE
INVARIANTS TypeOK OpenIsEvictable OpenReplicates SlotsAccountedFor ClosedIsReopenable
PROPERTY EvictionsSettle
