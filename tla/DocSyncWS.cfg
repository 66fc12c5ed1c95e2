SPECIFICATION FairSpec
CONSTANTS
  MaxBodies = 2
  MaxFaults = 1
  MaxHandlers = 2
  MaxEvents = 2
INVARIANTS TypeOK FlaggedEditKept CatchUpCovers
PROPERTY FlaggedEditAnswered
CHECK_DEADLOCK FALSE
