SPECIFICATION FairSpec
CONSTANTS
  MaxBodies = 3
  MaxFaults = 1
  Validity = {TRUE, FALSE}
INVARIANTS TypeOK UnansweredEditKept PushesLocalWritesOnly
PROPERTIES AnsweredMeansStored EditsGetAnswered Promise
