SPECIFICATION FairSpec
CONSTANTS
  Servers = {s, t}
  MaxInits = 3
  MaxChanges = 1
  MaxResets = 1
  MaxFaults = 2
INVARIANTS TypeOK ReadyIsOpen NoLeakedDatabase
PROPERTIES EditsSurvive BecomesReady LogoutCloses
CHECK_DEADLOCK FALSE
