SPECIFICATION FairSpec
CONSTANTS
  Clients = {c1, c2}
  MaxCommands = 2
CHECK_DEADLOCK FALSE
INVARIANTS
  TypeOK
  FreedNotCurrent
PROPERTIES
  ClosedFreed
  QueuedServed
