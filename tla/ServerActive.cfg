SPECIFICATION Spec
CONSTANTS
  Clients = {c1, c2}
  MaxCommands = 1
CHECK_DEADLOCK FALSE
PROPERTIES
  ActiveWorkerKept
