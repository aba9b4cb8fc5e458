SPECIFICATION FairSpec
CONSTANTS
  Clients = {c1, c2}
  SERVER = SERVER
  Half = 128
  Residues = {1}
  Letters = {"l", "s", "k"}
  Amounts = {30}
  Powers = {75}
  Garbage = {"FORWARD"}
  MaxKeys = 2
  MaxCuts = 1
INVARIANTS TypeOK NoneSkipped
PROPERTIES ImplementsRemoteControl OrdersExecuted SignalEnds
CHECK_DEADLOCK FALSE
