SPECIFICATION Spec
CONSTANTS
  Packets <- StraightPackets
  Encoders = {"left"}
  MaxPackets = 3
  MaxMoved = 4
  MaxCoast = 1
INVARIANTS
  TypeOK
  ShowsArrival
PROPERTIES
  NoEarlyStop
