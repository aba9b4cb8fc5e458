SPECIFICATION FairSpec
CONSTANTS
  Packets <- AllPackets
  Encoders = {"left", "right"}
  MaxPackets = 2
  MaxMoved = 4
  MaxCoast = 1
INVARIANTS
  Armed
PROPERTIES
  Halts
