SPECIFICATION Spec
CONSTANTS
  Packets <- LongPackets
  Encoders = {"left"}
  MaxPackets = 1
  MaxMoved = 62
  MaxCoast = 1
PROPERTIES
  NoEarlyStop
