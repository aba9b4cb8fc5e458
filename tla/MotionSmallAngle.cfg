SPECIFICATION FairSpec
CONSTANTS
  Packets <- SmallAnglePackets
  Encoders = {"left", "right"}
  MaxPackets = 1
  MaxMoved = 6
  MaxCoast = 1
PROPERTIES
  Halts
