SPECIFICATION Spec
CONSTANTS
  PacketSize = 4
  MaxChunk = 4
  MaxBytes = 22
  Magic = {1, 5, 10, 13, 17}
  Sound = {1, 5, 10, 17}
INVARIANTS
  TypeOK
  Consecutive
  NeverWithholds
  LeftoversFlagged
  AcceptsOnlyAligned
PROPERTIES
  ImplementsPacketStream

