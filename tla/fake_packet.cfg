SPECIFICATION Spec
CONSTANTS
  HeaderSize = 2
  MaxPacket = 4
  BufferSize = 3
  Capacity = 6
  Sizes <- AllSizes
  Packets <- AnyPackets
  MaxSent = 2
CHECK_DEADLOCK FALSE
INVARIANTS WrongSizeFound
