SPECIFICATION FairSpec
CONSTANTS
  HeaderSize = 2
  MaxPacket = 4
  BufferSize = 3
  Capacity = 6
  Sizes <- AllSizes
  Packets <- AnyPackets
  MaxSent = 3
CHECK_DEADLOCK FALSE
INVARIANTS TypeOK Framed NeverOverflows NothingWaits FlowInv
PROPERTIES AllDelivered IsFifo
