SPECIFICATION Spec
CONSTANTS
  Byte = {0, 1}
  Capacity = 3
  Data <- AllData
INVARIANTS TypeOK
PROPERTIES IsFifo
