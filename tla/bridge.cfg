SPECIFICATION BridgeSpec
CONSTANTS
  MaxBytes = 2
  Window = 1
INVARIANTS
  BridgeTypeOK
  EndIsReal
PROPERTIES
  BridgesStreams
  BytesArrive
  EndPropagates
  HandlerEnds
CHECK_DEADLOCK FALSE
