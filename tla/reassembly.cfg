SPECIFICATION ReceiveLiveSpec
CONSTANTS
  TCP_WND = 262
  TCP_MSS = 131
  PublishLens = {128}
  CutPoints = {1, 3, 4, 5, 6, 70, 132}
  MaxPackets = 2
CHECK_DEADLOCK FALSE
INVARIANTS
  ReceiveTypeOK
  DeliveredInOrder
  WindowRestored
  HandledAsSent
PROPERTIES
  OrderlyClose
  CallbackReturns
  StreamEnds
