SPECIFICATION EthLiveSpec
CONSTANTS
  RxBufNb = 2
  TxBufNb = 2
  MaxPieces = 2
  MaxFrames = 3
  MaxSends = 3
CHECK_DEADLOCK FALSE
INVARIANTS
  EthTypeOK
  FramesAreWhole
  FramesInOrder
  SentAsAccepted
PROPERTIES
  BuffersReturn
  ReceptionResumes
  AcceptedAreSent
