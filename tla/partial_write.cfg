SPECIFICATION WireSpec
CONSTANTS
  TCP_MSS = 536
  TCP_SND_BUF = 1072
  TCP_SND_QUEUELEN = 9
  MEM_SIZE = 1600
  ClientIdLens = {6}
  TopicLens = {11}
  PayloadLens = {52}
  MaxExtras = 2
  MaxRequests = 1
  MaxReplies = 1
  MaxTimeouts = 1
CHECK_DEADLOCK FALSE
INVARIANTS
  PacketsWhole
