SPECIFICATION Spec
CONSTANTS
  MQTT_REQUESTS_QUEUE_LEN = 2
  MaxConnects = 2
  SndBuf = 2
  MaxPacketId = 1
  KeepAlive = 2
  ConnectTimeout = 0
  PingTimeout = 1
  MaxAge = 0
  MaxRequests = 0
  Kinds = {}
  MaxMsgs = 0
  LongMsgs = {}
  MaxSeg = 2
  Resets = FALSE
  BrokerCloses = FALSE
  ConnectFails = FALSE
INVARIANTS
  ConnectedMeansAccepted
