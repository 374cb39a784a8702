SPECIFICATION Spec
CONSTANTS
  MQTT_REQUESTS_QUEUE_LEN = 2
  MaxConnects = 2
  SndBuf = 3
  MaxPacketId = 2
  KeepAlive = 2
  ConnectTimeout = 0
  PingTimeout = 1
  MaxAge = 0
  MaxRequests = 2
  Kinds = {"sub"}
  MaxMsgs = 2
  LongMsgs = {}
  MaxSeg = 2
  Resets = FALSE
  BrokerCloses = FALSE
  ConnectFails = FALSE
INVARIANTS
  AckedWasDelivered
