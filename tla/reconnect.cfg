SPECIFICATION Spec
CONSTANTS
  MQTT_REQUESTS_QUEUE_LEN = 2
  MaxConnects = 2
  SndBuf = 2
  MaxPacketId = 3
  KeepAlive = 2
  ConnectTimeout = 0
  PingTimeout = 1
  MaxAge = 1
  MaxRequests = 2
  Kinds = {"pub0", "pub1", "pub2"}
  MaxMsgs = 0
  LongMsgs = {}
  MaxSeg = 2
  Resets = TRUE
  BrokerCloses = TRUE
  ConnectFails = TRUE
INVARIANTS
  QueueCounterExact
  AckFindsItsRequest
  CompletedOnce
PROPERTIES
  PromiseKept
