SPECIFICATION Spec
CONSTANTS
  MQTT_REQUESTS_QUEUE_LEN = 2
  MaxConnects = 1
  SndBuf = 2
  MaxPacketId = 2
  KeepAlive = 1
  ConnectTimeout = 1
  PingTimeout = 1
  MaxAge = 0
  MaxRequests = 2
  Kinds = {"sub", "unsub", "pub1"}
  MaxMsgs = 3
  LongMsgs = {3}
  MaxSeg = 2
  Resets = FALSE
  BrokerCloses = TRUE
  ConnectFails = FALSE
INVARIANTS
  AckFindsItsRequest
  AckedWasDelivered
PROPERTIES
  PromiseKept
