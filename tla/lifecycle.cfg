SPECIFICATION FairSpec
CONSTANTS
  MQTT_REQUESTS_QUEUE_LEN = 1
  MaxConnects = 2
  SndBuf = 3
  MaxPacketId = 2
  KeepAlive = 2
  ConnectTimeout = 1
  PingTimeout = 1
  MaxAge = 2
  MaxRequests = 1
  Kinds = {"pub2"}
  MaxMsgs = 0
  LongMsgs = {}
  MaxSeg = 2
  Resets = TRUE
  BrokerCloses = TRUE
  ConnectFails = TRUE
PROPERTIES
  CallsReturn
  DeadConnectionNoticed
