SPECIFICATION FairSpec
CONSTANTS
  MQTT_REQUESTS_QUEUE_LEN = 2
  MaxConnects = 1
  SndBuf = 2
  MaxPacketId = 2
  KeepAlive = 2
  ConnectTimeout = 0
  PingTimeout = 1
  MaxAge = 0
  MaxRequests = 2
  Kinds = {"pub0", "sub", "pub2"}
  MaxMsgs = 2
  LongMsgs = {}
  MaxSeg = 2
  Resets = FALSE
  BrokerCloses = FALSE
  ConnectFails = FALSE
PROPERTIES
  SegmentsEnd
