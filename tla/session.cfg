SPECIFICATION FairSpec
CONSTANTS
  MQTT_REQUESTS_QUEUE_LEN = 2
  MaxConnects = 1
  SndBuf = 2
  MaxPacketId = 3
  KeepAlive = 1
  ConnectTimeout = 1
  PingTimeout = 1
  MaxAge = 0
  MaxRequests = 3
  Kinds = {"pub1", "pub2", "sub", "unsub"}
  MaxMsgs = 1
  LongMsgs = {}
  MaxSeg = 2
  Resets = FALSE
  BrokerCloses = TRUE
  ConnectFails = FALSE
INVARIANTS
  TypeOK
  QueueCounterExact
  AckFindsItsRequest
  SlotAwaitsOnePacket
  AckedWasDelivered
  CompletedOnce
PROPERTIES
  SlotsFollowTheChains
  PromiseKept
  RequestsFinish
