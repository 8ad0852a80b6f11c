CONSTANTS
  loop = loop
  app = app
  d1 = d1
  label = label
  admin = admin
  tags = tags
  NoDevice = NoDevice
  EventsThread = loop
  Default = 0
  Device <- OneDevice
  Value <- Bits
  Caller <- EventsAlone
  Attr <- OnlyLabel
  Copied <- OnlyLabel
  Patched <- OnlyLabel
  QueueSize = 2
  AppOps <- NoneAtAll
  UserOps <- DeleteOnly
SPECIFICATION SyncSpec
INVARIANTS
  CacheFollowsMetadata
CHECK_DEADLOCK FALSE
