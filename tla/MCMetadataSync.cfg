CONSTANTS
  loop = loop
  app = app
  d1 = d1
  label = label
  admin = admin
  tags = tags
  NoDevice = NoDevice
  EventsThread = loop
  Default = 0
  Device <- OneDevice
  Value <- Bits
  Caller <- WithApp
  Attr <- OnlyLabel
  Copied <- OnlyLabel
  Patched <- OnlyLabel
  QueueSize = 1
  AppOps <- PatchOnly
  UserOps <- AllOps
SPECIFICATION FairSyncSpec
INVARIANTS
  NothingForgotten
  DriverServesCached
PROPERTIES
  EventsReachFields
  EventuallyCached
