CONSTANTS
  c1 = c1
  c2 = c2
  p1 = p1
  s1 = s1
  s2 = s2
  NoDevice = NoDevice
  Caller <- OneCaller
  Source <- OneSource
  Patcher <- OnePatcher
  Invalid <- NoSource
  Capacity = 1
  Connected = TRUE
  Calls <- AllCalls
  Changes <- AllChanges
  MaxOps = 2
SPECIFICATION FairSpec
CHECK_DEADLOCK FALSE
INVARIANTS
  
  NoOrphans
  
PROPERTIES
  StoppedEnds
