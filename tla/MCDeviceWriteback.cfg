CONSTANTS
  c1 = c1
  c2 = c2
  d1 = d1
  a1 = a1
  NoDevice = NoDevice
  Device <- OneDevice
  Caller <- TwoCallers
  Attr <- OneAttr
  Value <- Bits
SPECIFICATION Spec
INVARIANTS
  TypeOK
  SyncUnlessDisturbed
  SurprisesNeedOverlap
PROPERTIES
  ImplementsStore
