CONSTANTS
  Overflow = Overflow
  Refused = Refused
  Raised = Raised
  NaN = NaN
  None = None
  BitAnd <- Ands
  Float <- Float5
  Exact = 32
  Greatest = 64
  a = a
  b = b
  both = both
  anything = anything
  on = on
  off = off
  d1 = d1
  d2 = d2
  w1 = w1
  w2 = w2
  b1 = b1
  b2 = b2
  b3 = b3
  NotANumber = NotANumber
  Unsent = Unsent
  Numeric <- Numeric1
  Binary <- Binary1
  Blob <- Pictures
  Fingerprint <- Checksums
  Caller = {c1, c2}
  Profile <- Profiles3
  Request <- Requests
  Anything <- anything
  Sensed <- SensedValues
  MaxCmdOps = 2
  MaxAsks = 2
  MaxEdits = 1
  Producer = {p1, p2}
  Capacity = 1
  Sizes = {0, 1, 2}
  MaxPuts = 3
  MaxCommands = 2
  MaxClock = 2
  Candidate = {d1, d2}
  Watcher = {w1, w2}
  MaxFinds = 2
  Number = {0, 1, 2, 3}
  Threshold = 1
SPECIFICATION FairSpec
CHECK_DEADLOCK FALSE
INVARIANTS
  PictureIsCurrent
  ReadsBackWhatWasSet
  DriverGetsLegalValues
  OriginsIncrease
PROPERTIES
  PumpsKeepUp
