CONSTANTS
  s1 = s1
  Sender <- Senders
  Accepted = 3
  Encodable <- Encodes
  Threshold = 2
  MaxBatch = 2
SPECIFICATION FairSpec
CHECK_DEADLOCK FALSE
INVARIANTS
  EventsAreAccounted
PROPERTIES
  BreakerRecovers
  QueueDrains
