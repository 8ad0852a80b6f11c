CONSTANTS
  Request = {a1, a2}
  StopCall = {p1}
  Id = {blank, x}
  Nobody = Nobody
  Device = {d1}
  Scan = {b1, b2}
  StopScan = {q1, q2}
  RequestId = {blank, x}
  Blank = blank
  Profile = {f1}
  Nothing = Nothing
SPECIFICATION FairSpec
CHECK_DEADLOCK FALSE
INVARIANTS
  StopsMissForCause
  ScansAddOnce
PROPERTIES
  StartedWorkEnds
