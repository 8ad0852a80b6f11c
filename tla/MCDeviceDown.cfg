CONSTANTS
  c1 = c1
  c2 = c2
  Absent = Absent
  Caller <- TwoCallers
  AllowedFails = 2
  Recovery = TRUE
  Floor = 1
SPECIFICATION Spec
INVARIANTS
  TypeOK
  ExhaustedIsDown
PROPERTIES
  DownIsEarned
  SuccessRestoresUp
