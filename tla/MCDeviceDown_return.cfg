CONSTANTS
  c1 = c1
  c2 = c2
  Absent = Absent
  Caller <- OneCaller
  AllowedFails = 2
  Recovery = TRUE
  Floor = 2
SPECIFICATION FairSpec
PROPERTIES
  DownIsRetried
