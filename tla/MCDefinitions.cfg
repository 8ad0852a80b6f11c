CONSTANTS
  None = None
  p1 = p1
  w1 = w1
  c1 = c1
  identifiers = identifiers
  labels = labels
  Profile <- Profile1
  Watcher <- Watcher1
  Caller <- Caller1
  Edition <- Editions
  Field <- Fields2
  OnAdd <- Added1
  OnUpdate <- Fields2
  Default = 0
  Instanced = TRUE
  Room = 1
  Calls = 2
  Edits = 2
SPECIFICATION Spec
CHECK_DEADLOCK FALSE
INVARIANTS
  LookupsAgree
  SurprisesAreExplained
  CachesFollow
PROPERTIES
  LostForCause
