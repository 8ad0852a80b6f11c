CONSTANTS
  Service = Service
  p1 = p1
  p2 = p2
  d1 = d1
  w1 = w1
  Profile <- Profiles2
  Device <- Devices1
  Watcher <- Watchers1
  ProfileOf <- Uses
  Section = {s1, s2}
  Watch = {x1, x2}
  NoWatch = NoWatch
  MaxWrites = 3
  Key = {k1, k2}
  Driver = {c1, c2}
  Http = Http
  Request = {q1, q2}
  Renewer = {n1, n2}
  NoRenewer = NoRenewer
  Ttl = 2
SPECIFICATION FairSpec
CHECK_DEADLOCK FALSE
INVARIANTS
  ServedIsRegistered
  NothingLeftBehind
  StoppedCallsOnce
  SecretsAreExplained
PROPERTIES
  StoppedThreadsEnd
  HeardAtLast
