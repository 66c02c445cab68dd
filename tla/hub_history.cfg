\* A history that is sent into a full channel nobody drains.
CHECK_DEADLOCK FALSE
SPECIFICATION FairSpec
CONSTANTS
  u1 = u1
  u2 = u2
  c1 = c1
  c2 = c2
  c3 = c3
  None = None
  Users = {u1, u2}
  Clients = {c1, c3}
  UserOf <- TwoUsers
  Parties = {p1}
  SendCap = 1
  Overlapping = FALSE
  Redis = TRUE
  RedisFaults = FALSE
PROPERTIES
  ReadersProceed
