\* A user connects again before the hub has noticed the disconnect.
SPECIFICATION Spec
CONSTANTS
  u1 = u1
  u2 = u2
  c1 = c1
  c2 = c2
  c3 = c3
  None = None
  Users = {u1}
  Clients = {c1, c2}
  UserOf <- TwoClients
  Parties = {p1}
  SendCap = 1
  Overlapping = TRUE
  Redis = FALSE
  RedisFaults = FALSE
PROPERTIES
  NewestStays
