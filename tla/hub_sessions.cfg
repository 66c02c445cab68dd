\* Two users, one of them reconnecting after each disconnect.
CHECK_DEADLOCK FALSE
SPECIFICATION Spec
CONSTANTS
  u1 = u1
  u2 = u2
  c1 = c1
  c2 = c2
  c3 = c3
  None = None
  Users = {u1, u2}
  Clients = {c1, c2, c3}
  UserOf <- ThreeClients
  Parties = {p1}
  SendCap = 1
  Overlapping = FALSE
  Redis = TRUE
  RedisFaults = FALSE
SYMMETRY Symmetry
INVARIANTS
  NoPanic
  NoGhostMembers
  PresenceAccurate
PROPERTIES
  ImplementsRooms
