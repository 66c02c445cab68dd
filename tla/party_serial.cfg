\* Four users, one request each at a time; any statement may fail.
SPECIFICATION FairSpec
CONSTANTS
  u1 = u1
  u2 = u2
  u3 = u3
  u4 = u4
  r1 = r1
  r2 = r2
  r3 = r3
  r4 = r4
  None = None
  Users = {u1, u2, u3, u4}
  Parties = {p1}
  Requests = {r1, r2, r3, r4}
  UserOf <- FourUsers
  MaxNums = {0, 2}
  Endpoints <- Handlers
  DbFaults = TRUE
INVARIANTS
  TypeOK
  PlayernumWithinCapacity
  NoOverbooking
  HeadcountExact
  HeadcountCovers
  LeaversCanRejoin
PROPERTIES
  DeletedStaysClosed
  ImplementsRoster
  HandlersReturn
