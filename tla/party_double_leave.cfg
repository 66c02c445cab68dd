\* A user with two LeaveParty requests in flight.
SPECIFICATION Spec
CONSTANTS
  u1 = u1
  u2 = u2
  u3 = u3
  u4 = u4
  r1 = r1
  r2 = r2
  r3 = r3
  r4 = r4
  None = None
  Users = {u1, u2}
  Parties = {p1}
  Requests = {r1, r2, r3}
  UserOf <- FirstTwice
  MaxNums = {1}
  Endpoints <- Handlers
  DbFaults = FALSE
INVARIANTS
  NoOverbooking
