\* A code runs out; nothing fails.
CHECK_DEADLOCK FALSE
SPECIFICATION Spec
CONSTANTS
  r1 = r1
  r2 = r2
  None = None
  Emails = {e1}
  Codes = {k1, k2}
  Requests = {r1}
  MaxFaults = 0
INVARIANTS
  ExpiredMayRegister
