\* The key may expire between EXISTS and ZADD; nothing fails.
SPECIFICATION Spec
CONSTANTS
  None = None
  Parties = {1, 2}
  Limits = {1}
  Readers = {r1}
  MaxFaults = 0
PROPERTIES
  NoLoneIndex
