\* Creates, deletes and two readers with pages of one or two parties; one
\* command may fail or be sent again, or the process may die once.
SPECIFICATION FairSpec
CONSTANTS
  None = None
  Parties = {1, 2}
  Limits = {1, 2}
  Readers = {r1, r2}
  MaxFaults = 1
INVARIANTS
  IndexTypeOK
  TtlUnlessFilling
  NoRedundantRebuild
PROPERTIES
  ImplementsListing
  EventuallyIndexed
  StaleDiesOut
