\* Two emails, two requests at a time, one fault anywhere.
CHECK_DEADLOCK FALSE
SPECIFICATION FairSpec
CONSTANTS
  r1 = r1
  r2 = r2
  None = None
  Emails = {e1, e2}
  Codes = {k1, k2}
  Requests = {r1, r2}
  MaxFaults = 1
INVARIANTS
  ActivationTypeOK
  OneCode
  CodeNotWasted
  MailKept
PROPERTIES
  ImplementsSignup
  RegistrationMailed
