\* Three parties with ties, one of which may be deleted, and a fourth that is
\* created meanwhile; ids of one and two digits, a slack of two, pages of one
\* to three.
SPECIFICATION FairSpec
CONSTANTS
  None = None
  Ids = {8, 9, 10, 11}
  Digits <- TwoDigits
  AsString <- TwoDigitStrings
  Late = {11}
  Doomed = {10}
  Times = {1, 2}
  Limits <- SomeLimits
  DefaultSize = 2
  MaxSize = 3
  Slack = 2
INVARIANTS
  PagingTypeOK
  PagesDescend
  NothingSkipped
  PathsAgree
PROPERTIES
  WalkEnds
