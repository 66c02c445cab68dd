\* Two senders and two workers, a list of two, a queue of one message, two faults.
SPECIFICATION FairSpec
CONSTANTS
  s1 = s1
  s2 = s2
  w1 = w1
  w2 = w2
  j1 = j1
  Senders = {s1, s2}
  Joiners = {j1}
  Workers = {w1, w2}
  QueueCap = 1
  MaxLen = 2
  MaxSent = 3
  MaxFaults = 2
INVARIANTS
  ChatTypeOK
  HistoryBounded
  HistoryRecent
  JoinerCaughtUp
PROPERTIES
  ImplementsLog
  JobsDone
