CONSTANTS
  m1 = m1
  m2 = m2
  s1 = s1
  s2 = s2
  None = None
  Messages = {m1}
  Senders = {s1, s2}
  MaxAttempts = 2
  MaxFaults = 1
SPECIFICATION FairSpec
CHECK_DEADLOCK FALSE
INVARIANTS TypeOK DuplicatesExplained
PROPERTIES SettledStays Delivered LateAnnounced
