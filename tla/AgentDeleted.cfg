CONSTANTS
  a1 = a1
  a2 = a2
  r1 = r1
  d1 = d1
  d2 = d2
  w = w
  None = None
  Runs = {r1}
  Approvals = {a1}
  RunOf <- OneRun
  Runners = {w}
  Resumers = {d1}
  Unregistered = {}
  MaxTurns = 1
  MaxFaults = 0
SPECIFICATION FairSpec
CHECK_DEADLOCK FALSE
PROPERTY ParkedIsAnswered
