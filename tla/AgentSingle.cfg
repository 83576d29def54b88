CONSTANTS
  a1 = a1
  a2 = a2
  r1 = r1
  d1 = d1
  d2 = d2
  w = w
  None = None
  Runs = {r1}
  Approvals = {a1, a2}
  RunOf <- OneRun
  Runners = {w}
  Resumers = {d1}
  Unregistered = {a2}
  MaxTurns = 1
  MaxFaults = 1
SPECIFICATION Spec
CHECK_DEADLOCK FALSE
INVARIANT OnceOnly
PROPERTIES ClaimedForItsPark GateSpec
