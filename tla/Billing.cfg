SPECIFICATION MCSpec
CONSTANTS
  Payments = {p1, p2}
  Total = 2
  Cards = {a1, a2}
  Workers = {w1, w2}
  None = None
  Earlier = {t1}
  Runs = {r1, r2}
  Requests = {q1}
  Callers = {c1, c2}
  Imports = {i1, i2}
INVARIANTS
  Typed
  CoveredIsSettled
  BookedOnce
  OneOpenChase
  ChargedOnlyAfterAFault
  CallersMakeOne
  WelcomedOwnsThePlan
PROPERTIES
  GateSpec
  ChasedOnlyWhenDue
  OnlyAllowedMoves
  ChasedUntilSettled
  EndsWithStripe
CHECK_DEADLOCK FALSE
