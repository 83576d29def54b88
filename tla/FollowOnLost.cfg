SPECIFICATION Spec
CONSTANTS
  Senders = {s1}
  Taps = {t1, t2}
  Followers = {f1}
  Hooks = {h1}
  Asks = {k1}
  None = None
INVARIANT StampedIsQueued
CHECK_DEADLOCK FALSE
