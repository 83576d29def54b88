SPECIFICATION MCSpec
CONSTANTS
  Senders = {s1}
  Taps = {x1, x2}
  Followers = {y1, y2}
  Hooks = {h1}
  Asks = {k1}
  None = None
  Editors = {x1, x2}
  Sweeps = {y1, y2}
  Cards = {z1, z2}
  MaxAttempts = 3
  Calls = {z1, z2}
  Requests = {x1, x2}
  LastSlot = 2
  Horizon = 2
  Buffer = 0
  Notice = 1
  Tickets = {z1, z2}
  Mails = {k1}
  Deliveries = {y1, y2}
  Replies = {h1}
  Staff = {x1, x2}
  Thread = Thread
SYMMETRY Symmetry
INVARIANTS
  Typed
  AcceptedTogether
  MailedOnce
  AskedOnce
  PostsExplained
  OutByApproval
  OneCallPerSlot
  ProviderAgrees
  ClientHeard
  NoLockCycle
PROPERTIES
  DecisionStands
  CancelledStays
CHECK_DEADLOCK FALSE
