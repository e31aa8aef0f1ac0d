SPECIFICATION Spec
CONSTANTS
  e1 = e1
  e2 = e2
  e3 = e3
  k1 = k1
  k2 = k2
  x1 = x1
  x2 = x2
  x3 = x3
  c1 = c1
  c2 = c2
  p1 = p1
  p2 = p2
  None = None
  Events = {e1, e2, e3}
  Contacts = {k1, k2}
  ExtIds = {x1, x2, x3}
  Convs = {c1, c2}
  Procs = {p1, p2}
  SenderOf <- TwoAndOne
  ExtIdOf <- ThreeIds
  MediaEvents = {}
  Budget <- Redelivery
INVARIANTS
  RepliesReachSender
  OnlyRacesSplit
PROPERTIES
  ContractHolds
  StoredOnce
  TakeoverEndsReplies
SYMMETRY Interchangeable
CHECK_DEADLOCK FALSE
