SPECIFICATION AccountsSpec
CONSTANTS
  s1 = s1
  s2 = s2
  a = a
  p1 = p1
  p2 = p2
  q1 = q1
  q2 = q2
  q3 = q3
  None = None
  Slugs = {s1, s2}
  Emails = {a}
  Passwords = {p1, p2}
  Requests = {q1, q2, q3}
  Existing <- Before
  ForgotMax = 2
  Faults = 1
INVARIANTS
  AccountsInv
  LinkFollowsToken
  OneOwner
  VerifiedThroughLink
  LinkSetsOnePassword
  OneUsableLink
  SessionEndsWithPassword
  CounterEnds
SYMMETRY Interchangeable
CHECK_DEADLOCK FALSE
