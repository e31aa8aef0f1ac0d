SPECIFICATION IntakeSpec
CONSTANTS
  ch1 = ch1
  ch2 = ch2
  ch3 = ch3
  b1 = b1
  b2 = b2
  b3 = b3
  m1 = m1
  m2 = m2
  m3 = m3
  r1 = r1
  r2 = r2
  None = None
  Channels = {ch1, ch2, ch3}
  Calls = {r1, r2}
  Bodies = {b1, b2, b3}
  Ids = {m1, m2, m3}
  Payload <- Payloads
  InitialType <- Types
  Provider <- Providers
  Posts <- Posting
  Faults = 2
  Edits = 1
INVARIANTS
  IntakeInv
  AckedIsQueued
  TracedToLog
  RemovedIsSilent
  LogTellsOutcome
SYMMETRY Interchangeable
CHECK_DEADLOCK FALSE
