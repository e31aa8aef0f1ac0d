SPECIFICATION MediaSpec
CONSTANTS
  m1 = m1
  p1 = p1
  p2 = p2
  None = None
  Messages = {m1}
  Media <- ThreeMedia
  Procs = {p1, p2}
  Settings <- WithKey
  MaxContexts = 1
  EnvKeys = {"GEMINI"}
  Edits = 0
  Faults = 0
INVARIANTS
  FallbackTranscribes
CHECK_DEADLOCK FALSE
