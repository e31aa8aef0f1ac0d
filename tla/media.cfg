SPECIFICATION MediaSpec
CONSTANTS
  m1 = m1
  p1 = p1
  p2 = p2
  None = None
  Messages = {m1}
  Media <- ThreeMedia
  Procs = {p1, p2}
  Settings <- ThreeSettings
  MaxContexts = 2
  EnvKeys = {"OPENAI", "GEMINI"}
  Edits = 1
  Faults = 2
INVARIANTS
  MediaInv
  OneContextDecides
  TranscriptionStaysUsable
  DecidedWhenScheduled
  ProcessingIsLive
PROPERTIES
  MediaContractHolds
  MediumIsDecided
CHECK_DEADLOCK FALSE
