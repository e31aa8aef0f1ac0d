SPECIFICATION MemorySpec
CONSTANTS
  Windows = {5, 6}
  MaxWindow = 6
  MaxEntries = 20
INVARIANTS
  MemoryInv
  NothingForgotten
  SummariesPrecede
  ActiveBounded
  PromptShowsMessage
CHECK_DEADLOCK FALSE
