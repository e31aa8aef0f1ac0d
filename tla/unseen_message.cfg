SPECIFICATION MemorySpec
CONSTANTS
  Windows = {5}
  MaxWindow = 5
  MaxEntries = 14
INVARIANTS
  PromptHasMessage
CHECK_DEADLOCK FALSE
