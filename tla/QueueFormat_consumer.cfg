\* A byte has three values: a 16-bit length ends at 8, a 32-bit length at 80.
CONSTANTS
  Base = 3
  Groups <- MCGroups
  PathPrefixes <- MCPathPrefixes
  Compressions = {0, 1, 2}
  MaxBatches = 3
  MaxTrims = 1
SPECIFICATION Spec
INVARIANTS ReadsWhatWasWritten ConsumerReads DecodersStayInBounds
CHECK_DEADLOCK FALSE
