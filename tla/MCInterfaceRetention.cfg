SPECIFICATION Spec
CONSTANTS
  a = a
  b = b
  c = c
  Limit = 8
INVARIANT IncrementalMatchesFull
CHECK_DEADLOCK FALSE
