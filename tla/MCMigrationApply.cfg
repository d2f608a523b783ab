SPECIFICATION Spec
CONSTANTS
  r1 = r1
  r2 = r2
  Runs <- MCRuns
  Sources = {"F"}
  Declarations = {"A", "f"}
  Types = {"A"}
  FileOf <- MCFileOf
  None = None
  MaxFaults = 2
  MaxEdits = 1
INVARIANTS
  TreeConsistent
  NothingLost
  AgreeingRunsLoseNothing
  OnlyLateEditsAreLost
SYMMETRY MCSymmetry
CHECK_DEADLOCK FALSE
