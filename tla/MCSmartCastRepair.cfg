\* Sites whose line is theirs, branches of two statements, a statement after.
CONSTANTS
  Owner = "Holder"
  Property = "p"
  LocalLimit = 6
  Placements <- OwnLine
  Menu = {"useX", "shadow", "redeclare", "property", "nested", "nestedY"}
  After = {"useX", "otherX", "nested", "property"}
  Programs <- Files
SPECIFICATION RepairSpec
INVARIANTS
  BindingsConsistent
  LocalsApart
  RepairComplete
CHECK_DEADLOCK FALSE
