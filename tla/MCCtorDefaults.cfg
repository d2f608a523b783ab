\* Classes whose parameter types do not accept each other's values.
CONSTANTS
  Narrower <- NullOnly
  Erased <- Erasures
  Scenarios <- OrdinaryScenarios
SPECIFICATION DefaultsSpec
INVARIANTS
  DefaultsConsistent
  CallsKeepTheirMeaning
  ConstructorsDiffer
PROPERTY CallsFinish
CHECK_DEADLOCK FALSE
