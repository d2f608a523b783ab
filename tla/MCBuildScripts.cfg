SPECIFICATION Spec
CONSTANTS
  root = root
  sub = sub
  deep = deep
  rootScript = rootScript
  subScript = subScript
  none = none
  first = first
  second = second
  Truncated = Truncated
  None = none
  Root = root
  Runs <- MCRuns
  Directories <- MCDirectories
  Parent <- MCParent
  ScriptIn <- MCScriptIn
  MaxFaults = 1
  MaxEdits = 1
INVARIANTS
  ScriptsConsistent
  JavaConfigured
  StaleScriptWritesNothing
SYMMETRY Twins
CHECK_DEADLOCK FALSE
