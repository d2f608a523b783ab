SPECIFICATION Spec
CONSTANTS
  a = a
  b = b
  c = c
  fa = fa
  fb = fb
  fc = fc
  Files <- ThreeFiles
  Declarations <- ThreeDeclarations
  Workspaces <- MCWorkspaces
  FileOf <- RuleFileOf
  Strict <- RuleStrict
  Warned <- RuleWarned
  Answered <- RuleAnswered
  Calls <- RuleCalls
  Unrepairable <- RuleUnrepairable
  OutputPath <- RuleOutputPath
  Occupied <- RuleOccupied
  Kept <- RuleKept
  MaxRounds <- RuleMaxRounds
INVARIANTS
  OwnershipConsistent
  CallsReachTheirOwner
  RepairNeverRefuses
  NoUnprovenMove
  AcceptedPlanIsFinal
  LimitOnlyIfTooLow
CHECK_DEADLOCK FALSE
