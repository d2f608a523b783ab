SPECIFICATION FairSpec
CONSTANTS
  a = a
  b = b
  c = c
  fa = fa
  fb = fb
  fc = fc
  Files <- ThreeFiles
  Symbols <- ThreeSymbols
  Snapshots <- MCSnapshots
  Declared <- RuleDeclared
  NameOf <- RuleNameOf
  Prepared <- RulePrepared
  SymbolReads <- RuleSymbolReads
  NameReads <- RuleNameReads
  MaxPasses <- RuleMaxPasses
INVARIANTS
  PlansConsistent
  LeastRetention
  LimitOnlyByRelease
PROPERTIES
  AlwaysConverges
  ImplementsFullReplanning
CHECK_DEADLOCK FALSE
