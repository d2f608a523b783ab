SPECIFICATION FairSpec
CONSTANTS
  w1 = w1
  w2 = w2
  Workers <- MCWorkers
  Files = {"F"}
  Owners = {"O", "P"}
  None = None
  MaxAsks = 4
  MaxFaults = 1
  MaxEdits = 1
INVARIANTS
  ExchangeConsistent
  ReferencesDescribePlannedText
PROPERTIES
  EvidenceStays
  EveryQuestionReturns
CHECK_DEADLOCK FALSE
