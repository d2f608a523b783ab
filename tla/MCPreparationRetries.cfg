SPECIFICATION FairSpec
CONSTANTS
  Families = {"f", "g"}
  Owners = {"A", "B", "C"}
  Workspaces <- MCWorkspaces
  Prepared <- MCPrepared
  Descendants <- MCDescendants
  Required <- MCRequired
  Accepts <- MCAccepts
  Rounds <- MCRounds
  Breaks <- MCBreaks
  Intersects <- MCIntersects
  Longest = 4
  Limit = 8
INVARIANTS
  PreparationConsistent
  LargestSupported
  LimitOnlyIfTooLow
PROPERTY RetriesEnd
CHECK_DEADLOCK FALSE
