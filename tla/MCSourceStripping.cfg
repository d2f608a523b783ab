SPECIFICATION Spec
CONSTANTS
    Files <- MCFiles
    Reasons = {"why", "other"}
    MaxRuns = 3
INVARIANTS
    MarkersConsistent
PROPERTIES
    UserLinesSurvive
    RunningAgainChangesNothing
    SpeculationSeesTheResidue
CHECK_DEADLOCK FALSE
