SPECIFICATION Spec
CONSTANTS
    Slots = {1, 2}
    MaxTurns = 1
    MaxItems = 2
    MaxSteps = 1
    MaxCancels = 0
    MaxRestores = 0
    MaxRemoves = 0
    MaxCrashes = 0
    Patient = TRUE
    MaxBreaks = 1
    MaxEvents = 3
INVARIANTS
    DoneIsComplete
CHECK_DEADLOCK FALSE
