SPECIFICATION Spec
CONSTANTS
    Slots = {1, 2, 3}
    MaxTurns = 2
    MaxItems = 2
    MaxSteps = 1
    MaxCancels = 0
    MaxRestores = 0
    MaxRemoves = 0
    MaxCrashes = 0
    Patient = FALSE
    MaxBreaks = 0
    MaxEvents = 3
INVARIANTS
    ToolStepsContinue
CHECK_DEADLOCK FALSE
