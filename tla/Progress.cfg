SPECIFICATION ProgressSpec
CONSTANTS
    c1 = c1
    c2 = c2
    s1 = s1
    Calls = {c1, c2}
    Sessions = {s1}
    Words <- MCWords
    FlagWords <- MCFlagWords
    Argvs <- AllArgvs
    Commands <- FewCommands
    ParseOf <- FewParseOf
    StripOf <- MCStripOf
    SafetyOf <- MCSafetyOf
    Ttl = 1
    MaxTime = 1
    MaxEpoch = 1
    Slots <- TwoSlots
    MaxTurns = 2
    MaxItems = 1
    MaxSteps = 1
    MaxCancels = 1
    MaxRestores = 1
    MaxRemoves = 1
    MaxCrashes = 0
    Patient = TRUE
    MaxBreaks = 0
    MaxEvents = 3
PROPERTIES
    CallsAreDecided
    ChatsEnd
CHECK_DEADLOCK FALSE
