SPECIFICATION Spec
CONSTANTS
    c1 = c1
    c2 = c2
    s1 = s1
    s2 = s2
    Calls = {c1, c2}
    Sessions = {s1, s2}
    Words <- MCWords
    FlagWords <- MCFlagWords
    Argvs <- AllArgvs
    Commands <- AllCommands
    ParseOf <- AllParseOf
    StripOf <- MCStripOf
    SafetyOf <- MCSafetyOf
    Ttl = 1
    MaxTime = 1
    MaxEpoch = 1
INVARIANTS
    RunsAreGrounded
    RulesComeFromOrdinaryCommands
    RulesMatchTheirCommands
    WaitersAreAnswerable
    DenialIsFinal
SYMMETRY Interchangeable
CHECK_DEADLOCK FALSE
