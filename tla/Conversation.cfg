SPECIFICATION ConversationSpec
CONSTANTS
    Slots <- TwoSlots
    MaxTurns = 2
    MaxItems = 2
    MaxSteps = 1
    MaxCancels = 1
    MaxRestores = 1
    MaxRemoves = 1
    MaxCrashes = 1
    Patient = TRUE
    MaxBreaks = 1
    MaxEvents = 2
    CallIds = {1, 2, 3}
    MaxHistory = 8
    MaxShown = 4
    MaxReopens = 1
    MaxFailures = 1
    StreamBackends = {"codex", "openai_api", "anthropic_api", "bedrock_api"}
    MaxPieces = 3
    MaxStreamRows = 5
    Slugs = {1, 2}
    MaxListing = 2
    WordsAfter <- MCWordsAfter
    MaxWords = 4
    MaxDepth = 2
INVARIANTS
    WorkersAreTracked
    NoSilentClose
    TurnsDoNotMix
    HistoryStaysValid
    RepairIsSound
    StreamsAreKept
    ReplayIsFaithful
    CatalogueIsUsable
    LinesAreJudged
CHECK_DEADLOCK FALSE
