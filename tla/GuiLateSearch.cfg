SPECIFICATION GuiSpec
CONSTANTS
    u1 = u1
    u2 = u2
    k1 = k1
    k2 = k2
    k3 = k3
    e1 = e1
    e2 = e2
    e3 = e3
    n1 = n1
    n2 = n2
    p1 = p1
    p2 = p2
    b1 = b1
    b2 = b2
    x1 = x1
    x2 = x2
    c1 = c1
    c2 = c2
    a1 = a1
    a2 = a2
    f1 = f1
    f2 = f2
    h1 = h1
    h2 = h2
    g1 = g1
    g2 = g2
    t1 = t1
    t2 = t2
    t3 = t3
    t4 = t4
    Uuids = {u1, u2}
    OldSessions = {u1}
    MaxInputs = 6
    MaxQueue = 2
    NoUuid = NoUuid
    Calls = {k1, k2, k3}
    Buttons <- MCButtons
    MaxMoves = 4
    NoSelection = NoSelection
    StoredSessions <- MCStored
    Needles = {n1, n2}
    Matches <- MCMatches
    MaxSteps = 5
    NoRow = NoRow
    NoNeedle = NoNeedle
    Plugs = {p1, p2}
    MaxClicks = 4
    MaxPageTasks = 2
    Offers = {b1, b2}
    GrantedPrefixes = {x1, x2}
    MaxActs = 4
    NoBackend = NoBackend
    Clipboards <- MCClipboards
    MaxEdits = 3
    MaxReads = 2
    Paths <- MCPaths
    MaxEntries = 2
    MaxChanges = 3
    FileKinds <- MCFileKinds
    MaxFiles = 4
    MaxResults = 2
    ChunkSize = 3
    Lines = {"text", "cells", "delimiter", "markdown", "fence", "blank"}
    MaxLines = 5
    MaxSections = 3
    MaxParsed = 8
    MaxNesting = 4
    Capabilities = {c1, c2}
    Replies <- MCReplies
    MaxSectionItems = 1
    MaxPresses = 4
    MaxWaiting = 1
    NoPanel = NoPanel
    Accounts = {a1, a2}
    Catalogues <- MCCatalogues
    MaxPicks = 3
    MaxDrifts = 1
    MaxLookups = 2
    NoChoice = NoChoice
    AppIds = {g1, g2}
    NumDirs = 2
    Texts = {t1, t2, t3, t4}
    Sensitive = {t4}
    HistoryLimit = 2
    MaxInstalls = 2
    MaxCopies = 5
    NoText = NoText
INVARIANTS
    PageMatchesMode
CHECK_DEADLOCK FALSE
