SPECIFICATION ControllersSpec
CONSTANTS
    a1 = a1
    a2 = a2
    b1 = b1
    b2 = b2
    b3 = b3
    p = p
    q = q
    m1 = m1
    boot = boot
    change = change
    remove = remove
    again = again
    k1 = k1
    e1 = e1
    e2 = e2
    started = started
    added = added
    updated = updated
    removed = removed
    Attempts = {a1, a2}
    BackendOf <- MCBackendOf
    ProviderOf <- MCProviderOf
    Builtin = {q}
    Procs = {1, 2, 3}
    MaxOperations = 2
    Tables <- MCTables
    Null = Null
    Servers = {m1}
    McpTasks = {boot, change, remove, again}
    McpKind <- MCKind
    McpServer <- MCServer
    McpCalls = {k1}
    CalledServer = m1
    MaxRetries = 1
    None = None
    Extensions = {e1, e2}
    ExtTasks = {started, added, updated, removed}
    ExtKind <- MCExtKind
    ExtOf <- MCExtOf
    RenderCapacity = 2
    NoTask = NoTask
    StoredSessions = {1, 2}
    StoredPlugins = {1}
    Capabilities = {1}
    StoredItems <- MCStoredItems
    MaxStoreOps = 6
    DeviceAuthTimeout = 6
    ServerWindows = {0, 5, 9}
    PollInterval = 2
    CallbackTimeout = 7
    ReadTimeout = 2
    Connections = {"idle", "stray", "unreadable", "denied", "stateless", "callback"}
    MaxConnections = 3
    MaxFlows = 2
    Finalizers = {1, 2}
    Callers = {c1, c2}
    Refreshers = {r1, r2}
    Nobody = Nobody
    Ttls = {0, 1}
    Modulus = 8
    MaxWrites = 4
    MaxTime = 2
INVARIANTS
    AccountsAreWhole
    LoginsSucceed
    ServersSettle
    
    TablesAgree
    SlotIsServed
PROPERTIES
    AnswersComeIn
    SlotIsACache
CHECK_DEADLOCK FALSE
