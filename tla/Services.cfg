SPECIFICATION ServicesSpec
CONSTANTS
    c1 = c1
    c2 = c2
    x1 = x1
    q1 = q1
    t1 = t1
    t2 = t2
    t3 = t3
    f1 = f1
    xt = xt
    xf = xf
    a1 = a1
    r1 = r1
    r2 = r2
    m1 = m1
    s1 = s1
    b1 = b1
    Invokes = {c1, c2}
    CancelTools = {x1}
    Searches = {q1}
    SessionOf <- MCSessionOf
    Absent = Absent
    Chats = {t1, t2}
    Flows = {f1}
    Cancels = {xt, xf}
    Admin = {a1}
    Queries = {q1}
    KeyOf <- MCKeyOf
    PluginBackends = {b1}
    NoToken = NoToken
    OAuthCallers = {r1, r2, m1}
    Droppable = {r1, r2}
    MaxRotations = 2
    Nothing = Nothing
    Unary = {"u1"}
    Streams = {"s1"}
    Kinds = {"provider", "extension"}
    QueueCapacity = 1
    ChatCapacity = 2
    PipeCapacity = 1
    MaxItems = 2
INVARIANTS
    NoOrphanRoutes
    
    TerminalIsLast
    CancelIsScoped
    
    ChatsAreTracked
    TokensKeepStep
PROPERTIES
    DeathReleasesCallers
    RequestsReturn
    PluginWorkEnds
CHECK_DEADLOCK FALSE
