SPECIFICATION PlatformSpec
CONSTANTS
    Moving = {"mail", "cache", "runs", "alerts", "forecasts", "breaker", "accounts", "browser",
              "chat", "questions", "filters", "catalog", "documents", "decisions"}
    Mail = {"m1", "m2"}
    Order = {"o1"}
    OrderOf <- MCOrderOf
    MailWorker = {"w1", "w2"}
    MAX_RETRIES = 1
    NumEscalations = 3
    MaxFaults = 1
    Proc = {"p1", "p2"}
    Reader = {"r1", "r2"}
    ProcOf <- MCProcOf
    MaxWrites = 2
    MaxOutages = 1
    AgentWorker = {"w1", "w2"}
    NumRuns = 3
    MaxKills = 2
    Evaluator = {"v1", "v2"}
    NumEvents = 3
    Forecaster = {"f1", "f2"}
    Horizon = 1
    LastDay = 2
    NumForecasts = 2
    MaxForecastFaults = 1
    PROVIDER_PRIORITY <- MCPriority
    Caller = {"c1", "c2"}
    FAILURE_THRESHOLD = 2
    MaxCalls = 2
    AccountRequest = {"q1", "q2"}
    NumTokens = 3
    Tab = {"t1"}
    Request = {"q1", "q2"}
    TabOf <- MCTabOf
    NumPairs = 3
    Turn = {"a1", "a2"}
    NoTurn = "none"
    Question = {"q1", "q2"}
    PoolSize = 1
    MaxTries = 2
    Value = {0, 1}
    MaxConditions = 1
    Client = {"c1", "c2"}
    RoleOf <- MCRoleOf
    Product = {"p1"}
    Supplier = {"s1"}
    Sku = {"k1"}
    PO = {"o1"}
    Child = {"stock"}
    Doc = {"d1"}
    Searcher = {"s1"}
    Editor = {"e1", "e2"}
    MaxEmbedTries = 2
    Item = {"i1", "i2"}
    NoItem = "none"
    Decider = {"d1"}
    tool_retries = 1
INVARIANTS
    PlatformTypeOK
    EscalationInv
    CacheInv
    OneFiringPerCooldown
    NewestForecastStands
    AccountInv
    ChatInv
    
    CatalogInv
    DeletedIsNotFound
    FlagIsAboutItsTarget
CHECK_DEADLOCK FALSE
