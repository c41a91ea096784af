SPECIFICATION PlatformSpec
CONSTANTS
    Moving = {"mail", "cache", "runs", "breaker", "browser", "questions"}
    Mail = {"m1"}
    Order = {"o1"}
    OrderOf <- MCOrderOf
    MailWorker = {"w1", "w2"}
    MAX_RETRIES = 1
    NumEscalations = 2
    MaxFaults = 2
    Proc = {"p1", "p2"}
    Reader = {"r1", "r2"}
    ProcOf <- MCProcOf
    MaxWrites = 1
    MaxOutages = 1
    AgentWorker = {"w1", "w2"}
    NumRuns = 3
    MaxKills = 2
    Evaluator = {"v1", "v2"}
    NumEvents = 3
    Forecaster = {"f1", "f2"}
    Horizon = 1
    LastDay = 2
    NumForecasts = 2
    MaxForecastFaults = 1
    PROVIDER_PRIORITY <- MCOneProvider
    Caller = {"c1", "c2"}
    FAILURE_THRESHOLD = 2
    MaxCalls = 3
    AccountRequest = {"q1", "q2"}
    NumTokens = 3
    Tab = {"t1"}
    Request = {"q1", "q2"}
    TabOf <- MCTabOf
    NumPairs = 3
    Turn = {"a1", "a2"}
    NoTurn = "none"
    Question = {"q1", "q2"}
    PoolSize = 1
    MaxTries = 2
    Value = {0, 1}
    MaxConditions = 1
    Client = {"c1", "c2"}
    RoleOf <- MCRoleOf
    Product = {"p1"}
    Supplier = {"s1"}
    Sku = {"k1"}
    PO = {"o1"}
    Child = {"stock"}
    Doc = {"d1", "d2"}
    Searcher = {"s1"}
    Editor = {}
    MaxEmbedTries = 2
    Item = {"i1", "i2"}
    NoItem = "none"
    Decider = {"d1"}
    tool_retries = 1
PROPERTIES
    MailIsSettled
    StalenessEnds
    NoRunHangs
    CircuitsHalfOpen
    RequestsSettle
    EveryQuestionIsAnswered
CHECK_DEADLOCK FALSE
