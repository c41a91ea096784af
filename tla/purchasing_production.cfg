SPECIFICATION Spec
CONSTANTS
    k1 = k1
    k2 = k2
    a1 = a1
    a2 = a2
    c1 = c1
    NumPO = 2
    Key <- TwoKeys
    MaxMails = 1
    Client <- OneClient
    ToolTargets = {"email_sent"}
    CommitMayFail = TRUE
    Editing = TRUE
    Creating = TRUE
    MaxSweepFaults = 0
    Run <- OneRun
    Context = {"auto"}
    Production = TRUE
    MaxAttempts = 1
    RunMayCrash = FALSE
    NewSentAt = {}
    NewMessageId = {}
CHECK_DEADLOCK FALSE
INVARIANTS
    UniqueActive
    OnlyManagersApprove
