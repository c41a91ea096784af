SPECIFICATION Spec
CONSTANTS
    k1 = k1
    k2 = k2
    a1 = a1
    a2 = a2
    c1 = c1
    NumPO = 1
    Key <- OneKey
    MaxMails = 1
    Client <- NoClients
    ToolTargets = {}
    CommitMayFail = FALSE
    Editing = FALSE
    Creating = FALSE
    MaxSweepFaults = 0
    Run <- OneRun
    Context = {"plain"}
    Production = TRUE
    MaxAttempts = 1
    RunMayCrash = FALSE
    NewSentAt = {}
    NewMessageId = {}
CHECK_DEADLOCK FALSE
PROPERTY FinalIsFinal
