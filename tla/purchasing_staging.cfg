SPECIFICATION Spec
CONSTANTS
    k1 = k1
    k2 = k2
    a1 = a1
    a2 = a2
    c1 = c1
    NumPO = 2
    Key <- OneKey
    MaxMails = 2
    Client <- NoClients
    ToolTargets = {}
    CommitMayFail = FALSE
    Editing = FALSE
    Creating = FALSE
    MaxSweepFaults = 1
    Run <- TwoRuns
    Context = {"callback"}
    Production = FALSE
    MaxAttempts = 1
    RunMayCrash = TRUE
    NewSentAt = {}
    NewMessageId = {}
CHECK_DEADLOCK FALSE
INVARIANTS
    TypeOK
    UniqueActive
    PastGateWasApproved
    MailWasApproved
    WorkflowWasMailed
    SweepSeesAwaiting
PROPERTIES
    DecisionsAreSerialised
    ImplementsMailGate
SYMMETRY RunSymmetry
