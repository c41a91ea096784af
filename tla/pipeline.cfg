SPECIFICATION Spec
CONSTANTS
    skuA = skuA
    skuB = skuB
    d1 = d1
    d2 = d2
    Sku <- TwoSkus
    NumFlags = 2
    NumPO = 2
    Key <- ThreeKeys
    MaxMails = 1
    Client <- NoClients
    ToolTargets = {}
    CommitMayFail = FALSE
    Editing = FALSE
    Creating = FALSE
    NewSentAt = {}
    NewMessageId = {}
    Run <- TwoDeliveries
    Context = {"plain"}
    Production = TRUE
    MaxAttempts = 1
    RunMayCrash = TRUE
CHECK_DEADLOCK FALSE
INVARIANTS
    TypeOK
    ConsumedWasOrdered
    OneOpenFlagUnlessOverlapped
    OneOpenOrderUnlessTroubled
SYMMETRY DeliverySymmetry
