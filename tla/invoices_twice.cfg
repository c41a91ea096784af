SPECIFICATION Spec
CONSTANTS
    skuA = skuA
    skuB = skuB
    skuNew = skuNew
    r1 = r1
    r2 = r2
    s1 = s1
    Sku <- Codes
    NewSku <- Unknown
    Request <- TwoRequests
    OnHand0 = 2
    Reserved0 = 1
    MaxQuantity = 6
    Delta = {}
    NewOnHand = {}
    NewReserved = {}
    Scan <- OneScan
    Invoices <- OneInvoice
    MayCrash = FALSE
CHECK_DEADLOCK FALSE
INVARIANT AppliedOnce
