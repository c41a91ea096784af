SPECIFICATION FairSpec
CONSTANTS
    skuA = skuA
    skuB = skuB
    skuNew = skuNew
    r1 = r1
    r2 = r2
    s1 = s1
    Sku <- Codes
    NewSku <- Unknown
    Request <- TwoRequests
    OnHand0 = 1
    Reserved0 = 1
    MaxQuantity = 6
    Delta <- Withdrawals
    NewOnHand = {1}
    NewReserved = {}
    Scan <- OneScan
    Invoices <- SomeInvoices
    MayCrash = TRUE
CHECK_DEADLOCK FALSE
INVARIANTS
    TypeOK
    StockCoversReserved
    ConfirmedWasApplied
    TwiceOnlyIfContended
    StockIsConserved
PROPERTY RequestsEnd
