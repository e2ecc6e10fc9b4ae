CONSTANTS
    auto = auto
    button = button
    c1 = c1
    c2 = c2
    Null = Null
    Uuid <- MCUuid
    Kind <- MCKind
    Base <- MCBase
    LineCount <- MCLineCount
    Pusher = {auto, button}
    Plan <- PlanCash
    Together <- InvoiceAndReceiptOrTransfers
    Tolerant = {auto}
    Conn = {c1}
    UserOps = {"edit", "delete", "office"}
    MaxVersion = 2
    MaxFault = 1
    World = {"stock", "phone", "agent"}
    x1 = x1
    x2 = x2
    Run = {x1, x2}
    Punch <- Three
    Batch = 2
    Overlap = 1
    FirstDay = 1
    NewMonths = {3}
    MaxCuts = 1
    shop = shop
    fresh = fresh
    r1 = r1
    r2 = r2
    Txn = {r1, r2}
    Locator = {shop, fresh}
    Nobody = Nobody
    NoCall = NoCall
    Qty = {1}
    Overdraft = {}
    Known = {shop}
    Opening <- MCOpening
    MaxPosts = 2
    MaxOnHand = 2
CHECK_DEADLOCK FALSE
SPECIFICATION MCFairSpec
PROPERTIES EveryRequestEnds AgreeInTheEnd PunchesArriveAlone
