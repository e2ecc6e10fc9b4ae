CONSTANTS
    store = store
    van = van
    valve = valve
    pump = pump
    r1 = r1
    r2 = r2
    Doc = {1}
    Txn = {r1, r2}
    Ops = {"approve", "auto", "cancel", "delete", "revise", "reject", "add_line", "set_line", "remove_line"}
    Item = {valve}
    Place = {store, van}
    Warehouse = {store}
    Shop = {}
    Draft <- DraftsEither
    Revision <- RevisionsOneItem
    Edit <- EditsOneItem
    Locator <- MCLocator
    Opening <- MCOpening
    OpenStore = 3
    OpenVan = 1
    World = {"alone", "race"}
    Nobody = Nobody
    NoCall = NoCall
    Null = Null
    Qty = {1, 2, 3, 4, 5, 6, 7, 8, 9, 10, 11, 12, 13, 14, 15, 16, 17, 18, 19, 20}
    Overdraft = {}
    Known <- MCLocator
    MaxPosts = 20
    MaxOnHand = 20
    MaxLineId = 5
\* Once every transfer of the instance is closed there is nothing left to do.
CHECK_DEADLOCK FALSE
SPECIFICATION MCSpec
SYMMETRY MCSymmetry
INVARIANTS MovedAsApprovedAlone PendingMovesNothing StockIsExplained
PROPERTY AutoApprovalAlone
