CONSTANTS
    store = store
    van = van
    valve = valve
    pump = pump
    r1 = r1
    r2 = r2
    Doc = {1}
    Txn = {r1, r2}
    Ops = {"approve"}
    Item = {valve}
    Place = {store, van}
    Warehouse = {store}
    Shop = {}
    Draft <- DraftsRace
    Revision <- None
    Edit <- None
    Locator <- MCLocator
    Opening <- MCOpening
    OpenStore = 4
    OpenVan = 1
    World = {"free"}
    Nobody = Nobody
    NoCall = NoCall
    Null = Null
    Qty = {1, 2}
    Overdraft = {}
    Known <- MCLocator
    MaxPosts = 20
    MaxOnHand = 20
    MaxLineId = 0
\* Once every transfer of the instance is closed there is nothing left to do.
CHECK_DEADLOCK FALSE
SPECIFICATION MCSpec
INVARIANT ApprovedMovesOnce
