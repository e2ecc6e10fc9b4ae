\* Two concurrent requests over a locator that holds two pieces, one that
\* production may overdraw, and one whose lock row does not exist yet.
CONSTANTS
    shop = shop
    wip = wip
    van = van
    fresh = fresh
    r1 = r1
    r2 = r2
    Txn = {r1, r2}
    Locator = {shop, wip, fresh}
    Nobody = Nobody
    NoCall = NoCall
    Qty = {1}
    Overdraft = {wip}
    Known = {shop, wip}
    Opening <- MCOpening
    MaxPosts = 2
    MaxOnHand = 2
SPECIFICATION Spec
SYMMETRY MCSymmetry
INVARIANTS TypeOK NonNegative OneWriter
PROPERTY Serializable
