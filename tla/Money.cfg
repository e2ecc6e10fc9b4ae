CONSTANTS
    Null = Null
    Voucher = {v1, v2}
    Incoming = {c1}
    Outgoing = {c2}
    Treasury = {b1, b2}
    RepBox = {}
    OldestTreasury = b1
    Party = {p1}
    Clerk = {k1}
    Amount = {1, 2}
    Entry = {e1, e2, e3}
    ByHand = {e1, e2}
    JournalId = {misc, sales}
    Misc = misc
    Month = {1, 2}
    Year <- MCYear
    Text = {x}
    Poster = {r1, r2}
    JournalOps = {"post", "draft", "reverse", "reset", "replace", "delete", "document", "lock", "restrict"}
    Car = {r1, r2}
    Driver = {ali, omar}
    Day = {1, 2}
    CarRecord = {e1, e2}
    Slip = {v1, v2}
    Cost = {1, 2}
SPECIFICATION Spec
CHECK_DEADLOCK FALSE
INVARIANTS
    CashAddsUp
    ChainIntactRace
    FleetAddsUp
PROPERTIES Overdrawn HeldFast
SYMMETRY MCSymmetry
