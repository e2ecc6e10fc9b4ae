CONSTANTS
    Null = Null
    Voucher = {}
    Incoming = {}
    Outgoing = {}
    Treasury = {b1}
    RepBox = {}
    OldestTreasury = b1
    Party = {}
    Clerk = {}
    Amount = {1}
    Entry = {e1, e2, e3}
    ByHand = {e1, e2}
    JournalId = {misc, sales}
    Misc = misc
    Month = {1, 2}
    Year <- MCYear
    Text = {x}
    Poster = {r1}
    JournalOps = {"post", "document", "lock"}
    Car = {}
    Driver = {}
    Day = {1}
    CarRecord = {}
    Slip = {}
    Cost = {1}
SPECIFICATION Spec
CHECK_DEADLOCK FALSE
PROPERTY LockedStays
