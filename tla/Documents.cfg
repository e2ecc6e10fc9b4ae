CONSTANTS
    shop = shop
    p1 = p1
    p2 = p2
    Null = Null
    Invoice = {i1, i2}
    Return = {t1, t2}
    Loc = {shop, van}
    Piece = {p1, p2}
    Expiry = {1, 2}
    Home <- MCHome
    BestBefore <- MCBest
    Asker = {r1}
    SalesOps = {"edit", "delete", "standalone"}
    Sheet = {1, 2}
    Book <- MCBook
    Rep = {ali, omar}
    Load = {d1, d2, d3}
    Bill = {i1, i2}
    CouponReceipt = {t1, t2}
    nour = nour
    sami = sami
    q1 = q1
    Staff = {nour, sami}
    Number = {1, 2}
    Punch <- MCPunch
    PerDay = 2
    Day = {1, 2, 3}
    RestDay = {3}
    HandRow <- MCHandRow
    Table <- MCTable
    LeaveType = {"casual", "unpaid"}
    Direct = {"unpaid"}
    Quota <- MCQuota
    Leave = {q1, q2}
    World = {"sales", "sales_alone", "coupons", "coupons_loaded", "punches", "leaves", "hands"}
CHECK_DEADLOCK FALSE
SPECIFICATION Spec
SYMMETRY MCSymmetry
INVARIANTS
    SalesAddUp
    ReturnedWithinSoldAlone
    CouponsAddUp
    DaysAddUp
PROPERTY LockedStep
