CONSTANTS
    Null = Null
    bill = bill
    late = late
    pay = pay
    shop = shop
    van = van
    solid = solid
    fresh = fresh
    Txn = {r1, r2}
    Line <- Lines4
    Entry = {bill, late, pay}
    EntryOf <- EntryOf4
    Amount <- Amount4
    Due <- Due4
    DebitMove = {bill}
    CreditMove = {}
    Ops = {"reconcile", "undo", "post", "reset", "cancel"}
    MaxLink = 6
    Permit = {d1, d2, d3}
    Scrap = {w1}
    CountSheet = {c1}
    Depot = {shop, van}
    Solid = solid
    Fresh = fresh
    BestDay = {1, 2}
    PermitLines <- MCPermitLines
    Counts <- MCCounts
    Purchase = {i1, i2}
    PurchaseReturn = {t1, t2}
    Yard = {shop, van}
    Goods = {solid, fresh}
    Buyer = {q1}
    BoughtLines <- MCBoughtLines
    BackLines <- MCBackLines
    Asset = {i1, i2}
    AssetKind <- MCAssetKind
    DepMonth = {1, 2, 3}
    Charge = {d1, d2, d3}
    Proceeds = {50}
    Accountant = {r1, r2}
SPECIFICATION Spec
SYMMETRY MCSymmetry
CHECK_DEADLOCK FALSE
INVARIANTS
    ClaimsAddUp
    PermitsAddUp
    ReturnedWithinBoughtAlone
    AssetsAddUp
PROPERTIES OldestFirst LackedStep
