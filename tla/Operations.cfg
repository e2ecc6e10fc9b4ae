CONSTANTS
    Null = Null
    Order = {o1, o2}
    Item = {part, raw}
    part = part
    raw = raw
    l1 = l1
    l2 = l2
    m1 = m1
    m2 = m2
    o1 = o1
    o2 = o2
    Draft <- MCDraft
    Stocked <- MCStocked
    Output = {1, 2}
    MaxReceipts = 2
    Employee = {e1, e2}
    e1 = e1
    e2 = e2
    Month = {1, 2}
    Advance = {a1}
    Adjustment = {x1}
    Plan <- MCPlan
    Salary <- MCSalary
    Insurance <- MCInsurance
    Extra = {0, 1}
    MaxRuns = 2
    Stream = {s1, s2}
    QueueMax = 1
    MaxChange = 2
    MaxLoss = 1
    MaxStops = 1
    Login = {r1, r2}
    MaxFailures = 3
    LockTime = 2
    ForgetTime = 3
    EndOfTime = 7
    Visit = {v1, v2}
    Visitor = {ali, omar}
    ali = ali
    c1 = c1
    Merchant = {m1}
    Custody = {c1, c2}
    Part = {pipe, valve}
    Loose = {glue}
    pipe = pipe
    valve = valve
    glue = glue
    Basket <- MCBasket
    Filled = 1
    MaxTurns = 2
SPECIFICATION Spec
CHECK_DEADLOCK FALSE
INVARIANTS
    ProductionAddsUp
    PayrollAddsUp
    BehindOnlyForAMoment
    GuardHolds
    VisitsAddUp
PROPERTIES OverdrawnStep ShowsTheLast StopsWhenTold
