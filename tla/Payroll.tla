------------------------------- MODULE Payroll -------------------------------
(***************************************************************************)
(* Salaries of one branch and what is held back from them                  *)
(* (src/backend/src/services/salary_service.py, payroll_service.py,        *)
(* advance_service.py).                                                    *)
(*                                                                         *)
(* A month's run is calculated as a draft: each line reads the instalments *)
(* and adjustments due, and keeps what was entered by hand.  Posting books *)
(* the lines as they are and marks what is due by then as taken.  A posted *)
(* run is undone by reversing it and calculating the month again.          *)
(*                                                                         *)
(* A request is one transaction, taken at one instant.  Every employee has *)
(* a salary card; attendance, leave and commission are part of Salary.     *)
(***************************************************************************)
EXTENDS Integers, Sequences, FiniteSets, FiniteSetsExt, SequencesExt, NullValue

CONSTANTS
    Employee,
    Month,          \* a range of naturals
    Advance, Adjustment,
    Plan,           \* ways to pay an advance back: amounts by month
    Salary,         \* of each employee, before anything is held back
    Insurance,      \* what insurance takes from it
    Extra,          \* deductions entered by hand on a line
    MaxRuns         \* bound on the runs of a month

VARIABLES
    advance,        \* rows of employee_advance with their instalments
    adjustment,     \* rows of payroll_adjustment
    runs,           \* of each month, its payroll runs in order of reversal_seq
    books           \* balances of the accounts concerned

payrollVars == <<advance, adjustment, runs, books>>

Accounts == {"advances", "payable", "insurance"}

(* Rows of the tables: an advance with the instalments of months M, a run   *)
(* with the lines of employees E.                                           *)
RefRow == [month : Month, run : 1..MaxRuns, employee : Employee]
AdvanceRow(M) == [employee : Employee, status : {"active", "settled", "cancelled"},
                  parts : [M -> Int], taken : [M -> RefRow \cup {Null}]]
AdjustmentRow == [employee : Employee, month : Month, kind : {"bonus", "penalty"},
                  status : {"approved", "cancelled"}, taken : RefRow \cup {Null}]
LineRow == [deducted : Int, bonus : Nat, penalty : Nat, extra : Int, net : Int,
            payment : SUBSET Employee]
RunRow(E) == [status : {"draft", "posted", "reversed"}, excluded : SUBSET Employee,
              lines : [E -> LineRow]]

ASSUME PayrollAssumption ==
    /\ IsFiniteSet(Employee) /\ IsFiniteSet(Month)
    /\ IsFiniteSet(Advance) /\ IsFiniteSet(Adjustment)
    /\ \A plan \in Plan : /\ DOMAIN plan \subseteq Month /\ DOMAIN plan # {}
                          /\ plan \in [DOMAIN plan -> Int]
    /\ Salary \in [Employee -> Int] /\ Insurance \in [Employee -> Int]
    /\ Extra \subseteq Int /\ MaxRuns \in Nat
ASSUME PayrollNull ==
    /\ Null \notin RefRow /\ Null \notin AdjustmentRow /\ Null \notin {"draft", "posted", "reversed"}
    /\ \A M \in SUBSET Month : Null \notin AdvanceRow(M)

-----------------------------------------------------------------------------
(* The run a line belongs to is called by its month and place.              *)
Ref(m, k, e) == [month |-> m, run |-> k, employee |-> e]

Newest(m) == Len(runs[m])
Current(m) == IF Newest(m) > 0 THEN runs[m][Newest(m)].status ELSE Null
LinesOf(m) == IF Newest(m) > 0 THEN runs[m][Newest(m)].lines ELSE <<>>

Amount(a) == SumFunctionOnSet(a.parts, DOMAIN a.parts)

DueIn(adv, e, m) ==
    {a \in Advance :
        /\ adv[a] # Null /\ adv[a].employee = e /\ adv[a].status = "active"
        /\ m \in DOMAIN adv[a].parts /\ adv[a].taken[m] = Null}

AdjustmentsIn(adj, e, m) ==
    {x \in Adjustment :
        /\ adj[x] # Null /\ adj[x].employee = e /\ adj[x].month = m
        /\ adj[x].status = "approved" /\ adj[x].taken = Null}

Owed(adv, e, m) ==
    LET due == DueIn(adv, e, m) IN SumFunctionOnSet([a \in due |-> adv[a].parts[m]], due)

Counted(adj, e, m, kind) == Cardinality({x \in AdjustmentsIn(adj, e, m) : adj[x].kind = kind})

BuildLine(adv, adj, e, m, extra) ==
    LET deducted == Owed(adv, e, m)
        bonus == Counted(adj, e, m, "bonus")
        penalty == Counted(adj, e, m, "penalty")
    IN  [deducted |-> deducted, bonus |-> bonus, penalty |-> penalty, extra |-> extra,
         payment |-> {}, net |-> Salary[e] + bonus - extra - penalty - deducted - Insurance[e]]

(* Wrong on purpose: drafts are left as they were.                          *)
RefreshNothing(rs, adv, adj, E, M) == rs

(* The lines of E in the drafts of months M are calculated again.           *)
Refresh(rs, adv, adj, E, M) ==
    [m \in Month |->
        IF m \notin M \/ rs[m] = <<>> \/ rs[m][Len(rs[m])].status # "draft" THEN rs[m]
        ELSE [rs[m] EXCEPT ![Len(rs[m])].lines =
                [e \in DOMAIN @ |->
                    IF e \in E THEN BuildLine(adv, adj, e, m, @[e].extra) ELSE @[e]]]]

-----------------------------------------------------------------------------
Unpaid(a) == \A m \in DOMAIN a.parts : a.taken[m] = Null

GrantAdvance(a, e, plan) ==
    /\ advance[a] = Null
    /\ advance' = [advance EXCEPT ![a] =
        [employee |-> e, parts |-> plan, status |-> "active",
         taken |-> [m \in DOMAIN plan |-> Null]]]
    /\ books' = [books EXCEPT !["advances"] = @ + Amount(advance'[a])]
    /\ UNCHANGED <<adjustment, runs>>

UpdateAdvance(a, plan) ==
    /\ advance[a] # Null /\ advance[a].status = "active" /\ Unpaid(advance[a])
    /\ advance' = [advance EXCEPT ![a].parts = plan,
                                  ![a].taken = [m \in DOMAIN plan |-> Null]]
    /\ books' = [books EXCEPT !["advances"] = @ - Amount(advance[a]) + Amount(advance'[a])]
    /\ UNCHANGED <<adjustment, runs>>

CancelAdvance(a) ==
    /\ advance[a] # Null /\ advance[a].status # "cancelled" /\ Unpaid(advance[a])
    /\ advance' = [advance EXCEPT ![a].status = "cancelled",
                                  ![a].parts = <<>>, ![a].taken = <<>>]
    /\ books' = [books EXCEPT !["advances"] = @ - Amount(advance[a])]
    /\ UNCHANGED <<adjustment, runs>>

-----------------------------------------------------------------------------
Approved(e, m, kind) ==
    [employee |-> e, month |-> m, kind |-> kind, status |-> "approved", taken |-> Null]

(* On the screen of advances: no look at the month's run.                   *)
CreateAdjustment(x, e, m, kind) ==
    /\ adjustment[x] = Null
    /\ adjustment' = [adjustment EXCEPT ![x] = Approved(e, m, kind)]
    /\ UNCHANGED <<advance, runs, books>>

CancelAdjustment(x) ==
    /\ adjustment[x] # Null /\ adjustment[x].taken = Null
    /\ adjustment' = [adjustment EXCEPT ![x].status = "cancelled"]
    /\ UNCHANGED <<advance, runs, books>>

(* On the screen of salaries, where an old one may move to another month or *)
(* employee.                                                                *)
SaveAdjustment(x, e, m, kind) ==
    LET old == IF adjustment[x] = Null THEN {} ELSE {adjustment[x]}
        months == {m} \cup {r.month : r \in old}
    IN
    /\ \A r \in old : r.status # "cancelled" /\ r.taken = Null /\ Current(r.month) # "posted"
    /\ Current(m) # "posted"
    /\ adjustment' = [adjustment EXCEPT ![x] = Approved(e, m, kind)]
    /\ runs' = Refresh(runs, advance, adjustment', {e} \cup {r.employee : r \in old}, months)
    /\ UNCHANGED <<advance, books>>

DeleteAdjustment(x) ==
    /\ adjustment[x] # Null /\ adjustment[x].status # "cancelled" /\ adjustment[x].taken = Null
    /\ Current(adjustment[x].month) # "posted"
    /\ adjustment' = [adjustment EXCEPT ![x].status = "cancelled"]
    /\ runs' = Refresh(runs, advance, adjustment',
                       {adjustment[x].employee}, {adjustment[x].month})
    /\ UNCHANGED <<advance, books>>

-----------------------------------------------------------------------------
(* What the month's runs rs become; the last of them is the source of what  *)
(* was entered by hand and of who is left out.                              *)
Calculated(rs, adv, adj, m) ==
    LET source == IF rs = <<>> THEN [lines |-> <<>>, excluded |-> {}] ELSE rs[Len(rs)]
        extra(e) == IF e \in DOMAIN source.lines THEN source.lines[e].extra ELSE 0
        new == [status |-> "draft", excluded |-> source.excluded,
                lines |-> [e \in Employee \ source.excluded |->
                              BuildLine(adv, adj, e, m, extra(e))]]
    IN  IF rs # <<>> /\ rs[Len(rs)].status = "draft"
        THEN [rs EXCEPT ![Len(rs)] = new] ELSE Append(rs, new)

Calculate(m) ==
    /\ Current(m) # "posted"
    /\ Current(m) # "draft" => Newest(m) < MaxRuns
    /\ runs' = [runs EXCEPT ![m] = Calculated(@, advance, adjustment, m)]
    /\ UNCHANGED <<advance, adjustment, books>>

UpdateLine(m, e, extra) ==
    /\ Current(m) = "draft" /\ e \in DOMAIN LinesOf(m)
    /\ runs' = [runs EXCEPT ![m][Newest(m)].lines[e] = BuildLine(advance, adjustment, e, m, extra)]
    /\ UNCHANGED <<advance, adjustment, books>>

RemoveLine(m, e) ==
    /\ Current(m) = "draft" /\ e \in DOMAIN LinesOf(m)
    /\ runs' = [runs EXCEPT
        ![m][Newest(m)].lines = [q \in DOMAIN @ \ {e} |-> @[q]],
        ![m][Newest(m)].excluded = @ \cup {e}]
    /\ UNCHANGED <<advance, adjustment, books>>

AddLine(m, e) ==
    /\ Current(m) = "draft" /\ e \notin DOMAIN LinesOf(m)
    /\ runs' = [runs EXCEPT
        ![m][Newest(m)].lines = [q \in DOMAIN @ \cup {e} |->
            IF q = e THEN BuildLine(advance, adjustment, e, m, 0) ELSE @[q]],
        ![m][Newest(m)].excluded = @ \ {e}]
    /\ UNCHANGED <<advance, adjustment, books>>

DeleteDraft(m) ==
    /\ Current(m) = "draft"
    /\ runs' = [runs EXCEPT ![m] = Front(@)]
    /\ UNCHANGED <<advance, adjustment, books>>

-----------------------------------------------------------------------------
(* The entry of the run's lines, on each account.                           *)
Accrual(lines) ==
    LET E == DOMAIN lines IN
    [c \in Accounts |->
        CASE c = "advances" -> - SumFunctionOnSet([e \in E |-> lines[e].deducted], E)
          [] c = "payable" -> SumFunctionOnSet([e \in E |-> lines[e].net], E)
          [] c = "insurance" -> SumFunctionOnSet(Insurance, E)]

Consume(m, k) ==
    LET lines == runs[m][k].lines
        taken(a) ==
            \E e \in DOMAIN lines : a \in DueIn(advance, e, m)
        marked(a) ==
            IF taken(a) THEN [advance[a] EXCEPT !.taken[m] = Ref(m, k, advance[a].employee)]
            ELSE advance[a]
        whole(r) == r # Null /\ r.status = "active" /\ \A q \in DOMAIN r.parts : r.taken[q] # Null
    IN
    /\ advance' = [a \in Advance |->
            IF whole(marked(a)) THEN [marked(a) EXCEPT !.status = "settled"] ELSE marked(a)]
    /\ adjustment' = [x \in Adjustment |->
            IF \E e \in DOMAIN lines : x \in AdjustmentsIn(adjustment, e, m)
            THEN [adjustment[x] EXCEPT !.taken = Ref(m, k, adjustment[x].employee)]
            ELSE adjustment[x]]

Post(m) ==
    LET lines == LinesOf(m)
    IN
    /\ Current(m) = "draft" /\ lines # <<>>
    /\ \A e \in DOMAIN lines : lines[e].net >= 0
    /\ books' = [c \in Accounts |-> books[c] + Accrual(lines)[c]]
    /\ runs' = [runs EXCEPT ![m][Newest(m)].status = "posted"]
    /\ Consume(m, Newest(m))

(* Wrong on purpose: what was settled stays settled.                        *)
ReleasedStaysSettled(adv, m, k) ==
    [a \in Advance |->
        IF adv[a] = Null THEN Null
        ELSE [adv[a] EXCEPT !.taken = [q \in DOMAIN @ |->
                IF @[q] # Null /\ @[q].month = m /\ @[q].run = k THEN Null ELSE @[q]]]]

Released(adv, m, k) ==
    [a \in Advance |->
        IF adv[a] = Null \/ \A q \in DOMAIN adv[a].taken :
                adv[a].taken[q] = Null \/ adv[a].taken[q].month # m \/ adv[a].taken[q].run # k
        THEN adv[a]
        ELSE [adv[a] EXCEPT
                !.status = IF @ = "settled" THEN "active" ELSE @,
                !.taken = [q \in DOMAIN @ |->
                    IF @[q] # Null /\ @[q].month = m /\ @[q].run = k THEN Null ELSE @[q]]]]

(* The run is reversed, then the month is calculated anew.                  *)
Unpost(m) ==
    LET k == Newest(m)
        free == [x \in Adjustment |->
            IF adjustment[x] # Null /\ adjustment[x].taken # Null
                 /\ adjustment[x].taken.month = m /\ adjustment[x].taken.run = k
            THEN [adjustment[x] EXCEPT !.taken = Null] ELSE adjustment[x]]
    IN
    /\ Current(m) = "posted" /\ Newest(m) < MaxRuns
    /\ \A e \in DOMAIN LinesOf(m) : LinesOf(m)[e].payment = {}
    /\ books' = [c \in Accounts |-> books[c] - Accrual(LinesOf(m))[c]]
    /\ advance' = Released(advance, m, k)
    /\ adjustment' = free
    /\ runs' = [runs EXCEPT ![m] =
            Calculated([@ EXCEPT ![k].status = "reversed"], advance', adjustment', m)]

-----------------------------------------------------------------------------
NetOf(m, E) == SumFunctionOnSet([e \in E |-> LinesOf(m)[e].net], E)
InsuranceOf(E) == SumFunctionOnSet(Insurance, E)

(* Salaries are paid, and what insurance took from them is remitted.        *)
Pay(m, E) ==
    /\ Current(m) = "posted"
    /\ E # {} /\ E \subseteq DOMAIN LinesOf(m)
    /\ \A e \in E : LinesOf(m)[e].payment = {}
    /\ NetOf(m, E) > 0
    /\ books' = [books EXCEPT !["payable"] = @ - NetOf(m, E),
                              !["insurance"] = @ - InsuranceOf(E)]
    /\ runs' = [runs EXCEPT ![m][Newest(m)].lines =
            [e \in DOMAIN @ |-> IF e \in E THEN [@[e] EXCEPT !.payment = E] ELSE @[e]]]
    /\ UNCHANGED <<advance, adjustment>>

(* The whole payment is undone, with its remittances.                       *)
Unpay(m, e) ==
    LET E == LinesOf(m)[e].payment
    IN
    /\ e \in DOMAIN LinesOf(m) /\ E # {}
    /\ books' = [books EXCEPT !["payable"] = @ + NetOf(m, E),
                              !["insurance"] = @ + InsuranceOf(E)]
    /\ runs' = [runs EXCEPT ![m][Newest(m)].lines =
            [q \in DOMAIN @ |-> IF q \in E THEN [@[q] EXCEPT !.payment = {}] ELSE @[q]]]
    /\ UNCHANGED <<advance, adjustment>>

-----------------------------------------------------------------------------
PayrollInit ==
    /\ advance = [a \in Advance |-> Null]
    /\ adjustment = [x \in Adjustment |-> Null]
    /\ runs = [m \in Month |-> <<>>]
    /\ books = [c \in Accounts |-> 0]

ScreenOfAdvances ==
    \/ \E a \in Advance :
        \/ \E e \in Employee, plan \in Plan : GrantAdvance(a, e, plan)
        \/ \E plan \in Plan : UpdateAdvance(a, plan)
        \/ CancelAdvance(a)
    \/ \E x \in Adjustment :
        \/ \E e \in Employee, m \in Month, kind \in {"bonus", "penalty"} :
            CreateAdjustment(x, e, m, kind)
        \/ CancelAdjustment(x)

ScreenOfSalaries ==
    \/ \E x \in Adjustment :
        \/ \E e \in Employee, m \in Month, kind \in {"bonus", "penalty"} :
            SaveAdjustment(x, e, m, kind)
        \/ DeleteAdjustment(x)
    \/ \E m \in Month :
        \/ Calculate(m) \/ DeleteDraft(m) \/ Post(m) \/ Unpost(m)
        \/ \E e \in Employee :
            \/ RemoveLine(m, e) \/ AddLine(m, e) \/ Unpay(m, e)
            \/ \E extra \in Extra : UpdateLine(m, e, extra)
        \/ \E E \in SUBSET Employee : Pay(m, E)

-----------------------------------------------------------------------------
PayrollTypeOK ==
    /\ advance = [a \in Advance |-> advance[a]]
    /\ \A a \in Advance : advance[a] # Null =>
          \E M \in SUBSET Month : advance[a] \in AdvanceRow(M)
    /\ adjustment \in [Adjustment -> AdjustmentRow \cup {Null}]
    /\ runs = [m \in Month |-> runs[m]]
    /\ \A m \in Month :
          /\ Newest(m) \in 0..MaxRuns /\ runs[m] = [k \in 1..Newest(m) |-> runs[m][k]]
          /\ \A k \in 1..Newest(m) : \E E \in SUBSET Employee : runs[m][k] \in RunRow(E)
    /\ books \in [Accounts -> Int]

PostedLines ==
    {r \in RefRow :
        /\ r.run =< Newest(r.month) /\ runs[r.month][r.run].status = "posted"
        /\ r.employee \in DOMAIN runs[r.month][r.run].lines}

At(r) == runs[r.month][r.run].lines[r.employee]

(* A month has one run that was not reversed, and it is its newest          *)
(* (salary_service.py: current_run, calculate).                             *)
OneLiveRun ==
    \A m \in Month : \A k \in 1..Newest(m) : runs[m][k].status # "reversed" => k = Newest(m)

(* The employees' debt on the books is what was advanced, less what posted  *)
(* salaries held back; salaries and insurance due are those of posted lines *)
(* not yet paid (payroll_service.py: post_run, reverse_run;                 *)
(* salary_service.py: pay, unpay).                                          *)
BooksOfPayroll ==
    LET granted == {a \in Advance : advance[a] # Null}
        unpaid == {r \in PostedLines : At(r).payment = {}}
    IN
    /\ books["advances"] =
          SumFunctionOnSet([a \in granted |-> Amount(advance[a])], granted)
            - SumFunctionOnSet([r \in PostedLines |-> At(r).deducted], PostedLines)
    /\ books["payable"] = SumFunctionOnSet([r \in unpaid |-> At(r).net], unpaid)
    /\ books["insurance"] = SumFunctionOnSet([r \in unpaid |-> Insurance[r.employee]], unpaid)

(* What was taken names a posted line of that employee and month, and an    *)
(* advance is settled exactly while all of it is taken                      *)
(* (payroll_service.py: _consume, _release).                                *)
TakenByPosted ==
    /\ \A a \in {b \in Advance : advance[b] # Null} :
        /\ \A m \in DOMAIN advance[a].parts : advance[a].taken[m] # Null =>
              /\ advance[a].taken[m] \in PostedLines
              /\ advance[a].taken[m].employee = advance[a].employee
              /\ advance[a].taken[m].month = m
        /\ advance[a].status = "settled" <=>
              /\ advance[a].status # "cancelled"
              /\ \A m \in DOMAIN advance[a].parts : advance[a].taken[m] # Null
    /\ \A x \in Adjustment : adjustment[x] # Null /\ adjustment[x].taken # Null =>
          adjustment[x].taken \in PostedLines

(* A posted line held back the instalments, and counted the bonuses and     *)
(* penalties, that it is recorded to have taken (salary_service.py:         *)
(* _build_line; payroll_service.py: _consume).                              *)
CountedIsTaken ==
    \A r \in PostedLines :
        /\ LET held == {a \in Advance : /\ advance[a] # Null
                                        /\ r.month \in DOMAIN advance[a].taken
                                        /\ advance[a].taken[r.month] = r}
           IN  At(r).deducted = SumFunctionOnSet([a \in held |-> advance[a].parts[r.month]], held)
        /\ LET of(kind) == Cardinality({x \in Adjustment :
                  adjustment[x] # Null /\ adjustment[x].taken = r /\ adjustment[x].kind = kind})
           IN  At(r).bonus = of("bonus") /\ At(r).penalty = of("penalty")

(* No draft of month m has a line of e, one that what changes now would     *)
(* leave stale.                                                             *)
NoDraftOf(e, m) == ~ (Current(m) = "draft" /\ e \in DOMAIN LinesOf(m))
=============================================================================
