---------------------------- MODULE MCOperations ----------------------------
(* Instances of Production, Inspections, Payroll, LiveScreens, LoginGuard.  *)
(* A behaviour takes place in one world, where one of them moves.  In       *)
(* "list" and "screen" the browser shows a list it asked for, or a screen   *)
(* that loads itself; in the worlds of salaries only advances change, or    *)
(* only the salaries of the first month, and in those called quiet nothing  *)
(* that a draft has read is changed on the screen of advances.              *)
EXTENDS Production, Inspections, Payroll, LiveScreens, LoginGuard

CONSTANTS part, raw, l1, l2, m1, m2, o1, o2, e1, e2, pipe, valve, glue, c1, ali
VARIABLE world

vars == <<world, productionVars, inspectionVars, payrollVars, liveVars, loginVars>>

MCDraft ==
    {[products |-> (l1 :> [item |-> part, n |-> 2]),
      materials |-> (m1 :> [item |-> raw, n |-> 1, stage |-> "production"])],
     [products |-> (l1 :> [item |-> part, n |-> 1]) @@ (l2 :> [item |-> raw, n |-> 1]),
      materials |-> (m1 :> [item |-> raw, n |-> 1, stage |-> "production"])
                      @@ (m2 :> [item |-> part, n |-> 1, stage |-> "quality"])]}
MCStocked == (part :> 0) @@ (raw :> 3)
MCBasket == {(pipe :> 1), (pipe :> 1) @@ (valve :> 1) @@ (glue :> 1)}
MCPlan == {(1 :> 1), (1 :> 1) @@ (2 :> 1)}
MCSalary == (e1 :> 3) @@ (e2 :> 2)
MCInsurance == (e1 :> 1) @@ (e2 :> 0)

Quiet == {"advances_quiet", "salaries_quiet"}

Init ==
    /\ world \in {"production", "visits", "list", "screen", "login", "advances", "salaries"}
                 \cup Quiet
    /\ ProductionInit /\ (world # "production" => perpetual)
    /\ InspectionInit /\ custody[c1].rep = ali
    /\ PayrollInit /\ LiveInit /\ LoginInit

-----------------------------------------------------------------------------
(* One order, and its reversal or another that was made and left standing.  *)
OneOrder ==
    order'[o2] # Null => /\ order'[o2].state = "done" /\ order'[o2].reverses \in {Null, o1}
                         /\ order[o2] # Null => order'[o2] = order[o2]

NothingByHand ==
    \A m \in Month : \A e \in DOMAIN LinesOf(m)' : LinesOf(m)'[e].extra = 0

(* What changes now was read by no draft.                                   *)
NoDraftRead ==
    /\ \A a \in Advance : advance'[a] # advance[a] =>
          \A r \in {advance[a], advance'[a]} \ {Null} :
              \A m \in Month \cap DOMAIN r.parts : NoDraftOf(r.employee, m)
    /\ \A x \in Adjustment : adjustment'[x] # adjustment[x] =>
          \A r \in {adjustment[x], adjustment'[x]} \ {Null} : NoDraftOf(r.employee, r.month)

OnProduction ==
    /\ world = "production"
    /\ ProductionNext /\ OneOrder
    /\ UNCHANGED <<inspectionVars, payrollVars, liveVars, loginVars>>

(* The visits are one representative's.                                     *)
OneVisitor == \A v \in Visit : visit'[v] # Null => visit'[v].rep = ali

OnInspections ==
    /\ world = "visits"
    /\ InspectionNext /\ OneVisitor
    /\ UNCHANGED <<productionVars, payrollVars, liveVars, loginVars>>

OnPayroll ==
    /\ world \in {"advances", "salaries"} \cup Quiet
    /\ \/ ScreenOfAdvances /\ (world \in Quiet => NoDraftRead)
       \/ ScreenOfSalaries
    /\ IF world \in {"advances", "advances_quiet"}
       THEN adjustment' = adjustment /\ NothingByHand
       ELSE advance' = advance /\ runs'[2] = runs[2]
    /\ UNCHANGED <<productionVars, inspectionVars, liveVars, loginVars>>

OnLive ==
    /\ world \in {"list", "screen"}
    /\ LiveNext
    /\ IF world = "list" THEN UNCHANGED <<load, visible, pending, closing>>
       ELSE UNCHANGED <<gets, saving>>
    /\ UNCHANGED <<productionVars, inspectionVars, payrollVars, loginVars>>

OnLogin ==
    /\ world = "login"
    /\ LoginNext
    /\ UNCHANGED <<productionVars, inspectionVars, payrollVars, liveVars>>

Next ==
    /\ UNCHANGED world
    /\ OnProduction \/ OnInspections \/ OnPayroll \/ OnLive \/ OnLogin

Spec == Init /\ [][Next]_vars /\ LiveFairness

-----------------------------------------------------------------------------
(* The books, the runs and what was taken from advances agree               *)
(* (payroll_service.py: post_run, reverse_run; salary_service.py: pay), and *)
(* where drafts are not stale, a posted line held back what it took         *)
(* (salary_service.py: _refresh_employee; payroll_service.py: _consume).    *)
PayrollAddsUp ==
    /\ PayrollTypeOK /\ OneLiveRun /\ BooksOfPayroll /\ TakenByPosted
    /\ world \in Quiet => CountedIsTaken
=============================================================================
