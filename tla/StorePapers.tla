----------------------------- MODULE StorePapers -----------------------------
(***************************************************************************)
(* Papers that change the stores by themselves: permits, wastage and       *)
(* counts (src/backend/src/services/stock_permit_service.py,               *)
(* wastage_service.py, stock_count_service.py), beside sales.  One item    *)
(* perishes and is kept in lots beside its stock.                          *)
(*                                                                         *)
(* A permit is reversed by a permit of its own, whose movements are filed  *)
(* under the permit they reverse (stock_service.reverse_movement).  What a *)
(* permit did to lots is logged under it, but for what a reversed issue    *)
(* puts back, which is logged under no document.                           *)
(*                                                                         *)
(* A request is one transaction, taken at one instant.  A permit names an  *)
(* item once, and a movement and its mirror are one row.                   *)
(***************************************************************************)
EXTENDS Integers, FiniteSets, FiniteSetsExt, Functions, TLC, NullValue

CONSTANTS
    Permit, Scrap, CountSheet,      \* documents
    Depot,          \* warehouses
    Solid, Fresh,   \* an item without lots, and one that perishes
    BestDay,        \* dates by which it does
    PermitLines,    \* what a clerk may put on a permit
    Counts          \* what may be counted, by store and item

(* What a permit's lines are: by item, how much of it and when it perishes. *)
AreLinesOf(L, I) ==
    /\ I \subseteq {Solid, Fresh} /\ I # {}
    /\ L \in [I -> [n : Nat \ {0}, day : Nat]]
    /\ Fresh \in I => L[Fresh].day \in BestDay

ASSUME BestDayAssumption == BestDay \subseteq Nat /\ IsFiniteSet(BestDay)
ASSUME PaperAssumption ==
    /\ IsFiniteSet(Permit) /\ IsFiniteSet(Scrap) /\ Null \notin Permit /\ Solid # Fresh
    /\ \A L \in PermitLines : AreLinesOf(L, DOMAIN L)
    /\ \A f \in Counts : f \in [DOMAIN f -> Nat]

(* Rows of the tables.                                                      *)
PermitRow(I) == [kind : {"receipt", "issue"}, store : Depot, reverses : Permit \cup {Null},
                 lines : [I -> [n : Nat \ {0}, day : Nat]]]
MovementRow == [paper : Permit, item : {Solid, Fresh}, store : Depot, n : Int]
ScrapRow == [item : {Solid, Fresh}, store : Depot, n : Nat, undone : BOOLEAN]

ASSUME PaperNull ==
    Null \notin ScrapRow /\ \A I \in SUBSET {Solid, Fresh} : Null \notin PermitRow(I)

VARIABLES
    permit, scrap, tally,   \* rows of the documents
    permitRows,     \* the movements of permits
    mirroredRows,   \* those that have been reversed
    otherwise,      \* what all other documents moved into a store
    batch,          \* of the perishable item, by store and date
    batchLog        \* what the log says a permit did to them

permitVars == <<permit, permitRows, mirroredRows, batchLog>>
paperVars == <<permitVars, batch, otherwise, scrap, tally>>

Ware == {Solid, Fresh}
NoBatch == [s \in Depot |-> [d \in BestDay |-> 0]]

Added(f, g) == [s \in DOMAIN f |-> [x \in DOMAIN f[s] |-> f[s][x] + g[s][x]]]
Removed(f, g) == [s \in DOMAIN f |-> [x \in DOMAIN f[s] |-> f[s][x] - g[s][x]]]
At(s, g) == [t \in Depot |-> IF t = s THEN g ELSE [x \in DOMAIN g |-> 0]]

(* What a store has of an item, when the movements of permits are rows.     *)
Net(rows, i, s) ==
    SumFunctionOnSet([m \in rows |-> m.n], {m \in rows : m.item = i /\ m.store = s})
InStore(rows, i, s) == otherwise[s][i] + Net(rows, i, s)
Stock(i, s) == InStore(permitRows \ mirroredRows, i, s)

-----------------------------------------------------------------------------
Usable(b, s) == [d \in BestDay |-> IF b[s][d] > 0 THEN b[s][d] ELSE 0]
InBatches(b, s) == SumFunctionOnSet(Usable(b, s), BestDay)

(* n of what store s has, what perishes first first.                        *)
FirstOut(b, s, n) ==
    LET u == Usable(b, s)
        before(d) == SumFunctionOnSet(u, {c \in BestDay : c < d})
        left(d) == IF n > before(d) THEN n - before(d) ELSE 0
    IN  [d \in BestDay |-> IF u[d] < left(d) THEN u[d] ELSE left(d)]

RowsOf(p) == {m \in permitRows : m.paper = p}
ReversalOfPermit(p) == {r \in Permit : permit[r] # Null /\ permit[r].reverses = p}

Into(d, n) == [c \in BestDay |-> IF c = d THEN n ELSE 0]

(* What a permit of these lines does to the lots of its store.              *)
BatchChange(b, kind, s, L) ==
    IF Fresh \notin DOMAIN L THEN NoBatch
    ELSE IF kind = "receipt" THEN At(s, Into(L[Fresh].day, L[Fresh].n))
    ELSE Removed(NoBatch, At(s, FirstOut(b, s, L[Fresh].n)))

Enough(rows, b, s, L) ==
    /\ \A i \in DOMAIN L : L[i].n =< InStore(rows, i, s)
    /\ Fresh \in DOMAIN L => L[Fresh].n =< InBatches(b, s)

(* The date an issue notes on its line is the earliest it took.             *)
Dated(b, kind, s, L) ==
    IF kind = "issue" /\ Fresh \in DOMAIN L
    THEN [L EXCEPT ![Fresh].day = Min({d \in BestDay : FirstOut(b, s, L[Fresh].n)[d] > 0})]
    ELSE L

(* Permit p posts lines L, where rows and mir are the movements and their   *)
(* mirrors, b the lots and log the log before it.                           *)
PostLines(p, kind, s, L, rows, mir, b, log) ==
    LET change == BatchChange(b, kind, s, L)
        sign == IF kind = "issue" THEN -1 ELSE 1
    IN
    /\ kind = "issue" => Enough(rows \ mir, b, s, L)
    /\ permit' = [permit EXCEPT ![p] =
          [kind |-> kind, store |-> s, lines |-> Dated(b, kind, s, L), reverses |-> Null]]
    /\ permitRows' = rows \cup {[paper |-> p, item |-> i, store |-> s, n |-> sign * L[i].n] :
                                    i \in DOMAIN L}
    /\ mirroredRows' = mir
    /\ batch' = Added(b, change)
    /\ batchLog' = [log EXCEPT ![p] = change]

CreatePermit(p, kind, s, L) ==
    /\ permit[p] = Null
    /\ PostLines(p, kind, s, L, permitRows, mirroredRows, batch, batchLog)
    /\ UNCHANGED <<otherwise, scrap, tally>>

(* Wrong on purpose: the lots stay as the permit left them.                 *)
LotsWithoutNot(V) == batch

(* The lots without what the permits V did to them.                         *)
LotsWithout(V) ==
    [s \in Depot |-> [d \in BestDay |->
        batch[s][d] - SumFunctionOnSet([v \in V |-> batchLog[v][s][d]], V)]]

(* Wrong on purpose: a permit is taken back although its goods have left.   *)
NotBelowZeroAnyway(rows, s, I) == TRUE

NotBelowZero(rows, s, I) == \A i \in I : InStore(rows, i, s) >= 0

UpdatePermit(p, s, L) ==
    LET old == permit[p] IN
    /\ old # Null /\ old.reverses = Null /\ ReversalOfPermit(p) = {}
    /\ PostLines(p, old.kind, s, L, permitRows \ RowsOf(p), mirroredRows \ RowsOf(p),
                 LotsWithout({p}), batchLog)
    /\ NotBelowZero(permitRows' \ mirroredRows', old.store, DOMAIN old.lines)
    /\ UNCHANGED <<otherwise, scrap, tally>>

(* With the permit that reverses it.                                        *)
DeletePermit(p) ==
    LET victims == {p} \cup ReversalOfPermit(p)
        dropped == UNION {RowsOf(v) : v \in victims}
    IN
    /\ permit[p] # Null
    /\ permit' = [v \in Permit |-> IF v \in victims THEN Null ELSE permit[v]]
    /\ permitRows' = permitRows \ dropped
    /\ mirroredRows' = mirroredRows \ dropped
    /\ batch' = LotsWithout(victims)
    /\ batchLog' = [v \in Permit |-> IF v \in victims THEN NoBatch ELSE batchLog[v]]
    /\ NotBelowZero(permitRows' \ mirroredRows', permit[p].store, DOMAIN permit[p].lines)
    /\ UNCHANGED <<otherwise, scrap, tally>>

ReversePermit(p, r) ==
    LET old == permit[p]  L == old.lines
        mirror == IF old.kind = "receipt" THEN "issue" ELSE "receipt"
        change == BatchChange(batch, mirror, old.store, L)
    IN
    /\ old # Null /\ old.reverses = Null /\ ReversalOfPermit(p) = {}
    /\ permit[r] = Null
    /\ RowsOf(p) \cap mirroredRows = {}
    /\ mirror = "issue" => Enough(permitRows \ mirroredRows, batch, old.store, L)
    /\ permit' = [permit EXCEPT ![r] =
          [kind |-> mirror, store |-> old.store, lines |-> L, reverses |-> p]]
    /\ mirroredRows' = mirroredRows \cup RowsOf(p)
    /\ batch' = Added(batch, change)
    /\ batchLog' = [batchLog EXCEPT ![r] = IF mirror = "issue" THEN change ELSE NoBatch]
    /\ UNCHANGED <<permitRows, otherwise, scrap, tally>>

-----------------------------------------------------------------------------
(* n of item i is moved into store s by a paper without lots.               *)
Shift(i, s, n) == otherwise' = [otherwise EXCEPT ![s][i] = @ + n]

Waste(w, i, s, n) ==
    /\ scrap[w] = Null
    /\ Stock(i, s) >= n
    /\ scrap' = [scrap EXCEPT ![w] = [item |-> i, store |-> s, n |-> n, undone |-> FALSE]]
    /\ Shift(i, s, -n)
    /\ UNCHANGED <<permitVars, batch, tally>>

ReverseWastage(w) ==
    /\ scrap[w] # Null /\ ~ scrap[w].undone
    /\ scrap' = [scrap EXCEPT ![w].undone = TRUE]
    /\ Shift(scrap[w].item, scrap[w].store, scrap[w].n)
    /\ UNCHANGED <<permitVars, batch, tally>>

(* An invoice takes one of an item, out of its lots when it perishes.       *)
SellOne(i, s) ==
    /\ Stock(i, s) >= 1
    /\ i = Fresh => InBatches(batch, s) >= 1
    /\ Shift(i, s, -1)
    /\ batch' = IF i = Fresh THEN Removed(batch, At(s, FirstOut(batch, s, 1))) ELSE batch
    /\ UNCHANGED <<permitVars, scrap, tally>>

(* A sheet to be filled in at the shelves, or one typed in at once.         *)
OpenSheet(c, X) ==
    /\ tally[c] = Null
    /\ tally' = [tally EXCEPT ![c] =
          [status |-> "draft", typed |-> FALSE, counted |-> [x \in X |-> Null]]]
    /\ UNCHANGED <<permitVars, batch, otherwise, scrap>>

Draft(c) == tally[c] # Null /\ tally[c].status = "draft"

EnterCounts(c, f) ==
    /\ Draft(c)
    /\ DOMAIN f \subseteq DOMAIN tally[c].counted
    /\ tally' = [tally EXCEPT ![c].counted =
          [x \in DOMAIN @ |-> IF x \in DOMAIN f THEN f[x] ELSE @[x]]]
    /\ UNCHANGED <<permitVars, batch, otherwise, scrap>>

SaveSheet(c, f) ==
    /\ tally[c] # Null => Draft(c) /\ tally[c].typed
    /\ tally' = [tally EXCEPT ![c] = [status |-> "draft", typed |-> TRUE, counted |-> f]]
    /\ UNCHANGED <<permitVars, batch, otherwise, scrap>>

(* The stock becomes what was counted, whatever has moved since.  What is   *)
(* kept in lots cannot be set right by a count.                             *)
PostSheet(c) ==
    LET f == tally[c].counted
        done == {x \in DOMAIN f : f[x] # Null}
    IN
    /\ Draft(c) /\ done # {}
    /\ \A x \in done : x[2] = Fresh => f[x] = Stock(x[2], x[1])
    /\ otherwise' = [s \in Depot |-> [i \in Ware |->
          otherwise[s][i] + IF <<s, i>> \in done THEN f[<<s, i>>] - Stock(i, s) ELSE 0]]
    /\ tally' = [tally EXCEPT ![c].status = "posted"]
    /\ UNCHANGED <<permitVars, batch, scrap>>

CancelSheet(c) ==
    /\ tally[c] # Null /\ tally[c].status # "posted"
    /\ tally' = [tally EXCEPT ![c].status = "cancelled"]
    /\ UNCHANGED <<permitVars, batch, otherwise, scrap>>

DeleteSheet(c) ==
    /\ Draft(c) /\ tally[c].typed
    /\ tally' = [tally EXCEPT ![c] = Null]
    /\ UNCHANGED <<permitVars, batch, otherwise, scrap>>

-----------------------------------------------------------------------------
PaperInit ==
    /\ permit = [p \in Permit |-> Null] /\ permitRows = {} /\ mirroredRows = {}
    /\ batch = NoBatch /\ batchLog = [p \in Permit |-> NoBatch]
    /\ otherwise = [s \in Depot |-> [i \in Ware |-> 0]]
    /\ scrap = [w \in Scrap |-> Null] /\ tally = [c \in CountSheet |-> Null]

PermitNext ==
    \E p \in Permit :
        \/ \E kind \in {"receipt", "issue"}, s \in Depot, L \in PermitLines :
              CreatePermit(p, kind, s, L)
        \/ \E s \in Depot, L \in PermitLines : UpdatePermit(p, s, L)
        \/ DeletePermit(p)
        \/ \E r \in Permit : ReversePermit(p, r)

WasteNext ==
    \E w \in Scrap :
        \/ \E i \in Ware, s \in Depot : Waste(w, i, s, 1)
        \/ ReverseWastage(w)

CountNext ==
    \E c \in CountSheet :
        \/ \E f \in Counts : OpenSheet(c, DOMAIN f) \/ EnterCounts(c, f) \/ SaveSheet(c, f)
        \/ PostSheet(c) \/ CancelSheet(c) \/ DeleteSheet(c)

PaperNext ==
    \/ PermitNext \/ WasteNext \/ CountNext
    \/ \E i \in Ware, s \in Depot : SellOne(i, s)

PaperSpec == PaperInit /\ [][PaperNext]_paperVars

(* Neither is a reversal deleted alone, which leaves the mirrors of its     *)
(* movements, nor a reversed issue whose lots were put back.                *)
UndoneInOrder ==
    \A p \in Permit : permit[p] # Null /\ permit'[p] = Null =>
        /\ permit[p].reverses # Null => permit'[permit[p].reverses] = Null
        /\ ReversalOfPermit(p) # {} => permit[p].kind = "receipt"

-----------------------------------------------------------------------------
SheetRow(X) == [status : {"draft", "posted", "cancelled"}, typed : BOOLEAN,
                counted : [X -> Nat \cup {Null}]]

TallyTyped ==
    /\ tally = [c \in CountSheet |-> tally[c]]
    /\ \A c \in CountSheet : tally[c] # Null =>
          tally[c] \in SheetRow(DOMAIN tally[c].counted)

PaperTypeOK ==
    /\ permit = [p \in Permit |-> permit[p]]
    /\ \A p \in Permit : permit[p] # Null =>
          /\ permit[p] \in PermitRow(DOMAIN permit[p].lines)
          /\ AreLinesOf(permit[p].lines, DOMAIN permit[p].lines)
    /\ mirroredRows \subseteq permitRows /\ permitRows \subseteq MovementRow
    /\ IsFiniteSet(permitRows)
    /\ otherwise \in [Depot -> [Ware -> Int]]
    /\ batch \in [Depot -> [BestDay -> Int]]
    /\ batchLog \in [Permit -> [Depot -> [BestDay -> Int]]]
    /\ scrap \in [Scrap -> ScrapRow \cup {Null}]
    /\ TallyTyped

Signed(row, i) == IF row.kind = "issue" THEN - row.lines[i].n ELSE row.lines[i].n

(* A permit's movements are its lines, a reversal has none of its own; what *)
(* is reversed is reversed whole, once; and no store lacks goods.           *)
PermitsExplained ==
    /\ \A p \in Permit :
          RowsOf(p) =
            IF permit[p] = Null \/ permit[p].reverses # Null THEN {}
            ELSE {[paper |-> p, item |-> i, store |-> permit[p].store, n |-> Signed(permit[p], i)] :
                      i \in DOMAIN permit[p].lines}
    /\ \A p \in Permit :
          /\ Cardinality(ReversalOfPermit(p)) =< 1
          /\ ReversalOfPermit(p) # {} => RowsOf(p) # {} /\ RowsOf(p) \subseteq mirroredRows
    /\ \A i \in Ware, s \in Depot : Stock(i, s) >= 0

WastedBy(w, s) ==
    IF scrap[w] # Null /\ ~ scrap[w].undone /\ scrap[w].item = Fresh /\ scrap[w].store = s
    THEN scrap[w].n ELSE 0

(* The lots of a store add up to its stock and what was wasted of it.       *)
LotsExplained ==
    \A s \in Depot :
        SumFunctionOnSet(batch[s], BestDay) =
            Stock(Fresh, s) + SumFunctionOnSet([w \in Scrap |-> WastedBy(w, s)], Scrap)

MirroredByLiving ==
    \A m \in mirroredRows : ReversalOfPermit(m.paper) # {}
=============================================================================
