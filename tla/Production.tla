------------------------------ MODULE Production ------------------------------
(***************************************************************************)
(* Production orders (src/backend/src/services/                            *)
(* manufacturing_production_service.py, api/manufacturing.py).             *)
(*                                                                         *)
(* An order names what it makes and the materials of each stage.  Starting *)
(* it issues the materials of production, quality's follow, output is      *)
(* received in parts, and executing it issues and posts whatever is left.  *)
(* Under perpetual inventory a material passes through the warehouse of    *)
(* work in progress.  A done order is edited by dropping its movements and *)
(* executing it anew, or reversed by an order of its own.                  *)
(*                                                                         *)
(* A request is one transaction, taken at one instant.  A movement and its *)
(* mirror are one row, in mirrored.                                        *)
(***************************************************************************)
EXTENDS Integers, FiniteSets, FiniteSetsExt, NullValue

CONSTANTS
    Order, Item,
    Draft,          \* what a clerk may enter: products, and materials by stage
    Output,         \* quantities received, or named when an order is closed
    Stocked,        \* of each item, what the store has at first
    MaxReceipts     \* bound on the receipts of one order

(* Rows of the tables; a line is received or issued as it goes.             *)
ProductLine == UNION {DOMAIN d.products : d \in Draft}
MaterialLine == UNION {DOMAIN d.materials : d \in Draft}
Stage == {"production", "quality"}
Place == {"store", "wip"}

ProductRow == [item : Item, n : Nat, received : Nat]
MaterialRow == [item : Item, n : Nat, stage : Stage, issued : BOOLEAN]
OrderRow(d) == [state : {"draft", "confirmed", "in_progress", "done", "reversed"},
                reverses : Order \cup {Null},
                products : [DOMAIN d.products -> ProductRow],
                materials : [DOMAIN d.materials -> MaterialRow]]
MoveRow == [order : Order, what : {"to_wip", "issue", "receipt", "output"},
            key : ProductLine \cup MaterialLine \cup (ProductLine \X Nat),
            item : Item, place : Place, n : Int]

ASSUME ProductionAssumption ==
    /\ \A d \in Draft :
          /\ IsFiniteSet(DOMAIN d.products) /\ IsFiniteSet(DOMAIN d.materials)
          /\ d.products \in [DOMAIN d.products -> [item : Item, n : Nat]]
          /\ d.materials \in [DOMAIN d.materials -> [item : Item, n : Nat, stage : Stage]]
    /\ Output \subseteq Nat /\ Stocked \in [Item -> Nat] /\ MaxReceipts \in Nat
ASSUME ProductionNull == Null \notin Order /\ \A d \in Draft : Null \notin OrderRow(d)

VARIABLES
    order,      \* rows of production_order with their lines
    moves,      \* their stock movements, reversals aside
    mirrored,   \* the movements that have been reversed
    sold,       \* what other documents took from the store
    perpetual   \* whether materials pass through work in progress

productionVars == <<order, moves, mirrored, sold, perpetual>>

(* What movements mv put of an item in a place.                             *)
Put(mv, i, p) == SumFunctionOnSet([m \in mv |-> m.n], {m \in mv : m.item = i /\ m.place = p})

OnHand(mv, i, p) == (IF p = "store" THEN Stocked[i] - sold[i] ELSE 0) + Put(mv, i, p)

Live == moves \ mirrored
MovesOf(o) == {m \in moves : m.order = o}

Move(o, what, key, i, p, n) ==
    [order |-> o, what |-> what, key |-> key, item |-> i, place |-> p, n |-> n]

-----------------------------------------------------------------------------
Lines(d) ==
    [state |-> "draft", reverses |-> Null,
     products |-> [l \in DOMAIN d.products |->
        [item |-> d.products[l].item, n |-> d.products[l].n, received |-> 0]],
     materials |-> [k \in DOMAIN d.materials |->
        [item |-> d.materials[k].item, n |-> d.materials[k].n, stage |-> d.materials[k].stage,
         issued |-> FALSE]]]

Pending(ord, stages) ==
    {k \in DOMAIN ord.materials : ~ ord.materials[k].issued /\ ord.materials[k].stage \in stages}

Issued(ord, K) ==
    [ord EXCEPT !.materials =
        [k \in DOMAIN @ |-> IF k \in K THEN [@[k] EXCEPT !.issued = TRUE] ELSE @[k]]]

(* Enough of every material of K, all lines of one item together.           *)
NoShortage(ord, K, mv) ==
    \A i \in {ord.materials[k].item : k \in K} :
        SumFunctionOnSet([k \in K |-> ord.materials[k].n], {k \in K : ord.materials[k].item = i})
            =< OnHand(mv, i, "store")

IssueRows(o, ord, K) ==
    LET row(what, k, p, s) == Move(o, what, k, ord.materials[k].item, p, s * ord.materials[k].n)
    IN  IF perpetual
        THEN {row("to_wip", k, "store", -1) : k \in K} \cup {row("to_wip", k, "wip", 1) : k \in K}
               \cup {row("issue", k, "wip", -1) : k \in K}
        ELSE {row("issue", k, "store", -1) : k \in K}

(* Wrong on purpose: nobody asks whether the materials are there.           *)
CanIssueUnasked(ord, K, mv, negative) == TRUE

CanIssue(ord, K, mv, negative) == K = {} \/ negative \/ NoShortage(ord, K, mv)

(* What a line made: what was named, or what was received, or the plan.     *)
Made(ord, l, named) ==
    IF named # <<>> THEN IF l \in DOMAIN named THEN named[l] ELSE ord.products[l].n
    ELSE IF ord.products[l].received > 0 THEN ord.products[l].received ELSE ord.products[l].n

(* Wrong on purpose: what was received is posted again.                     *)
OutputRowsAgain(o, ord, named) ==
    {Move(o, "output", l, ord.products[l].item, "store", Made(ord, l, named)) :
        l \in DOMAIN ord.products}

OutputRows(o, ord, named) ==
    {Move(o, "output", l, ord.products[l].item, "store",
          Made(ord, l, named) - ord.products[l].received) :
        l \in {k \in DOMAIN ord.products : Made(ord, k, named) > ord.products[k].received}}

Closed(ord, named) ==
    [ord EXCEPT !.state = "done",
                !.products = [l \in DOMAIN @ |->
                    [@[l] EXCEPT !.n = Made(ord, l, named), !.received = Made(ord, l, named)]]]

(* Order ord, whose movements and everyone else's are mv, is executed.      *)
ExecuteWith(o, ord, mv, named, negative) ==
    LET K == Pending(ord, Stage) IN
    /\ DOMAIN named \subseteq DOMAIN ord.products
    /\ \A l \in DOMAIN named : named[l] >= ord.products[l].received
    /\ CanIssue(ord, K, mv \ mirrored, negative)
    /\ order' = [order EXCEPT ![o] = Closed(Issued(ord, K), named)]
    /\ moves' = mv \cup IssueRows(o, ord, K) \cup OutputRows(o, ord, named)

-----------------------------------------------------------------------------
Create(o, d) ==
    /\ order[o] = Null
    /\ order' = [order EXCEPT ![o] = Lines(d)]
    /\ UNCHANGED <<moves, mirrored, sold, perpetual>>

CreateDone(o, d, negative) ==
    /\ order[o] = Null
    /\ ExecuteWith(o, Lines(d), moves, <<>>, negative)
    /\ UNCHANGED <<mirrored, sold, perpetual>>

In(o, states) == order[o] # Null /\ order[o].state \in states

Update(o, d) ==
    /\ In(o, {"draft", "confirmed"})
    /\ order' = [order EXCEPT ![o] = Lines(d)]
    /\ UNCHANGED <<moves, mirrored, sold, perpetual>>

Delete(o) ==
    /\ In(o, {"draft", "confirmed"})
    /\ order' = [order EXCEPT ![o] = Null]
    /\ UNCHANGED <<moves, mirrored, sold, perpetual>>

Confirm(o) ==
    /\ In(o, {"draft"})
    /\ order' = [order EXCEPT ![o].state = "confirmed"]
    /\ UNCHANGED <<moves, mirrored, sold, perpetual>>

IssueStage(o, stage, state) ==
    LET K == Pending(order[o], {stage}) IN
    /\ CanIssue(order[o], K, Live, FALSE)
    /\ order' = [order EXCEPT ![o] = [Issued(@, K) EXCEPT !.state = state]]
    /\ moves' = moves \cup IssueRows(o, order[o], K)
    /\ UNCHANGED <<mirrored, sold, perpetual>>

Start(o) == In(o, {"confirmed"}) /\ IssueStage(o, "production", "in_progress")

IssueQuality(o) ==
    /\ In(o, {"in_progress"}) /\ Pending(order[o], {"quality"}) # {}
    /\ IssueStage(o, "quality", "in_progress")

(* More than was planned may be received.                                   *)
Receive(o, l, n) ==
    LET before == {m \in MovesOf(o) : m.what = "receipt"} IN
    /\ In(o, {"in_progress"}) /\ l \in DOMAIN order[o].products
    /\ Cardinality(before) < MaxReceipts
    /\ order' = [order EXCEPT ![o].products[l].received = @ + n]
    /\ moves' = moves \cup {Move(o, "receipt", <<l, Cardinality(before)>>,
                                 order[o].products[l].item, "store", n)}
    /\ UNCHANGED <<mirrored, sold, perpetual>>

(* Wrong on purpose: goods that have left the store are taken back.         *)
CanTakeBackAlways(rows) == TRUE

(* What the mirrors of output take from the store, it must have.            *)
CanTakeBack(rows) ==
    \A i \in {m.item : m \in rows} :
        SumFunctionOnSet([m \in rows |-> m.n], {m \in rows : m.item = i})
            =< OnHand(Live, i, "store")

UndoReceipt(o, m) ==
    LET l == m.key[1] IN
    /\ In(o, {"in_progress"}) /\ m \in MovesOf(o) \ mirrored /\ m.what = "receipt"
    /\ CanTakeBack({m})
    /\ mirrored' = mirrored \cup {m}
    /\ order' = [order EXCEPT ![o].products[l].received = IF @ > m.n THEN @ - m.n ELSE 0]
    /\ UNCHANGED <<moves, sold, perpetual>>

Execute(o, named) ==
    /\ In(o, {"draft", "confirmed", "in_progress"})
    /\ ExecuteWith(o, order[o], moves, named, FALSE)
    /\ UNCHANGED <<mirrored, sold, perpetual>>

ReversalOf(o) == {r \in Order : order[r] # Null /\ order[r].reverses = o}

(* Drops every movement of the order, the mirrors of its receipts too.      *)
EditDone(o, d, negative) ==
    /\ In(o, {"done"}) /\ order[o].reverses = Null /\ ReversalOf(o) = {}
    /\ ExecuteWith(o, Lines(d), moves \ MovesOf(o), <<>>, negative)
    /\ mirrored' = mirrored \ MovesOf(o)
    /\ UNCHANGED <<sold, perpetual>>

RowsToReverse(o) == MovesOf(o) \ mirrored

ReverseOrder(o, r) ==
    /\ In(o, {"done", "in_progress"}) /\ order[o].reverses = Null /\ ReversalOf(o) = {}
    /\ r # o /\ order[r] = Null
    /\ CanTakeBack({m \in RowsToReverse(o) : m.what \in {"output", "receipt"}})
    /\ mirrored' = mirrored \cup RowsToReverse(o)
    /\ order' = [order EXCEPT ![o].state = "reversed",
                              ![r] = [order[o] EXCEPT !.state = "done", !.reverses = o]]
    /\ UNCHANGED <<moves, sold, perpetual>>

Sell(i) ==
    /\ OnHand(Live, i, "store") > 0
    /\ sold' = [sold EXCEPT ![i] = @ + 1]
    /\ UNCHANGED <<order, moves, mirrored, perpetual>>

SwitchPerpetual ==
    /\ perpetual' = ~ perpetual
    /\ UNCHANGED <<order, moves, mirrored, sold>>

-----------------------------------------------------------------------------
ProductionInit ==
    /\ order = [o \in Order |-> Null]
    /\ moves = {} /\ mirrored = {}
    /\ sold = [i \in Item |-> 0]
    /\ perpetual \in BOOLEAN

Named(o) == UNION {[L -> Output] : L \in SUBSET DOMAIN order[o].products}

ProductionNext ==
    \/ \E o \in Order :
          \/ \E d \in Draft : Create(o, d) \/ Update(o, d)
          \/ \E d \in Draft, negative \in BOOLEAN :
                CreateDone(o, d, negative) \/ EditDone(o, d, negative)
          \/ Delete(o) \/ Confirm(o) \/ Start(o) \/ IssueQuality(o)
          \/ \E n \in Output : \E l \in ProductLine : Receive(o, l, n)
          \/ \E m \in moves : UndoReceipt(o, m)
          \/ order[o] # Null /\ \E named \in Named(o) : Execute(o, named)
          \/ \E r \in Order : ReverseOrder(o, r)
    \/ \E i \in Item : Sell(i)
    \/ SwitchPerpetual

-----------------------------------------------------------------------------
Total(rows) == SumFunctionOnSet([m \in rows |-> m.n], rows)
Net(o, what, K) == Total({m \in MovesOf(o) \ mirrored : m.what = what /\ m.key \in K})
ReceiptsOf(l) == {l} \X (0 .. MaxReceipts)

(* An order moved what its lines say: nothing before it starts, then what   *)
(* was received and the materials issued, and what it made once it is done. *)
(* A line left out when an order is closed keeps receipts beyond its plan.  *)
MovedAsOrdered ==
    \A o \in Order : order[o] # Null /\ order[o].reverses = Null /\ order[o].state # "reversed" =>
        LET P == order[o].products  M == order[o].materials IN
        /\ \A l \in DOMAIN P :
              LET in == Net(o, "receipt", ReceiptsOf(l))  rest == Net(o, "output", {l})
              IN  IF order[o].state = "done"
                  THEN in + rest = P[l].n \/ (rest = 0 /\ in > P[l].n)
                  ELSE in = P[l].received /\ rest = 0
        /\ \A k \in DOMAIN M : Net(o, "issue", {k}) = IF M[k].issued THEN - M[k].n ELSE 0
        /\ order[o].state \in {"draft", "confirmed"} => MovesOf(o) = {}
        /\ order[o].state = "done" => \A k \in DOMAIN M : M[k].issued

(* Nothing stays in work in progress, and a reversed order moved nothing.   *)
NothingLeftBehind ==
    /\ \A i \in Item : OnHand(Live, i, "wip") = 0
    /\ \A o \in Order : In(o, {"reversed"}) => MovesOf(o) \subseteq mirrored

(* What a step leaves the store short of, or shorter than it was.           *)
Overdraws(i) ==
    OnHand(Live, i, "store")' < 0 /\ OnHand(Live, i, "store")' < OnHand(Live, i, "store")

(* What order o put into the store of an item.                              *)
MadeOf(mv, o, i) ==
    Total({m \in mv : m.order = o /\ m.what \in {"output", "receipt"} /\ m.item = i})

(* Order o is edited to make less of an item it made, and uses none of it.  *)
MakesLess(o, d, i) ==
    /\ \A k \in DOMAIN d.materials : d.materials[k].item # i
    /\ MadeOf(Live', o, i) < MadeOf(Live, o, i)

(* The store is overdrawn by an order executed as it is entered, or edited, *)
(* with leave that it needed, or edited to make less than was sold of it.   *)
OverdrawnWithLeave ==
    \A i \in Item : Overdraws(i) =>
        \E o \in Order, d \in Draft :
            \/ CreateDone(o, d, TRUE) /\ ~ CreateDone(o, d, FALSE)
            \/ EditDone(o, d, TRUE) /\ (EditDone(o, d, FALSE) => MakesLess(o, d, i))

ProductionTypeOK ==
    /\ order = [o \in Order |-> order[o]]
    /\ \A o \in Order : order[o] # Null => \E d \in Draft : order[o] \in OrderRow(d)
    /\ moves \subseteq MoveRow /\ IsFiniteSet(moves) /\ mirrored \subseteq moves
    /\ sold \in [Item -> Nat]

(* What an order moved is what it says it made and used, and nothing of one *)
(* that was undone is left (manufacturing_production_service.py:            *)
(* execute_order, edit_done_order, reverse_order).                          *)
ProductionAddsUp == ProductionTypeOK /\ MovedAsOrdered /\ NothingLeftBehind

(* A store goes below zero only by the order that was executed or edited    *)
(* with the clerk's leave to, which it needed, or that is edited to make    *)
(* less; never by starting, undoing or reversing one, whatever other orders *)
(* stand (manufacturing_production_service.py: _issue_materials,            *)
(* edit_done_order, undo_receipt, reverse_order).                           *)
OverdrawnStep == [][OverdrawnWithLeave]_productionVars
=============================================================================
