----------------------------- MODULE Transfers -----------------------------
(***************************************************************************)
(* Stock transfers of services/transfer_service.py, with the endpoints of  *)
(* api/transfers.py that call them, over the stock ledger.  A request      *)
(* reads the transfer and its lines without locking them, decides, posts   *)
(* its movements one by one through post_movement, and writes the document *)
(* as it commits.  Two requests on one transfer may both decide before     *)
(* either writes.                                                          *)
(*                                                                         *)
(* The reads of a handler (the transfer, its lines, an on-hand) are one    *)
(* step, and so are its last flush and the commit: the flush holds the     *)
(* document's row locks until the commit.  A request whose early checks    *)
(* refuse it changes nothing and is no step at all.  The approver's right  *)
(* to approve, serial numbers and batches are left out.                    *)
(***************************************************************************)
EXTENDS StockLedger, FiniteSets, Functions

CONSTANTS
    Doc,          \* transfers that may be created
    Item,         \* the items transferred
    Place,        \* warehouses and custodies
    Warehouse,    \* the places that are warehouses
    Shop,         \* the places customers are sold to from
    Draft,        \* what users ask for: source, destination, header and lines
    Revision,     \* what a revision asks for: source, destination and lines
    Edit,         \* the lines that may be added, or a line changed to
    Ops,          \* the kinds of request in this instance
    Null,         \* a transaction without a request, a row without a value
    MaxLineId     \* bound: no line is added to a transfer that has had this many

ASSUME LocatorAssumption == Locator = Item \X Place
ASSUME WarehouseAssumption == Warehouse \subseteq Place /\ Shop \subseteq Place
ASSUME FiniteAssumption == IsFiniteSet(Doc) /\ IsFiniteSet(Place)

(* What users ask for: at least one line, and quantities above zero.        *)
AskedLine == [item : Item, qty : Nat \ {0}]
AskedRow == [src : Place, dst : Place, lines : Seq(AskedLine) \ {<<>>}]

ASSUME AskedAssumption ==
    /\ \A x \in Draft : /\ [src |-> x.src, dst |-> x.dst, lines |-> x.lines] \in AskedRow
                        /\ x.headerOnly \in BOOLEAN
    /\ Revision \subseteq AskedRow /\ Edit \subseteq AskedLine

VARIABLES
    status,    \* status column of a transfer, or that it has no row
    transfer,  \* the other columns, and the rows of stock_transfer_line
    moved,     \* committed movement rows of a transfer, added up by locator
    req,       \* the request a transaction serves, and what it has read
    todo       \* the movements it has yet to post

docVars == <<status, transfer, moved>>
transferVars == <<vars, docVars, req, todo>>

Status == {"none", "pending", "approved", "rejected", "reversed", "deleted"}

Line == [id : Nat, item : Item, qty : Nat \ {0}]

Row == [src : Place \cup {Null}, dst : Place \cup {Null},
        head : Line \cup {Null}, lines : Seq(Line), nextId : Nat]

(* What a request of each kind is asked, and what it has read.              *)
Asks(op) ==
    CASE op \in {"approve", "auto"} -> Seq(Line) \ {<<>>}
      [] op = "revise" -> Revision
      [] op = "add_line" -> Edit
      [] op = "set_line" -> [id : Nat, qty : Nat \ {0}]
      [] op = "remove_line" -> [id : Nat]
      [] OTHER -> {<<>>}

Served == [op : Ops, doc : Doc \cup {Null}, status : Status, seen : Row,
           ask : UNION {Asks(op) : op \in Ops}]

(* A movement a request has yet to post.                                    *)
Posting == [loc : Locator, dir : {"in", "out"}, qty : Nat \ {0}, negative : {FALSE}]

ASSUME NullAssumption == Null \notin Served /\ Null \notin Line

NoRow == [src |-> Null, dst |-> Null, head |-> Null, lines |-> <<>>, nextId |-> 1]

Exists(d) == status[d] \notin {"none", "deleted"}

-----------------------------------------------------------------------------
(* Quantities. *)

Larger(a, b) == IF a > b THEN a ELSE b
Smaller(a, b) == IF a < b THEN a ELSE b

(* _qty_by_item for one item. *)
QtyOf(lines, item) ==
    SumFunctionOnSet([i \in DOMAIN lines |-> lines[i].qty],
                     {i \in DOMAIN lines : lines[i].item = item})

(* The lines that move: the header stands in for a transfer without lines. *)
Moving(row) == IF row.lines = <<>> THEN <<row.head>> ELSE row.lines

LineIds(lines) == {lines[i].id : i \in DOMAIN lines}

(* _move: out of one place, then into the other. *)
Move(item, from, to, qty) ==
    << [loc |-> <<item, from>>, dir |-> "out", qty |-> qty, negative |-> FALSE],
       [loc |-> <<item, to>>, dir |-> "in", qty |-> qty, negative |-> FALSE] >>

(* Line by line; the calls 2i-1 and 2i are those of line i. *)
Moves(lines, from, to) ==
    [k \in 1..(2 * Len(lines)) |->
        LET line == lines[(k + 1) \div 2]
        IN  Move(line.item, from, to, line.qty)[IF k % 2 = 1 THEN 1 ELSE 2]]

(* Effect of a sequence of calls on a locator. *)
Sum(calls, l) ==
    SumFunctionOnSet([k \in DOMAIN calls |-> Signed(calls[k])],
                     {k \in DOMAIN calls : calls[k].loc = l})

(* The positions in S in ascending order, and what a sequence has at those  *)
(* that pass a test. *)
Ascending(S) ==
    CHOOSE s \in [1..Cardinality(S) -> S] : \A i, j \in DOMAIN s : i < j => s[i] < s[j]

Where(s, Test(_)) ==
    LET at == Ascending({i \in DOMAIN s : Test(s[i])})
    IN  [k \in DOMAIN at |-> s[at[k]]]

-----------------------------------------------------------------------------
(* The plan of each kind of request, from what it read. *)

(* Wrong on purpose: a line is given whole or not at all.                   *)
GivenWhole(row, i) ==
    LET line == Moving(row)[i]
        before == QtyOf(SubSeq(Moving(row), 1, i - 1), line.item)
    IN  IF balance[<<line.item, row.src>>] - before >= line.qty THEN line.qty ELSE 0

(* What approve_available gives to line i: what is left of the on-hand of   *)
(* its item after the lines before it.                                      *)
Given(row, i) ==
    LET line == Moving(row)[i]
        have == Larger(balance[<<line.item, row.src>>], 0)
        before == QtyOf(SubSeq(Moving(row), 1, i - 1), line.item)
    IN  Larger(Smaller(line.qty, have - before), 0)

Trimmed(row) ==
    Where([i \in DOMAIN Moving(row) |-> [Moving(row)[i] EXCEPT !.qty = Given(row, i)]],
          LAMBDA line : line.qty > 0)

(* _refuse_if_dest_goes_negative: line by line, and only for a warehouse.   *)
CancelLeavesStock(row) ==
    row.dst \in Warehouse =>
        \A i \in DOMAIN row.lines :
            balance[<<row.lines[i].item, row.dst>>] - row.lines[i].qty >= 0

(* The lines merged, one for each item, in the order the items appear.      *)
Merged(lines) ==
    LET first == Ascending({i \in DOMAIN lines :
                               \A j \in 1..(i - 1) : lines[j].item # lines[i].item})
    IN  [k \in DOMAIN first |->
            [item |-> lines[first[k]].item, qty |-> QtyOf(lines, lines[first[k]].item)]]

Differences(old, new) ==
    LET all == Merged(old \o new)
    IN  [k \in DOMAIN all |->
            [all[k] EXCEPT !.qty = QtyOf(new, all[k].item) - QtyOf(old, all[k].item)]]

(* Wrong on purpose: new places are written, but only differences moved.    *)
RevisionPlanInPlace(row, r) ==
    LET diff == Differences(Merged(Moving(row)), Merged(r.lines))
        more == Where(diff, LAMBDA line : line.qty > 0)
        less == Where(diff, LAMBDA line : line.qty < 0)
    IN  Moves([i \in DOMAIN less |-> [less[i] EXCEPT !.qty = -@]], row.dst, row.src)
        \o Moves(more, row.src, row.dst)

(* _plan_revision: the returns, then the extras.                            *)
RevisionPlan(row, r) ==
    LET old == Merged(Moving(row))
        new == Merged(r.lines)
        diff == Differences(old, new)
        more == Where(diff, LAMBDA line : line.qty > 0)
        less == Where(diff, LAMBDA line : line.qty < 0)
    IN  IF row.src = r.src /\ row.dst = r.dst
        THEN Moves([i \in DOMAIN less |-> [less[i] EXCEPT !.qty = -@]], row.dst, row.src)
             \o Moves(more, row.src, row.dst)
        ELSE Moves(old, row.dst, row.src) \o Moves(new, r.src, r.dst)

(* _refuse_short_moves: the plan is played against the current on-hand.     *)
Covered(plan) ==
    \A k \in DOMAIN plan : plan[k].dir = "out" =>
        balance[plan[k].loc] + Sum(SubSeq(plan, 1, k), plan[k].loc) >= 0

Numbered(lines, from) ==
    [i \in DOMAIN lines |-> [id |-> from + i - 1, item |-> lines[i].item, qty |-> lines[i].qty]]

-----------------------------------------------------------------------------
(* A request starts: what it read, what it was asked, what it will post.    *)

Serve(t, op, d, ask, plan) ==
    /\ op \in Ops
    /\ Begin(t)
    /\ req' = [req EXCEPT ![t] = [op |-> op, doc |-> d, status |-> status[d],
                                 seen |-> transfer[d], ask |-> ask]]
    /\ todo' = [todo EXCEPT ![t] = plan]
    /\ UNCHANGED docVars

(* approve, and self-approve by an approver.                                *)
StartApprove(t, d) ==
    /\ status[d] = "pending"
    /\ LET row == transfer[d] IN
       Serve(t, "approve", d, Moving(row), Moves(Moving(row), row.src, row.dst))

(* approve_available: a representative's own transfer, trimmed to what the  *)
(* source holds; when it holds nothing the transfer stays pending.          *)
StartAutoApprove(t, d) ==
    /\ status[d] = "pending"
    /\ LET row == transfer[d] IN
       /\ Trimmed(row) # <<>>
       /\ Serve(t, "auto", d, Trimmed(row), Moves(Trimmed(row), row.src, row.dst))

StartCancel(t, d) ==
    /\ status[d] = "approved"
    /\ CancelLeavesStock(transfer[d])
    /\ Serve(t, "cancel", d, <<>>, <<>>)

StartDelete(t, d) ==
    /\ Exists(d)
    /\ Serve(t, "delete", d, <<>>, <<>>)

StartRevise(t, d, r) ==
    /\ status[d] = "approved"
    /\ transfer[d].nextId + Len(r.lines) - 1 =< MaxLineId
    /\ LET plan == RevisionPlan(transfer[d], r) IN
       /\ plan # <<>> \/ r.src # transfer[d].src \/ r.dst # transfer[d].dst
       /\ Covered(plan)
       /\ Serve(t, "revise", d, r, plan)

StartReject(t, d) ==
    /\ status[d] = "pending"
    /\ Serve(t, "reject", d, <<>>, <<>>)

StartAddLine(t, d, line) ==
    /\ status[d] = "pending"
    /\ transfer[d].nextId =< MaxLineId
    /\ Serve(t, "add_line", d, line, <<>>)

StartSetLine(t, d, id, line) ==
    /\ status[d] = "pending"
    /\ Serve(t, "set_line", d, [id |-> id, qty |-> line.qty], <<>>)

StartRemoveLine(t, d, id) ==
    /\ status[d] = "pending"
    /\ Serve(t, "remove_line", d, [id |-> id], <<>>)

(* A sale from a shop: one movement out, the document is another module's.  *)
StartSale(t, item, p, q) ==
    /\ "sell" \in Ops
    /\ p \in Shop
    /\ Begin(t)
    /\ req' = [req EXCEPT ![t] = [op |-> "sell", doc |-> Null, status |-> "none",
                                 seen |-> NoRow, ask |-> <<>>]]
    /\ todo' = [todo EXCEPT ![t] = <<[loc |-> <<item, p>>, dir |-> "out", qty |-> q,
                                     negative |-> FALSE]>>]
    /\ UNCHANGED docVars

-----------------------------------------------------------------------------
(* Wrong on purpose: the row is inserted without post_movement.             *)
PostNextDirectly(t) ==
    /\ todo[t] # <<>>
    /\ pc[t] = "open"
    /\ LET c == Head(todo[t]) IN
       delta' = [delta EXCEPT ![t][c.loc] = @ + Signed(c)]
    /\ todo' = [todo EXCEPT ![t] = Tail(@)]
    /\ UNCHANGED <<docVars, req, known, holder, balance, posts, call, pc>>

(* The movements of the plan, one post_movement each.                       *)
PostNext(t) ==
    /\ todo[t] # <<>>
    /\ Head(todo[t]) \in Call /\ Request(t, Head(todo[t]))
    /\ todo' = [todo EXCEPT ![t] = Tail(@)]
    /\ UNCHANGED <<docVars, req>>

LedgerStep(t) ==
    /\ LockLocator(t) \/ MissLocator(t) \/ InsertLocator(t) \/ InsertMovement(t)
    /\ UNCHANGED <<docVars, req, todo>>

(* Wrong on purpose: the session keeps serving what it has answered.        *)
EndNever(t) == UNCHANGED <<req, todo>>

End(t) ==
    /\ req' = [req EXCEPT ![t] = Null]
    /\ todo' = [todo EXCEPT ![t] = <<>>]

(* A refused movement, a deadlock, or any other exception before the commit *)
LedgerAbort(t) ==
    /\ LocatorTaken(t) \/ NotEnough(t) \/ Rollback(t) \/ DeadlockVictim(t)
    /\ End(t)
    /\ UNCHANGED docVars

-----------------------------------------------------------------------------
(* The last flush and the commit.                                           *)

Ready(t, op) ==
    /\ req[t] # Null
    /\ req[t].op = op
    /\ todo[t] = <<>>

(* The UPDATEs of a flush find the rows they are for; otherwise SQLAlchemy  *)
(* raises StaleDataError, or the foreign key refuses an inserted line.      *)
RowsAlive(t) == Exists(req[t].doc)

LinesAlive(t) == LineIds(req[t].seen.lines) \subseteq LineIds(transfer[req[t].doc].lines)

(* The request commits what it posted and writes the row of its document.   *)
Write(t, st, row) ==
    /\ Commit(t)
    /\ status' = [status EXCEPT ![req[t].doc] = st]
    /\ transfer' = [transfer EXCEPT ![req[t].doc] = row]
    /\ moved' = [moved EXCEPT ![req[t].doc] = [l \in Locator |-> @[l] + delta[t][l]]]
    /\ End(t)

(* Wrong on purpose: the lines are put back, whatever the rows say.         *)
DropByLines(t, st, row) ==
    LET d == req[t].doc
        seen == req[t].seen
        back == Moves(Moving(seen), seen.dst, seen.src)
    IN
    /\ pc[t] = "open"
    /\ balance' = [l \in Locator |-> balance[l] + Sum(back, l)]
    /\ moved' = [moved EXCEPT ![d] = NoDelta]
    /\ status' = [status EXCEPT ![d] = st]
    /\ transfer' = [transfer EXCEPT ![d] = row]
    /\ Release(t)
    /\ End(t)
    /\ UNCHANGED known

(* _drop_movements: every movement row of the document, and no lock taken.  *)
DropMovements(t, st, row) ==
    LET d == req[t].doc IN
    /\ pc[t] = "open"
    /\ balance' = [l \in Locator |-> balance[l] - moved[d][l]]
    /\ moved' = [moved EXCEPT ![d] = NoDelta]
    /\ status' = [status EXCEPT ![d] = st]
    /\ transfer' = [transfer EXCEPT ![d] = row]
    /\ Release(t)
    /\ End(t)
    /\ UNCHANGED known

FinishApprove(t) ==
    /\ Ready(t, "approve")
    /\ RowsAlive(t) /\ LinesAlive(t)
    /\ Write(t, "approved", transfer[req[t].doc])

(* The lines cut down are updated, the lines given nothing deleted, and the *)
(* header repeats the first line that is left.                              *)
FinishAutoApprove(t) ==
    LET row == transfer[req[t].doc]
        cut == req[t].ask
        gone == LineIds(req[t].seen.lines) \ LineIds(cut)
        given(line) == IF line.id \in LineIds(cut)
                       THEN cut[CHOOSE i \in DOMAIN cut : cut[i].id = line.id]
                       ELSE line
    IN
    /\ Ready(t, "auto")
    /\ RowsAlive(t)
    /\ req[t].seen.lines # <<>> => LineIds(cut) \subseteq LineIds(row.lines)
    /\ Write(t, "approved",
             [row EXCEPT !.head = [id |-> 0, item |-> cut[1].item, qty |-> cut[1].qty],
                         !.lines = Where([i \in DOMAIN @ |-> given(@[i])],
                                         LAMBDA line : line.id \notin gone)])

FinishCancel(t) ==
    /\ Ready(t, "cancel")
    /\ RowsAlive(t) /\ LinesAlive(t)
    /\ DropMovements(t, "reversed", transfer[req[t].doc])

(* The movements go only if the transfer was read as approved.              *)
FinishDelete(t) ==
    /\ Ready(t, "delete")
    /\ RowsAlive(t)
    /\ \/ /\ req[t].status = "approved"
          /\ LinesAlive(t)
          /\ DropMovements(t, "deleted", NoRow)
       \/ /\ req[t].status # "approved"
          /\ Write(t, "deleted", NoRow)

(* The lines read are replaced by the merged new ones; the rest of the row  *)
(* is written where it differs from what was read, and the status never.    *)
FinishRevise(t) ==
    LET row == transfer[req[t].doc]
        seen == req[t].seen
        r == req[t].ask
        lines == Merged(r.lines)
        head == [id |-> 0, item |-> r.lines[1].item, qty |-> QtyOf(r.lines, r.lines[1].item)]
    IN
    /\ Ready(t, "revise")
    /\ RowsAlive(t)
    /\ Write(t, status[req[t].doc],
             [row EXCEPT
                    !.src = IF r.src = seen.src THEN @ ELSE r.src,
                    !.dst = IF r.dst = seen.dst THEN @ ELSE r.dst,
                    !.head = IF head = seen.head THEN @ ELSE head,
                    !.lines = Where(@, LAMBDA line : line.id \notin LineIds(seen.lines))
                              \o Numbered(lines, row.nextId),
                    !.nextId = @ + Len(lines)])

FinishReject(t) ==
    /\ Ready(t, "reject")
    /\ RowsAlive(t)
    /\ Write(t, "rejected", transfer[req[t].doc])

(* Wrong on purpose: the whole row is written back as it was read.          *)
FinishAddLineWholeRow(t) ==
    LET row == req[t].seen IN
    /\ Ready(t, "add_line")
    /\ RowsAlive(t)
    /\ Write(t, req[t].status,
             [row EXCEPT !.lines = @ \o Numbered(<<req[t].ask>>, row.nextId),
                         !.nextId = @ + 1])

FinishAddLine(t) ==
    LET row == transfer[req[t].doc] IN
    /\ Ready(t, "add_line")
    /\ RowsAlive(t)
    /\ Write(t, status[req[t].doc],
             [row EXCEPT !.lines = @ \o Numbered(<<req[t].ask>>, row.nextId),
                         !.nextId = @ + 1])

FinishSetLine(t) ==
    /\ Ready(t, "set_line")
    /\ req[t].ask.id \in LineIds(transfer[req[t].doc].lines)
    /\ Write(t, status[req[t].doc], [transfer[req[t].doc] EXCEPT
                    !.lines = [i \in DOMAIN @ |->
                                  IF @[i].id = req[t].ask.id
                                  THEN [@[i] EXCEPT !.qty = req[t].ask.qty] ELSE @[i]]])

FinishRemoveLine(t) ==
    /\ Ready(t, "remove_line")
    /\ Write(t, status[req[t].doc], [transfer[req[t].doc] EXCEPT
                    !.lines = Where(@, LAMBDA line : line.id # req[t].ask.id)])

FinishSale(t) ==
    /\ Ready(t, "sell")
    /\ Commit(t)
    /\ End(t)
    /\ UNCHANGED docVars

-----------------------------------------------------------------------------
(* initiate and add_line in one transaction; nothing moves yet.             *)
Create(d, draft) ==
    /\ status[d] = "none"
    /\ status' = [status EXCEPT ![d] = "pending"]
    /\ transfer' = [transfer EXCEPT ![d] =
                       [src |-> draft.src, dst |-> draft.dst,
                        head |-> [id |-> 0, item |-> draft.lines[1].item,
                                  qty |-> draft.lines[1].qty],
                        lines |-> IF draft.headerOnly THEN <<>> ELSE Numbered(draft.lines, 1),
                        nextId |-> IF draft.headerOnly THEN 1 ELSE Len(draft.lines) + 1]]
    /\ UNCHANGED <<vars, moved, req, todo>>

Start(t, d) ==
    \/ StartApprove(t, d) \/ StartAutoApprove(t, d) \/ StartCancel(t, d)
    \/ StartDelete(t, d) \/ StartReject(t, d)
    \/ \E r \in Revision : StartRevise(t, d, r)
    \/ \E line \in Edit : StartAddLine(t, d, line)
    \/ \E id \in LineIds(transfer[d].lines) :
          StartRemoveLine(t, d, id) \/ \E line \in Edit : StartSetLine(t, d, id, line)

Finish(t) ==
    \/ FinishApprove(t) \/ FinishAutoApprove(t) \/ FinishCancel(t) \/ FinishDelete(t)
    \/ FinishRevise(t) \/ FinishReject(t) \/ FinishAddLine(t) \/ FinishSetLine(t)
    \/ FinishRemoveLine(t) \/ FinishSale(t)

TransferInit ==
    /\ Init
    /\ status = [d \in Doc |-> "none"]
    /\ transfer = [d \in Doc |-> NoRow]
    /\ moved = [d \in Doc |-> NoDelta]
    /\ req = [t \in Txn |-> Null]
    /\ todo = [t \in Txn |-> <<>>]

TransferNext ==
    \/ \E d \in Doc, draft \in Draft : Create(d, draft)
    \/ \E t \in Txn :
          \/ \E d \in Doc : Start(t, d)
          \/ \E item \in Item, p \in Place, q \in Qty : StartSale(t, item, p, q)
          \/ PostNext(t) \/ LedgerStep(t) \/ LedgerAbort(t) \/ Finish(t)

TransferSpec == TransferInit /\ [][TransferNext]_transferVars

(* The same with one request at a time: no other is served at either end of *)
(* a step.                                                                  *)
AloneStep == \E t \in Txn : \A u \in Txn \ {t} : req[u] = Null /\ req'[u] = Null

AloneSpec == TransferInit /\ [][TransferNext /\ AloneStep]_transferVars

-----------------------------------------------------------------------------
(* The type invariant; a transaction serves a request exactly while it is   *)
(* open, and posts only calls the ledger accepts.                           *)
TransferTypeOK ==
    /\ TypeOK
    /\ status \in [Doc -> Status]
    /\ transfer \in [Doc -> Row]
    /\ moved \in [Doc -> [Locator -> Int]]
    /\ \A t \in Txn :
          /\ (req[t] = Null) <=> (pc[t] = "idle")
          /\ req[t] # Null => /\ req[t].op \in Ops /\ req[t].doc \in Doc \cup {Null}
                             /\ req[t].status \in Status /\ req[t].seen \in Row
                             /\ req[t].ask \in Asks(req[t].op)
          /\ todo[t] \in Seq(Posting)

(* However a transfer is served, it uses the stock ledger only through      *)
(* post_movement, one call at a time, and a commit: its steps are steps of  *)
(* the ledger.  (Cancel and delete are the exceptions, see DropMovements.)  *)
ImplementsLedger == Spec

(* Acceptance scenario 1 of the transfers story, "when it is pending        *)
(* approval, no stock has moved yet", whatever requests race on it.         *)
PendingMovesNothing ==
    \A d \in Doc : status[d] \in {"none", "pending"} => moved[d] = NoDelta

(* FR-024: what a transfer took from one place it put in another, item by   *)
(* item, even when requests on it race or are rolled back half way.         *)
TransferConserves ==
    \A d \in Doc, item \in Item :
        SumFunctionOnSet(moved[d], {item} \X Place) = 0

(* SC-002: the on-hand of every place is what it opened with plus the       *)
(* movements of the transfers, deleted ones included.                       *)
OnHandIsExplained ==
    \A l \in Locator :
        balance[l] = Opening[l]
                     + SumFunctionOnSet([d \in Doc |-> moved[d][l]], Doc)

(* The rows are well formed, what every posted movement took from one place *)
(* it brought to the other, and a place holds what its movements say        *)
(* (transfer_service.py: delete, cancel, revise).                           *)
StockIsExplained == TransferTypeOK /\ TransferConserves /\ OnHandIsExplained

(* What lines moved from one place to another are at a locator.             *)
Flow(lines, from, to, l) ==
    LET q == QtyOf(lines, l[1])
    IN  (IF l[2] = to THEN q ELSE 0) - (IF l[2] = from THEN q ELSE 0)

(* The movements an approved transfer stands for.                           *)
Asked(row, l) == Flow(Moving(row), row.src, row.dst, l)

(* FR-024 and research R8: an approved transfer has moved exactly its       *)
(* lines, through revisions of the lines and of the places; one that is     *)
(* not approved, any more or yet, has moved nothing.                        *)
MovedAsApproved ==
    \A d \in Doc : moved[d] = IF status[d] = "approved"
                              THEN [l \in Locator |-> Asked(transfer[d], l)]
                              ELSE NoDelta

(* approve_available moves, of each item, all that was asked or all that    *)
(* the source held, whichever is less.                                      *)
AutoApprovalGives ==
    \A t \in Txn : FinishAutoApprove(t) =>
        LET seen == req[t].seen
            holds(item) == Larger(balance[<<item, seen.src>>], 0)
        IN  seen.src # seen.dst => \A item \in Item :
                moved'[req[t].doc][<<item, seen.dst>>]
                    = Smaller(QtyOf(Moving(seen), item), holds(item))

(* FR-024: an approval moves the quantity of the transfer, once.            *)
ApprovedMovesOnce ==
    \A d \in Doc : status[d] = "approved" =>
        \A l \in Locator : moved[d][l] =< Larger(Asked(transfer[d], l), 0)
=============================================================================
