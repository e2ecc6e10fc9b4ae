-------------------------------- MODULE Sales --------------------------------
(***************************************************************************)
(* Sales invoices and their returns (src/backend/src: services/            *)
(* sales_service.py, document_edit_service.py, serial_service.py,          *)
(* batch_service.py, api/sales.py): what they do to the quantity of one    *)
(* item, and to what is kept beside it: the row of each piece for an item  *)
(* with serial numbers, the quantity of each lot for a perishable one.     *)
(*                                                                         *)
(* An edit purges what the document did and builds it again; a deletion    *)
(* purges it.  Each request is one transaction and runs at one instant,    *)
(* except the return of an invoice, which reads how much was returned      *)
(* before without a lock.                                                  *)
(***************************************************************************)
EXTENDS Integers, FiniteSets, FiniteSetsExt, Functions, NullValue

CONSTANTS
    Invoice, Return,   \* documents, each issued once
    Loc,               \* places that hold the item
    Piece,             \* the pieces there are; a line names those it moves
    Expiry,            \* expiry dates of lots
    Home,              \* where each piece is at first
    BestBefore,        \* and the date of the lot it counts in
    Asker,             \* concurrent requests for a return
    SalesOps          \* which of "edit", "delete" and "standalone" there are

ASSUME ExpiryAssumption == Expiry \subseteq Nat /\ IsFiniteSet(Expiry)
ASSUME PieceAssumption ==
    IsFiniteSet(Piece) /\ \A p \in Piece : Home[p] \in Loc /\ BestBefore[p] \in Expiry
ASSUME SalesDocuments == Invoice \cap Return = {} /\ IsFiniteSet(Return)

InvoiceRow == [loc : Loc, qty : Nat \ {0}]
ReturnRow == [inv : Invoice \cup {Null}, loc : Loc, qty : Nat \ {0}]
AskedReturn == [inv : Invoice, loc : Loc, pieces : (SUBSET Piece) \ {{}}]

ASSUME SalesNull == Null \notin Invoice \cup InvoiceRow \cup ReturnRow \cup AskedReturn

VARIABLES
    tracking,   \* "serials" or "lots"
    invoice,    \* the rows of sales_invoice and
    return,     \* of sales_return that exist
    issued,     \* the numbers used up
    rows,       \* the tables beside the documents
    asked       \* what a request for a return has read

salesVars == <<tracking, invoice, return, issued, rows, asked>>

Doc == Invoice \cup Return
NoLots == [l \in Loc |-> [e \in Expiry |-> 0]]

HomeOf(l, e) == Cardinality({p \in Piece : Home[p] = l /\ BestBefore[p] = e})

(* Tables: stock_movement summed by document and place, item_serial and the *)
(* documents its movements name, stock_batch and its movements.             *)
Opening ==
    [moved |-> [d \in Doc |-> [l \in Loc |-> 0]],
     piece |-> [p \in Piece |-> [sold |-> FALSE, loc |-> Home[p], inv |-> Null]],
     log |-> {},
     lots |-> [l \in Loc |-> [e \in Expiry |-> HomeOf(l, e)]],
     lotLog |-> [d \in Doc |-> NoLots]]

OnHand(s, l) ==
    Cardinality({p \in Piece : Home[p] = l}) + MapThenSumSet(LAMBDA d : s.moved[d][l], Doc)

InStock(s, l) == {p \in Piece : ~ s.piece[p].sold /\ s.piece[p].loc = l}
InLots(s, l) == MapThenSumSet(LAMBDA e : s.lots[l][e], Expiry)

-----------------------------------------------------------------------------
(* Pieces go out with an invoice. *)

Have(s, l, e) == Max({0, s.lots[l][e]})

(* The lot that expires first is used up first.                             *)
Fefo(s, l, n) ==
    [e \in Expiry |->
        Max({0, Min({Have(s, l, e),
                     n - SumFunctionOnSet([f \in Expiry |-> Have(s, l, f)],
                                          {f \in Expiry : f < e})})})]

Sellable(s, l, P) ==
    /\ P # {} /\ Cardinality(P) =< OnHand(s, l)
    /\ tracking = "serials" => P \subseteq InStock(s, l)
    /\ tracking = "lots" =>
          Cardinality(P) =< MapThenSumSet(LAMBDA e : Have(s, l, e), Expiry)

Sold(s, i, l, P) ==
    LET n == Cardinality(P)
        t == [s EXCEPT !.moved[i][l] = @ - n]
    IN  IF tracking = "serials"
        THEN [t EXCEPT
                !.piece = [p \in Piece |-> IF p \in P
                              THEN [sold |-> TRUE, loc |-> Null, inv |-> i] ELSE @[p]],
                !.log = @ \cup {[piece |-> p, doc |-> i] : p \in P}]
        ELSE [t EXCEPT
                !.lots[l] = [e \in Expiry |-> @[e] - Fefo(s, l, n)[e]],
                !.lotLog[i][l] = [e \in Expiry |-> @[e] + Fefo(s, l, n)[e]]]

(* Give the lots back what a document took, take what it gave.              *)
LotsRestored(s, d) ==
    [s EXCEPT !.lots = [l \in Loc |-> [e \in Expiry |-> @[l][e] + s.lotLog[d][l][e]]],
              !.lotLog[d] = NoLots]

(* Wrong on purpose: an edited or deleted invoice keeps its movements.      *)
StockDroppedNot(s, d) == s

StockDropped(s, d) == [s EXCEPT !.moved[d] = [l \in Loc |-> 0]]

(* Wrong on purpose: only the movements of the pieces are deleted.          *)
SerialsRestoredNot(s, i) == [s EXCEPT !.log = {m \in @ : m.doc # i}]

(* The pieces sold on an invoice are in stock again, though nothing says    *)
(* where.                                                                   *)
SerialsRestored(s, i) ==
    [s EXCEPT !.piece = [p \in Piece |-> IF @[p].inv = i
                            THEN [@[p] EXCEPT !.sold = FALSE, !.inv = Null] ELSE @[p]],
              !.log = {m \in @ : m.doc # i}]

PurgeSale(s, i) == StockDropped(LotsRestored(SerialsRestored(s, i), i), i)

Sell(i, l, P) ==
    /\ i \notin issued /\ Sellable(rows, l, P)
    /\ issued' = issued \cup {i}
    /\ invoice' = [invoice EXCEPT ![i] = [loc |-> l, qty |-> Cardinality(P)]]
    /\ rows' = Sold(rows, i, l, P)
    /\ UNCHANGED <<tracking, return, asked>>

Returns(i) == {t \in Return : return[t] # Null /\ return[t].inv = i}

EditSale(i, l, P) ==
    /\ "edit" \in SalesOps
    /\ invoice[i] # Null /\ Returns(i) = {}
    /\ Sellable(PurgeSale(rows, i), l, P)
    /\ invoice' = [invoice EXCEPT ![i] = [loc |-> l, qty |-> Cardinality(P)]]
    /\ rows' = Sold(PurgeSale(rows, i), i, l, P)
    /\ UNCHANGED <<tracking, return, issued, asked>>

-----------------------------------------------------------------------------
(* Pieces come back. *)

(* Pieces of a return are sold again, on the invoice it was for.  A return  *)
(* of an invoice logs its pieces and lots under the invoice, so nothing of  *)
(* them is found under its own number.                                      *)
SerialsResold(s, t) ==
    [s EXCEPT !.piece = [p \in Piece |-> IF [piece |-> p, doc |-> t] \in s.log
                            THEN [@[p] EXCEPT !.sold = TRUE, !.inv = return[t].inv]
                            ELSE @[p]],
              !.log = {m \in @ : m.doc # t}]

PurgeReturn(s, t) == StockDropped(LotsRestored(SerialsResold(s, t), t), t)

PurgeReturns(s, T) ==
    [s EXCEPT !.moved = [d \in Doc |-> IF d \in T THEN [l \in Loc |-> 0] ELSE @[d]]]

(* A deletion takes the invoice's returns with it.                          *)
DeleteSale(i) ==
    /\ "delete" \in SalesOps
    /\ invoice[i] # Null
    /\ rows' = PurgeSale(PurgeReturns(rows, Returns(i)), i)
    /\ invoice' = [invoice EXCEPT ![i] = Null]
    /\ return' = [t \in Return |-> IF t \in Returns(i) THEN Null ELSE return[t]]
    /\ UNCHANGED <<tracking, issued, asked>>

(* Wrong on purpose: each return is compared with the invoice alone.        *)
AlreadyReturnedNot(i) == 0

AlreadyReturned(i) == SumFunctionOnSet([t \in Returns(i) |-> return[t].qty], Returns(i))

(* A request reads the invoice and what was returned of it before.          *)
AskReturn(r, i, P) ==
    /\ asked[r] = Null /\ invoice[i] # Null
    /\ P # {} /\ AlreadyReturned(i) + Cardinality(P) =< invoice[i].qty
    /\ asked' = [asked EXCEPT ![r] = [inv |-> i, loc |-> invoice[i].loc, pieces |-> P]]
    /\ UNCHANGED <<tracking, invoice, return, issued, rows>>

(* It posts the movement, brings back the pieces, which must be sold on the *)
(* invoice, or adds to the lot the user names, and commits: the invoice has *)
(* to be there still.                                                       *)
ReturnSale(r, t, e) ==
    LET a == asked[r]
        n == Cardinality(a.pieces)
        s == [rows EXCEPT !.moved[t][a.loc] = @ + n]
    IN
    /\ a # Null /\ t \notin issued /\ invoice[a.inv] # Null
    /\ tracking = "serials" =>
          \A p \in a.pieces : rows.piece[p].sold /\ rows.piece[p].inv = a.inv
    /\ rows' = IF tracking = "serials"
               THEN [s EXCEPT
                      !.piece = [p \in Piece |-> IF p \in a.pieces
                                    THEN [sold |-> FALSE, loc |-> a.loc, inv |-> Null]
                                    ELSE @[p]],
                      !.log = @ \cup {[piece |-> p, doc |-> a.inv] : p \in a.pieces}]
               ELSE [s EXCEPT !.lots[a.loc][e] = @ + n, !.lotLog[a.inv][a.loc][e] = @ - n]
    /\ return' = [return EXCEPT ![t] = [inv |-> a.inv, loc |-> a.loc, qty |-> n]]
    /\ issued' = issued \cup {t}
    /\ asked' = [asked EXCEPT ![r] = Null]
    /\ UNCHANGED <<tracking, invoice>>

(* Refused, by a check or by a foreign key.                                 *)
RefuseReturn(r) ==
    /\ asked[r] # Null
    /\ asked' = [asked EXCEPT ![r] = Null]
    /\ UNCHANGED <<tracking, invoice, return, issued, rows>>

(* A return of pieces sold on any invoice; it leaves the lots alone.        *)
Restored(s, t, l, P) ==
    LET u == [s EXCEPT !.moved[t][l] = @ + Cardinality(P)]
    IN  IF tracking = "lots" THEN u
        ELSE [u EXCEPT
                !.piece = [p \in Piece |-> IF p \in P
                              THEN [sold |-> FALSE, loc |-> l, inv |-> Null] ELSE @[p]],
                !.log = @ \cup {[piece |-> p, doc |-> t] : p \in P}]

Restorable(s, P) == P # {} /\ (tracking = "serials" => \A p \in P : s.piece[p].sold)

StandaloneReturn(t, l, P) ==
    /\ "standalone" \in SalesOps
    /\ t \notin issued /\ Restorable(rows, P)
    /\ issued' = issued \cup {t}
    /\ return' = [return EXCEPT ![t] = [inv |-> Null, loc |-> l, qty |-> Cardinality(P)]]
    /\ rows' = Restored(rows, t, l, P)
    /\ UNCHANGED <<tracking, invoice, asked>>

(* Only returns without an invoice are listed for editing.                  *)
EditReturn(t, l, P) ==
    /\ {"standalone", "edit"} \subseteq SalesOps
    /\ return[t] # Null /\ return[t].inv = Null
    /\ Restorable(PurgeReturn(rows, t), P)
    /\ return' = [return EXCEPT ![t].loc = l, ![t].qty = Cardinality(P)]
    /\ rows' = Restored(PurgeReturn(rows, t), t, l, P)
    /\ UNCHANGED <<tracking, invoice, issued, asked>>

DeleteReturn(t) ==
    /\ "delete" \in SalesOps
    /\ return[t] # Null
    /\ rows' = PurgeReturn(rows, t)
    /\ return' = [return EXCEPT ![t] = Null]
    /\ UNCHANGED <<tracking, invoice, issued, asked>>

-----------------------------------------------------------------------------
SalesInit ==
    /\ tracking \in {"serials", "lots"}
    /\ invoice = [i \in Invoice |-> Null] /\ return = [t \in Return |-> Null]
    /\ issued = {} /\ rows = Opening /\ asked = [r \in Asker |-> Null]

SalesNext ==
    \/ \E i \in Invoice, l \in Loc, P \in SUBSET Piece : Sell(i, l, P) \/ EditSale(i, l, P)
    \/ \E i \in Invoice : DeleteSale(i)
    \/ \E r \in Asker :
          \/ \E i \in Invoice, P \in SUBSET Piece : AskReturn(r, i, P)
          \/ \E t \in Return, e \in Expiry : ReturnSale(r, t, e)
          \/ RefuseReturn(r)
    \/ \E t \in Return, l \in Loc, P \in SUBSET Piece :
          StandaloneReturn(t, l, P) \/ EditReturn(t, l, P)
    \/ \E t \in Return : DeleteReturn(t)

SalesSpec == SalesInit /\ [][SalesNext]_salesVars

-----------------------------------------------------------------------------
SalesTypeOK ==
    /\ \A i \in Invoice : invoice[i] # Null =>
          i \in issued /\ invoice[i] \in InvoiceRow
    /\ \A t \in Return : return[t] # Null =>
          t \in issued /\ return[t] \in ReturnRow
    /\ rows.piece \in [Piece -> [sold : BOOLEAN, loc : Loc \cup {Null},
                                 inv : Invoice \cup {Null}]]
    /\ \A l \in Loc, e \in Expiry : rows.lots[l][e] \in Int

(* Whatever is sold, edited, returned and deleted, in whatever order, each  *)
(* document that exists has moved exactly its quantity at its own place,    *)
(* and one that is gone has left no movement behind.                        *)
MovedAsDocumented ==
    \A l \in Loc :
        /\ \A i \in Invoice : rows.moved[i][l] =
              IF invoice[i] # Null /\ invoice[i].loc = l THEN - invoice[i].qty ELSE 0
        /\ \A t \in Return : rows.moved[t][l] =
              IF return[t] # Null /\ return[t].loc = l THEN return[t].qty ELSE 0

(* "Cumulative returned quantity per line MUST NOT exceed the sold          *)
(* quantity."                                                               *)
ReturnedWithinSold ==
    \A i \in Invoice : invoice[i] # Null =>
        SumFunctionOnSet([t \in Returns(i) |-> return[t].qty], Returns(i)) =< invoice[i].qty

(* A piece that counts as sold on an invoice is sold on one that exists.    *)
SoldOnLiveInvoice ==
    \A p \in Piece : rows.piece[p].inv # Null =>
        rows.piece[p].sold /\ invoice[rows.piece[p].inv] # Null

(* "The number in stock must equal the balance", of serial numbers as of    *)
(* the quantities of lots.                                                  *)
PiecesMatchStock ==
    \A l \in Loc : OnHand(rows, l) = IF tracking = "serials" THEN Cardinality(InStock(rows, l))
                                                            ELSE InLots(rows, l)
=============================================================================
