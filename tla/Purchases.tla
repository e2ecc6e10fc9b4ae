------------------------------ MODULE Purchases ------------------------------
(***************************************************************************)
(* Goods bought and given back (src/backend/src/services/                  *)
(* purchase_service.py, the purchases of document_edit_service.py,         *)
(* src/backend/src/api/purchases.py), with the stock they move.            *)
(*                                                                         *)
(* A return of a purchase reads what was bought and given back before,     *)
(* without a lock, and posts later; other requests may come in between.    *)
(* They are taken at one instant.  Money, units and discounts are left     *)
(* out: the entry of a document is written and dropped with it.            *)
(***************************************************************************)
EXTENDS Integers, Sequences, FiniteSets, FiniteSetsExt, NullValue

CONSTANTS
    Purchase, PurchaseReturn,   \* documents
    Yard, Goods,                \* where goods are kept, and what they are
    Buyer,                      \* concurrent requests for a return
    BoughtLines,                \* lines a purchase may have
    BackLines                   \* items and quantities a request may give back

ASSUME PurchaseAssumption ==
    /\ IsFiniteSet(Purchase) /\ IsFiniteSet(PurchaseReturn) /\ IsFiniteSet(Yard)
    /\ BoughtLines \subseteq Seq([item : Goods, store : Yard, n : Nat])
    /\ BackLines \subseteq Seq([item : Goods, n : Nat])
ASSUME PurchaseNull == Null \notin Purchase \cup PurchaseReturn \cup BoughtLines

VARIABLES
    bought,     \* the lines of each purchase
    givenBack,  \* the purchase and the lines of each return
    asking,     \* what a request for a return has decided on
    elsewhere   \* what other documents moved into a place

purchaseVars == <<bought, givenBack, asking, elsewhere>>

(* How many of an item lines move into, or out of, a place.                 *)
Many(ls, i, y) ==
    SumFunctionOnSet([k \in DOMAIN ls |-> ls[k].n],
                     {k \in DOMAIN ls : ls[k].item = i /\ ls[k].store = y})

ReturnsOf(b) == {t \in PurchaseReturn : givenBack[t] # Null /\ givenBack[t].of = b}

(* What a document moves.                                                   *)
Brought(b, i, y) == IF bought[b] = Null THEN 0 ELSE Many(bought[b], i, y)
Returned(t, i, y) == IF givenBack[t] = Null THEN 0 ELSE Many(givenBack[t].lines, i, y)

(* What returns move together.                                              *)
AllReturned(T, i, y) == SumFunctionOnSet([t \in T |-> Returned(t, i, y)], T)

(* What a place has of an item, without return t.                           *)
OnShelfBut(t, i, y) ==
    elsewhere[y][i]
      + SumFunctionOnSet([b \in Purchase |-> Brought(b, i, y)], Purchase)
      - AllReturned(PurchaseReturn \ {t}, i, y)
OnShelf(i, y) == OnShelfBut(Null, i, y)

-----------------------------------------------------------------------------
Buy(b, ls) ==
    /\ bought[b] = Null
    /\ bought' = [bought EXCEPT ![b] = ls]
    /\ UNCHANGED <<givenBack, asking, elsewhere>>

(* Wrong on purpose: a purchase changes under its returns.                  *)
PurchaseEditableAlways(b) == TRUE

PurchaseEditable(b) == ReturnsOf(b) = {}

(* Nobody looks whether the goods are still there.                          *)
EditPurchase(b, ls) ==
    /\ bought[b] # Null /\ PurchaseEditable(b)
    /\ bought' = [bought EXCEPT ![b] = ls]
    /\ UNCHANGED <<givenBack, asking, elsewhere>>

DeletePurchase(b) ==
    /\ bought[b] # Null /\ PurchaseEditable(b)
    /\ bought' = [bought EXCEPT ![b] = Null]
    /\ UNCHANGED <<givenBack, asking, elsewhere>>

-----------------------------------------------------------------------------
(* Of an item that a purchase lists twice its last line counts.             *)
LastLine(b, i) ==
    LET K == {k \in DOMAIN bought[b] : bought[b][k].item = i} IN bought[b][Max(K)]

Listed(b) == {bought[b][k].item : k \in DOMAIN bought[b]}

GivenBackBefore(b, i) ==
    SumFunctionOnSet([y \in Yard |-> AllReturned(ReturnsOf(b), i, y)], Yard)

(* Each line of a request is held against what was bought by itself.        *)
AskBack(q, b, ls) ==
    /\ asking[q] = Null /\ bought[b] # Null
    /\ \A k \in DOMAIN ls :
          /\ ls[k].item \in Listed(b)
          /\ GivenBackBefore(b, ls[k].item) + ls[k].n =< LastLine(b, ls[k].item).n
    /\ asking' = [asking EXCEPT ![q] =
          [of |-> b,
           lines |-> [k \in DOMAIN ls |->
                        [item |-> ls[k].item, n |-> ls[k].n,
                         store |-> LastLine(b, ls[k].item).store]]]]
    /\ UNCHANGED <<bought, givenBack, elsewhere>>

(* Wrong on purpose: goods go back that are not there.                      *)
StillThereNot(t, ls) == TRUE

(* The goods of lines ls are there, where those of return t are back.       *)
StillThere(t, ls) ==
    \A i \in Goods, y \in Yard : Many(ls, i, y) > 0 => Many(ls, i, y) =< OnShelfBut(t, i, y)

(* A return of a purchase that is gone violates the foreign key.            *)
PostBack(q, t) ==
    /\ asking[q] # Null /\ givenBack[t] = Null
    /\ bought[asking[q].of] # Null
    /\ StillThere(t, asking[q].lines)
    /\ givenBack' = [givenBack EXCEPT ![t] = asking[q]]
    /\ asking' = [asking EXCEPT ![q] = Null]
    /\ UNCHANGED <<bought, elsewhere>>

RefuseBack(q) ==
    /\ asking[q] # Null
    /\ bought[asking[q].of] = Null \/ ~ StillThere(Null, asking[q].lines)
    /\ asking' = [asking EXCEPT ![q] = Null]
    /\ UNCHANGED <<bought, givenBack, elsewhere>>

(* A return of no purchase names its places itself.                         *)
GiveBackAtWill(t, ls) ==
    /\ givenBack[t] = Null
    /\ StillThere(t, ls)
    /\ givenBack' = [givenBack EXCEPT ![t] = [of |-> Null, lines |-> ls]]
    /\ UNCHANGED <<bought, asking, elsewhere>>

(* Any return is edited like those of no purchase, and stays with its own.  *)
EditBack(t, ls) ==
    /\ givenBack[t] # Null
    /\ StillThere(t, ls)
    /\ givenBack' = [givenBack EXCEPT ![t] = [of |-> givenBack[t].of, lines |-> ls]]
    /\ UNCHANGED <<bought, asking, elsewhere>>

DeleteBack(t) ==
    /\ givenBack[t] # Null
    /\ givenBack' = [givenBack EXCEPT ![t] = Null]
    /\ UNCHANGED <<bought, asking, elsewhere>>

(* A sale, or any other document, takes one.                                *)
TakeOne(i, y) ==
    /\ OnShelf(i, y) >= 1
    /\ elsewhere' = [elsewhere EXCEPT ![y][i] = @ - 1]
    /\ UNCHANGED <<bought, givenBack, asking>>

-----------------------------------------------------------------------------
PurchasesInit ==
    /\ bought = [b \in Purchase |-> Null]
    /\ givenBack = [t \in PurchaseReturn |-> Null]
    /\ asking = [q \in Buyer |-> Null]
    /\ elsewhere = [y \in Yard |-> [i \in Goods |-> 0]]

PurchasesNext ==
    \/ \E b \in Purchase :
          \/ \E ls \in BoughtLines : Buy(b, ls) \/ EditPurchase(b, ls)
          \/ DeletePurchase(b)
          \/ \E q \in Buyer, ls \in BackLines : AskBack(q, b, ls)
    \/ \E t \in PurchaseReturn :
          \/ \E q \in Buyer : PostBack(q, t)
          \/ \E ls \in BoughtLines : GiveBackAtWill(t, ls) \/ EditBack(t, ls)
          \/ DeleteBack(t)
    \/ \E q \in Buyer : RefuseBack(q)
    \/ \E i \in Goods, y \in Yard : TakeOne(i, y)

PurchasesSpec == PurchasesInit /\ [][PurchasesNext]_purchaseVars

-----------------------------------------------------------------------------
AreLines(ls) ==
    /\ IsFiniteSet(DOMAIN ls)
    /\ \A k \in DOMAIN ls : ls[k].item \in Goods /\ ls[k].store \in Yard /\ ls[k].n \in Nat

PurchasesTypeOK ==
    /\ bought \in [Purchase -> BoughtLines \cup {Null}]
    /\ givenBack = [t \in PurchaseReturn |-> givenBack[t]]
    /\ \A t \in PurchaseReturn : givenBack[t] # Null =>
          givenBack[t].of \in Purchase \cup {Null} /\ AreLines(givenBack[t].lines)
    /\ asking = [q \in Buyer |-> asking[q]]
    /\ \A q \in Buyer : asking[q] # Null =>
          asking[q].of \in Purchase /\ AreLines(asking[q].lines)
    /\ elsewhere \in [Yard -> [Goods -> Int]]

(* What goes back of a purchase was bought on it, at the place it leaves,   *)
(* and is no more than that.                                                *)
ReturnedWithinBought ==
    \A b \in Purchase, i \in Goods, y \in Yard :
        AllReturned(ReturnsOf(b), i, y) =< Brought(b, i, y)

(* A place lacks goods only after a purchase that brought them was undone.  *)
LackedByUndoing ==
    \A i \in Goods, y \in Yard :
        OnShelf(i, y) >= 0 /\ OnShelf(i, y)' < 0 =>
            \E b \in Purchase :
                /\ Brought(b, i, y) > 0
                /\ bought'[b] # bought[b]
=============================================================================
