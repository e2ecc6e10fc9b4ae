----------------------------- MODULE MCHoldings -----------------------------
(* Instances of Reconcile, StorePapers, Purchases and FixedAssets: what is  *)
(* owed, what lies in stores, and what is kept.  A behaviour takes place in *)
(* one world, where one of them moves:                                      *)
(*   "claims", where two requests race over few links, and "claims_alone";  *)
(*   "permits", without wastage and counts, and "papers", where papers are  *)
(*   undone in order;                                                       *)
(*   "purchases" and "purchases_alone", where a request for a return is not *)
(*   interrupted, names an item once, and is not edited later;              *)
(*   "assets", with one asset at a time, and "assets_alone".                *)
(* The worlds named alone serve one request at a time.                      *)
EXTENDS Reconcile, StorePapers, Purchases, FixedAssets

CONSTANTS bill, late, pay, shop, van, solid, fresh
VARIABLE world

vars == <<world, reconcileVars, paperVars, purchaseVars, assetVars>>

(* An invoice of 2 and one of 1 that matures first, and an entry that pays  *)
(* 1 and 2.                                                                 *)
Lines4 == 1..4
EntryOf4 == [l \in Lines4 |-> IF l = 1 THEN bill ELSE IF l = 2 THEN late ELSE pay]
Amount4 == <<2, 1, -1, -2>>
Due4 == <<2, 1, 1, 1>>
MaxLinkRace == 2

OfFresh(n, day) == fresh :> [n |-> n, day |-> day]
OfSolid(n) == solid :> [n |-> n, day |-> 0]
MCPermitLines == {OfFresh(2, 1), OfSolid(1) @@ OfFresh(1, 2)}
MCCounts == {(<<shop, solid>> :> 1) @@ (<<shop, fresh>> :> 1)}

Bought(i, y, n) == [item |-> i, store |-> y, n |-> n]
Back(i, n) == [item |-> i, n |-> n]
MCBoughtLines ==
    {<<Bought(solid, shop, 2)>>, <<Bought(solid, van, 1), Bought(solid, shop, 1)>>,
     <<Bought(fresh, van, 1)>>}
MCBackLines == {<<Back(solid, 1)>>, <<Back(solid, 1), Back(solid, 1)>>, <<Back(fresh, 1)>>}

Kind(cost, salvage, life, declining, from) ==
    [cost |-> cost, salvage |-> salvage, life |-> life, declining |-> declining, from |-> from]
MCAssetKind == {Kind(101, 0, 2, FALSE, 1), Kind(100, 10, 3, TRUE, 1)}

(* Bounds: at most one item has left a store, or two a yard, beyond what    *)
(* papers brought; no lot holds more than three or lacks more than two.     *)
PapersBounded ==
    /\ \A s \in Depot, i \in Ware : otherwise'[s][i] >= -1
    /\ \A s \in Depot, d \in BestDay : batch'[s][d] \in -2..3
YardsBounded == \A y \in Yard, i \in Goods : elsewhere'[y][i] >= -2

(* What is of one name in several worlds changes places with its like.      *)
MCSymmetry == Permutations(Txn) \cup Permutations(Permit) \cup Permutations(Purchase)

Worlds == {"claims", "claims_alone", "permits", "papers", "purchases", "purchases_alone",
           "assets", "assets_alone"}

Init ==
    /\ world \in Worlds
    /\ ReconcileInit /\ PaperInit /\ PurchasesInit /\ AssetsInit

ClaimsStep ==
    /\ ReconcileNext
    /\ IF world = "claims_alone"
       THEN \E t \in Txn : \A u \in Txn \ {t} : job[u] = Null /\ job'[u] = Null
       ELSE /\ made'.links =< MaxLinkRace
            /\ \A t \in Txn : job'[t] # Null =>
                  job'[t].op # "cancel" /\ job'[t].entry # late

PapersStep ==
    /\ PaperNext /\ PapersBounded
    /\ IF world = "permits" THEN scrap' = scrap /\ tally' = tally
       ELSE UndoneInOrder /\ Cardinality({p \in Permit : permit'[p] # Null}) =< 2

PurchasesStep ==
    /\ PurchasesNext /\ YardsBounded
    /\ world = "purchases_alone" =>
          /\ (\E q \in Buyer : asking[q] # Null) => \A q \in Buyer : asking'[q] = Null
          /\ \A q \in Buyer : asking'[q] # Null => DOMAIN asking'[q].lines = {1}
          /\ \A t \in PurchaseReturn : givenBack[t] # Null /\ givenBack[t].of # Null =>
                givenBack'[t] \in {givenBack[t], Null}

AssetsStep ==
    /\ AssetsNext
    /\ IF world = "assets_alone"
       THEN \E q \in Accountant : \A p \in Accountant \ {q} : errand[p] = Null /\ errand'[p] = Null
       ELSE Cardinality({a \in Asset : asset'[a] # Null}) =< 1
    /\ world = "assets_alone" /\ (\E q \in Accountant : errand[q] # Null) => errand' # errand

In(W, step, rest) == world \in W /\ step /\ UNCHANGED <<world, rest>>

Next ==
    \/ In({"claims", "claims_alone"}, ClaimsStep, <<paperVars, purchaseVars, assetVars>>)
    \/ In({"permits", "papers"}, PapersStep, <<reconcileVars, purchaseVars, assetVars>>)
    \/ In({"purchases", "purchases_alone"}, PurchasesStep,
          <<reconcileVars, paperVars, assetVars>>)
    \/ In({"assets", "assets_alone"}, AssetsStep,
          <<reconcileVars, paperVars, purchaseVars>>)

Spec == Init /\ [][Next]_vars

-----------------------------------------------------------------------------
(* One request at a time: what a posted line has left is its amount less    *)
(* what its links paid (reconcile_service.py: reconcile, unreconcile), and  *)
(* a line is closed only when nothing is left of it (_close_if_done); an    *)
(* entry whose lines are matched stays posted (ledger_service.py:           *)
(* _release_residuals), and payment_state follows the residuals             *)
(* (refresh_payment_state).  However requests race, the rows are well       *)
(* formed, and none spends a line to the other side.                        *)
ClaimsAddUp ==
    /\ ReconcileTypeOK /\ ResidualOnItsSide
    /\ world = "claims_alone" => 
          /\ ResidualIsWhatIsLeft /\ ClosedIsZero
          /\ MatchedStaysPosted /\ PaymentStateFollows

(* The movements of permits are their lines, what is reversed is reversed   *)
(* whole and once, and no permit is taken back whose goods have left; when  *)
(* papers are undone in order, the mirrors have a permit that stands for    *)
(* them (stock_permit_service.py), and the lots of a store add up to its    *)
(* stock, but for what was wasted, which is not taken out of lots           *)
(* (batch_service.py: consume_fefo; wastage_service.py).                    *)
PermitsAddUp ==
    /\ PaperTypeOK /\ PermitsExplained
    /\ world = "papers" => MirroredByLiving /\ LotsExplained

(* One request at a time, what goes back of a purchase was bought on it,    *)
(* where it leaves from, and no more than that (purchase_service.py:        *)
(* return_purchase; document_edit_service.py: assert_purchase_editable).    *)
ReturnedWithinBoughtAlone ==
    PurchasesTypeOK /\ (world = "purchases_alone" => ReturnedWithinBought)

(* A place lacks goods only after a purchase that brought them was undone   *)
(* (stock_service.py: post_movement; document_edit_service.py:              *)
(* purge_purchase).                                                         *)
LackedStep == [][LackedByUndoing]_vars

(* However requests race, no asset is charged twice for a month             *)
(* (fixed_asset_service.py: run_depreciation); one request at a time, the   *)
(* accumulated account holds what was charged less what disposals took off, *)
(* and no asset is charged below its salvage value (lib/depreciation.py).   *)
AssetsAddUp ==
    /\ AssetsTypeOK /\ OncePerMonth
    /\ world = "assets_alone" => BookedAsCharged /\ SalvageIsKept
=============================================================================
