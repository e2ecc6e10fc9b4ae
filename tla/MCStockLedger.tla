---------------------------- MODULE MCStockLedger ----------------------------
(* Instances of StockLedger for TLC: two requests, three locators, one of    *)
(* them never touched before.                                                *)
EXTENDS StockLedger, TLC

CONSTANTS shop, van, fresh, wip, r1, r2

MCOpening == [l \in Locator |-> IF l = shop THEN 2 ELSE IF l = van THEN 1 ELSE 0]
MCSymmetry == Permutations(Txn)
=============================================================================
