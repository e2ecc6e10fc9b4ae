----------------------------- MODULE FixedAssets -----------------------------
(***************************************************************************)
(* Fixed assets, their monthly depreciation and their disposal             *)
(* (src/backend/src/services/fixed_asset_service.py,                       *)
(* src/backend/src/lib/depreciation.py), with what their entries leave on  *)
(* the account of accumulated depreciation, asset by asset.                *)
(*                                                                         *)
(* A request reads the tables without a lock, and posts later; it is one   *)
(* transaction, and what it wrote is seen at its end.  Money is counted in *)
(* hundredths, months from one.                                            *)
(***************************************************************************)
EXTENDS Integers, FiniteSets, Functions, NullValue

CONSTANTS
    Asset,
    AssetKind,      \* cost, salvage, life, method and first month of assets
    DepMonth,
    Charge,         \* the entries of depreciation, each posted once
    Proceeds,       \* what an asset may be sold for
    Accountant      \* concurrent requests

ASSUME DepMonthAssumption == DepMonth \subseteq Nat
ASSUME AssetAssumption ==
    /\ IsFiniteSet(Asset) /\ Proceeds \subseteq Nat
    /\ AssetKind \subseteq [cost : Nat, salvage : Nat, life : Nat, declining : BOOLEAN, from : Nat]

(* Rows of the tables.                                                      *)
AssetRow == [cost : Nat, salvage : Nat, life : Nat \ {0}, declining : BOOLEAN, from : Nat,
             proceeds : Proceeds \cup {Null}, gain : Int]
ChargeRow == [asset : Asset, month : DepMonth, amount : Nat \ {0}, charge : Charge]

ASSUME AssetNull == Null \notin Proceeds \cup AssetRow

VARIABLES
    asset,      \* rows of fixed_asset
    charged,    \* rows of depreciation_record
    charges,    \* the entries of depreciation ever posted
    booked,     \* of each asset, on the account of accumulated depreciation
    errand      \* what a request has read

assetVars == <<asset, charged, charges, booked, errand>>

ChargedTo(rows, a) ==
    SumFunctionOnSet([r \in rows |-> r.amount], {r \in rows : r.asset = a})
Accumulated(a) == ChargedTo(charged, a)
Active(a) == asset[a] # Null /\ asset[a].proceeds = Null

-----------------------------------------------------------------------------
HalfUp(n, d) == (2 * n + d) \div (2 * d)

Raw(k, acc) ==
    IF k.declining THEN HalfUp(2 * (k.cost - acc), k.life)
    ELSE HalfUp(k.cost - k.salvage, k.life)

(* Wrong on purpose: the last month takes as much as any.                   *)
MonthlyAmountUncapped(k, acc, m) == IF m < k.from THEN 0 ELSE Raw(k, acc)

MonthlyAmount(k, acc, m) ==
    LET remaining == k.cost - k.salvage - acc IN
    IF m < k.from \/ remaining =< 0 THEN 0
    ELSE IF Raw(k, acc) > remaining THEN remaining ELSE Raw(k, acc)

-----------------------------------------------------------------------------
CreateAsset(a, k) ==
    /\ asset[a] = Null
    /\ k.cost > 0 /\ k.salvage \in 0..k.cost /\ k.life > 0
    /\ asset' = [asset EXCEPT ![a] =
          [cost |-> k.cost, salvage |-> k.salvage, life |-> k.life, declining |-> k.declining,
           from |-> k.from, proceeds |-> Null, gain |-> 0]]
    /\ UNCHANGED <<charged, charges, booked, errand>>

Busy(q) == errand[q] # Null
On(q, op) == Busy(q) /\ errand[q].op = op

Set(q, e) ==
    /\ ~ Busy(q)
    /\ errand' = [errand EXCEPT ![q] = e]
    /\ UNCHANGED <<asset, charged, charges, booked>>

Finished(q) == errand' = [errand EXCEPT ![q] = Null]

(* What each active asset that has no row for the month is to be charged.   *)
StartRun(q, m) ==
    LET due(a) == MonthlyAmount(asset[a], Accumulated(a), m)
        A == {a \in Asset : /\ Active(a) /\ due(a) > 0
                            /\ \A r \in charged : ~ (r.asset = a /\ r.month = m)}
    IN
    /\ A # {}
    /\ Set(q, [op |-> "run", month |-> m, amounts |-> [a \in A |-> due(a)]])

(* Wrong on purpose: no constraint keeps an asset to one row a month.       *)
UniqueNot(A, m) == TRUE

Unique(A, m) == \A r \in charged : ~ (r.asset \in A /\ r.month = m)

EndRun(q, c) ==
    LET amounts == errand[q].amounts  m == errand[q].month IN
    /\ On(q, "run") /\ c \notin charges
    /\ Unique(DOMAIN amounts, m)
    /\ charged' = charged \cup
          {[asset |-> a, month |-> m, amount |-> amounts[a], charge |-> c] : a \in DOMAIN amounts}
    /\ charges' = charges \cup {c}
    /\ booked' = [a \in Asset |-> booked[a] + IF a \in DOMAIN amounts THEN amounts[a] ELSE 0]
    /\ Finished(q)
    /\ UNCHANGED asset

(* The constraint undoes the whole run.                                     *)
FailRun(q) ==
    /\ On(q, "run") /\ ~ Unique(DOMAIN errand[q].amounts, errand[q].month)
    /\ Finished(q)
    /\ UNCHANGED <<asset, charged, charges, booked>>

(* Every entry the rows of the month name is reversed.                      *)
StartReverse(q, m) ==
    LET R == {r \in charged : r.month = m} IN
    /\ R # {}
    /\ Set(q, [op |-> "reverse", rows |-> R])

(* Wrong on purpose: only what active assets were charged is given back.    *)
GivenBackOfActive(rows, a) ==
    IF Active(a) THEN ChargedTo(rows, a) ELSE 0

GivenBackTo(rows, a) == ChargedTo(rows, a)

(* Rows that are gone are not missed.                                       *)
EndReverse(q) ==
    /\ On(q, "reverse")
    /\ charged' = charged \ errand[q].rows
    /\ booked' = [a \in Asset |-> booked[a] - GivenBackTo(errand[q].rows, a)]
    /\ Finished(q)
    /\ UNCHANGED <<asset, charges>>

StartDispose(q, a) ==
    /\ Active(a)
    /\ Set(q, [op |-> "dispose", asset |-> a, accumulated |-> Accumulated(a)])

(* What was charged is taken off, and the row notes the gain over the rest. *)
EndDispose(q, n) ==
    LET a == errand[q].asset  acc == errand[q].accumulated IN
    /\ On(q, "dispose")
    /\ asset' = [asset EXCEPT ![a].proceeds = n, ![a].gain = n - (asset[a].cost - acc)]
    /\ booked' = [booked EXCEPT ![a] = @ - acc]
    /\ Finished(q)
    /\ UNCHANGED <<charged, charges>>

-----------------------------------------------------------------------------
AssetsInit ==
    /\ asset = [a \in Asset |-> Null]
    /\ charged = {} /\ charges = {}
    /\ booked = [a \in Asset |-> 0]
    /\ errand = [q \in Accountant |-> Null]

AssetsNext ==
    \/ \E a \in Asset, k \in AssetKind : CreateAsset(a, k)
    \/ \E q \in Accountant :
          \/ \E m \in DepMonth : StartRun(q, m) \/ StartReverse(q, m)
          \/ \E a \in Asset : StartDispose(q, a)
          \/ \E c \in Charge : EndRun(q, c)
          \/ \E n \in Proceeds : EndDispose(q, n)
          \/ FailRun(q) \/ EndReverse(q)

AssetsSpec == AssetsInit /\ [][AssetsNext]_assetVars

-----------------------------------------------------------------------------
(* What a request has read: what it will charge, take back or take off.     *)
IsErrand(e) ==
    \/ /\ e.op = "run" /\ e.month \in DepMonth
       /\ DOMAIN e.amounts \subseteq {a \in Asset : asset[a] # Null}
       /\ e.amounts \in [DOMAIN e.amounts -> Nat \ {0}]
    \/ e.op = "reverse" /\ e.rows \subseteq ChargeRow /\ IsFiniteSet(e.rows)
    \/ /\ e.op = "dispose" /\ e.asset \in {a \in Asset : asset[a] # Null}
       /\ e.accumulated \in Nat

AssetsTypeOK ==
    /\ asset \in [Asset -> AssetRow \cup {Null}]
    /\ charged \subseteq ChargeRow /\ IsFiniteSet(charged)
    /\ \A r \in charged : asset[r.asset] # Null /\ r.charge \in charges
    /\ charges \subseteq Charge
    /\ errand = [q \in Accountant |-> errand[q]]
    /\ \A q \in Accountant : errand[q] # Null => IsErrand(errand[q])
    /\ booked \in [Asset -> Int]

(* No asset is charged twice for a month, whoever runs it.                  *)
OncePerMonth ==
    \A r, s \in charged : r.asset = s.asset /\ r.month = s.month => r = s

(* The account holds what was charged, less what a disposal took off: the   *)
(* row of a disposed asset says how much that was.                          *)
BookedAsCharged ==
    \A a \in Asset : asset[a] # Null =>
        booked[a] = Accumulated(a)
            - IF Active(a) THEN 0 ELSE asset[a].cost - asset[a].proceeds + asset[a].gain

(* An asset keeps at least the value it will be salvaged for.               *)
SalvageIsKept ==
    \A a \in Asset : asset[a] # Null => Accumulated(a) =< asset[a].cost - asset[a].salvage
=============================================================================
