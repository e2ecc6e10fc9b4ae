--------------------------- MODULE HoldingsProofs ---------------------------
(***************************************************************************)
(* Theorems about FixedAssets, Purchases, StorePapers and Reconcile in the *)
(* worlds of MCHoldings, for any number of assets, months, documents,      *)
(* goods, stores, lots, ledger lines, entries and requests.                *)
(***************************************************************************)
EXTENDS MCHoldings, FiniteTheorems

-----------------------------------------------------------------------------
(* Fixed assets. *)

LEMMA AssetRowParts ==
  ASSUME NEW x \in AssetRow
  PROVE  /\ x.cost \in Nat /\ x.salvage \in Nat /\ x.life \in Nat \ {0} /\ x.declining \in BOOLEAN
         /\ x.from \in Nat /\ x.proceeds \in Proceeds \cup {Null} /\ x.gain \in Int
         /\ x # Null
BY AssetNull DEF AssetRow

LEMMA ChargeRowParts ==
  ASSUME NEW r \in ChargeRow
  PROVE  /\ r.asset \in Asset /\ r.month \in DepMonth /\ r.amount \in Nat \ {0}
         /\ r.charge \in Charge
BY DEF ChargeRow

Disposed(x, n, acc) == [x EXCEPT !.proceeds = n, !.gain = n - (x.cost - acc)]

LEMMA DisposedParts ==
  ASSUME NEW x \in AssetRow, NEW n \in Proceeds, NEW acc \in Nat
  PROVE  /\ Disposed(x, n, acc) \in AssetRow
         /\ Disposed(x, n, acc).cost = x.cost /\ Disposed(x, n, acc).salvage = x.salvage
         /\ Disposed(x, n, acc).proceeds = n
         /\ Disposed(x, n, acc).gain = n - (x.cost - acc)
<1>1. n \in Nat /\ x.cost \in Nat
  BY AssetAssumption, AssetRowParts
<1>2. PICK gain \in Int : gain = n - (x.cost - acc)
  BY <1>1
<1>3. Disposed(x, n, acc) = [[x EXCEPT !.proceeds = n] EXCEPT !.gain = gain]
  BY <1>2 DEF Disposed, AssetRow
<1>4. PICK y : y = [x EXCEPT !.proceeds = n]
  OBVIOUS
<1>5. /\ y \in AssetRow /\ y.cost = x.cost /\ y.salvage = x.salvage /\ y.proceeds = n
  BY <1>4 DEF AssetRow
<1>6. PICK z : z = [y EXCEPT !.gain = gain]
  OBVIOUS
<1>7. /\ z \in AssetRow /\ z.cost = y.cost /\ z.salvage = y.salvage /\ z.proceeds = y.proceeds
      /\ z.gain = gain
  BY <1>5, <1>6 DEF AssetRow
<1> QED
  BY <1>2, <1>3, <1>4, <1>5, <1>6, <1>7

(* What rows charge to an asset.                                            *)
LEMMA ChargedParts ==
  ASSUME NEW recs, recs \subseteq ChargeRow, IsFiniteSet(recs), NEW a
  PROVE  /\ ChargedTo(recs, a) \in Nat
         /\ (\A r \in recs : r.asset # a) => ChargedTo(recs, a) = 0
<1> DEFINE f == [r \in recs |-> r.amount]
           S == {r \in recs : r.asset = a}
<1>1. IsFiniteSet(S) /\ \A x \in S : f[x] \in Nat
  BY FS_Subset, ChargeRowParts
<1>2. SumFunctionOnSet(f, S) \in Nat
  BY <1>1, SumBounds
<1>3. S = {} => SumFunctionOnSet(f, S) = 0
  BY SumEmpty
<1> QED
  BY <1>2, <1>3 DEF ChargedTo

LEMMA ChargedSame ==
  ASSUME NEW recs, recs \subseteq ChargeRow, IsFiniteSet(recs), NEW more, recs \subseteq more,
         IsFiniteSet(more), NEW a, \A r \in more \ recs : r.asset # a
  PROVE  ChargedTo(more, a) = ChargedTo(recs, a)
<1> DEFINE f == [r \in recs |-> r.amount]
           g == [r \in more |-> r.amount]
           S == {r \in recs : r.asset = a}
<1>1. S = {r \in more : r.asset = a} /\ IsFiniteSet(S)
  BY FS_Subset
<1>2. \A x \in S : g[x] = f[x]
  OBVIOUS
<1>3. SumFunctionOnSet(g, S) = SumFunctionOnSet(f, S)
  BY <1>1, <1>2, SumSame
<1> QED
  BY <1>1, <1>3 DEF ChargedTo

(* One more row of an asset adds its amount.                                *)
LEMMA ChargedMore ==
  ASSUME NEW recs, recs \subseteq ChargeRow, IsFiniteSet(recs), NEW more, more \subseteq ChargeRow,
         IsFiniteSet(more), recs \subseteq more, NEW a, NEW r \in more \ recs, r.asset = a,
         \A s \in more \ recs : s.asset = a => s = r
  PROVE  ChargedTo(more, a) = ChargedTo(recs, a) + r.amount
<1> DEFINE f == [s \in recs |-> s.amount]
           g == [s \in more |-> s.amount]
           S == {s \in recs : s.asset = a}
<1>1. S \cup {r} = {s \in more : s.asset = a} /\ IsFiniteSet(S) /\ r \notin S
  BY FS_Subset
<1>2. /\ \A x \in S : f[x] \in Int /\ g[x] = f[x]
      /\ g[r] = r.amount /\ r.amount \in Int
  BY ChargeRowParts
<1>3. SumFunctionOnSet(g, S \cup {r}) = SumFunctionOnSet(f, S) + g[r]
  <2> HIDE DEF f, g, S
  <2> QED
    BY <1>1, <1>2, SumAdd
<1> QED
  BY <1>1, <1>2, <1>3 DEF ChargedTo

(* What is taken back is no longer charged.                                 *)
LEMMA ChargedBack ==
  ASSUME NEW recs, recs \subseteq ChargeRow, IsFiniteSet(recs), NEW R \in SUBSET recs, NEW a
  PROVE  ChargedTo(recs \ R, a) = ChargedTo(recs, a) - ChargedTo(R, a)
<1> DEFINE f == [r \in recs |-> r.amount]
           S == {r \in recs : r.asset = a}
           T == {r \in R : r.asset = a}
           U == {r \in recs \ R : r.asset = a}
<1>1. IsFiniteSet(S) /\ IsFiniteSet(T) /\ IsFiniteSet(U) /\ T \in SUBSET S /\ S \ T = U
  BY FS_Subset
<1>2. \A x \in S : f[x] \in Int
  BY ChargeRowParts
<1>3. /\ SumFunctionOnSet(f, S) = SumFunctionOnSet(f, T) + SumFunctionOnSet(f, U)
      /\ SumFunctionOnSet(f, T) \in Int /\ SumFunctionOnSet(f, U) \in Int
  <2> HIDE DEF f, S, T, U
  <2>1. /\ SumFunctionOnSet(f, S) = SumFunctionOnSet(f, T) + SumFunctionOnSet(f, S \ T)
        /\ SumFunctionOnSet(f, T) \in Int /\ SumFunctionOnSet(f, S \ T) \in Int
    BY ONLY <1>1, <1>2, SumSplit
  <2> QED
    BY ONLY <2>1, <1>1
<1>4. SumFunctionOnSet([r \in R |-> r.amount], T) = SumFunctionOnSet(f, T)
  BY <1>1, SumSame
<1>5. SumFunctionOnSet([r \in recs \ R |-> r.amount], U) = SumFunctionOnSet(f, U)
  BY <1>1, SumSame
<1> QED
  BY <1>3, <1>4, <1>5 DEF ChargedTo
(* A month takes no more than is left of an asset above its salvage value.  *)
LEMMA MonthlyFits ==
  ASSUME NEW x \in AssetRow, NEW acc \in Nat, NEW m, MonthlyAmount(x, acc, m) > 0
  PROVE  /\ MonthlyAmount(x, acc, m) \in Nat \ {0}
         /\ MonthlyAmount(x, acc, m) =< x.cost - x.salvage - acc
<1>1. /\ x.cost \in Nat /\ x.salvage \in Nat /\ x.life \in Nat \ {0}
      /\ x.declining \in BOOLEAN
  BY AssetRowParts
<1>2. ASSUME NEW n \in Int, NEW d \in Nat \ {0} PROVE HalfUp(n, d) \in Int
  <2>1. 2 * n + d \in Int /\ 2 * d \in Nat \ {0}
    OBVIOUS
  <2>2. \A u \in Int, v \in Nat \ {0} : u \div v \in Int
    OBVIOUS
  <2> QED
    BY <2>1, <2>2 DEF HalfUp
<1>3. 2 * (x.cost - acc) \in Int /\ x.cost - x.salvage \in Int
  BY <1>1
<1>4. Raw(x, acc) \in Int
  BY <1>1, <1>2, <1>3 DEF Raw
<1>5. PICK raw \in Int : raw = Raw(x, acc)
  BY <1>4
<1>6. PICK left \in Int : left = x.cost - x.salvage - acc
  BY <1>1
<1>7. PICK due : due = MonthlyAmount(x, acc, m)
  OBVIOUS
<1>8. due = 0 \/ (~ left =< 0 /\ due = IF raw > left THEN left ELSE raw)
  BY <1>5, <1>6, <1>7 DEF MonthlyAmount
<1>9. (due \in Int /\ due =< left) \/ due = 0
  BY <1>8
<1> QED
  BY <1>6, <1>7, <1>9

LEMMA RunStarts ==
  ASSUME AssetsTypeOK, NEW q \in Accountant, NEW m \in DepMonth, StartRun(q, m)
  PROVE  \E amounts :
            /\ errand' = [errand EXCEPT ![q] = [op |-> "run", month |-> m, amounts |-> amounts]]
            /\ DOMAIN amounts \subseteq {a \in Asset : asset[a] # Null}
            /\ amounts \in [DOMAIN amounts -> Nat \ {0}]
            /\ \A a \in DOMAIN amounts :
                  amounts[a] =< asset[a].cost - asset[a].salvage - Accumulated(a)
<1> DEFINE due(a) == MonthlyAmount(asset[a], Accumulated(a), m)
           A == {a \in Asset : /\ Active(a) /\ due(a) > 0
                               /\ \A r \in charged : ~ (r.asset = a /\ r.month = m)}
<1>1. errand' = [errand EXCEPT ![q] = [op |-> "run", month |-> m, amounts |-> [a \in A |-> due(a)]]]
  BY DEF StartRun, Set
<1>2. ASSUME NEW a \in A
      PROVE  /\ asset[a] # Null /\ due(a) \in Nat \ {0}
             /\ due(a) =< asset[a].cost - asset[a].salvage - Accumulated(a)
  <2>1. asset[a] # Null /\ asset[a] \in AssetRow /\ due(a) > 0
    BY <1>2 DEF Active, AssetsTypeOK
  <2>2. Accumulated(a) \in Nat
    BY ChargedParts DEF AssetsTypeOK, Accumulated
  <2> QED
    BY <2>1, <2>2, MonthlyFits
<1>3. PICK amounts : amounts = [a \in A |-> due(a)]
  OBVIOUS
<1>4. DOMAIN amounts = A /\ A \subseteq Asset /\ \A a \in A : amounts[a] = due(a)
  BY <1>3
<1> HIDE DEF A, due
<1>5. amounts = [a \in DOMAIN amounts |-> amounts[a]]
  BY <1>3, <1>4
<1> QED
  BY <1>1, <1>2, <1>3, <1>4, <1>5

(* The rows a run adds: one of each asset, for a month that had none.       *)
RunRows(amounts, m, c) ==
    {[asset |-> a, month |-> m, amount |-> amounts[a], charge |-> c] : a \in DOMAIN amounts}

LEMMA RunRowsParts ==
  ASSUME NEW amounts, DOMAIN amounts \subseteq Asset, amounts \in [DOMAIN amounts -> Nat \ {0}],
         NEW m \in DepMonth, NEW c \in Charge
  PROVE  /\ RunRows(amounts, m, c) \subseteq ChargeRow /\ IsFiniteSet(RunRows(amounts, m, c))
         /\ \A r \in RunRows(amounts, m, c) :
               /\ r.asset \in DOMAIN amounts /\ r.month = m /\ r.charge = c
               /\ r.amount = amounts[r.asset]
         /\ \A r, s \in RunRows(amounts, m, c) : r.asset = s.asset => r = s
         /\ \A a \in DOMAIN amounts : \E r \in RunRows(amounts, m, c) : r.asset = a
<1>1. IsFiniteSet(DOMAIN amounts)
  BY FS_Subset, AssetAssumption
<1> DEFINE F == [a \in DOMAIN amounts |-> [asset |-> a, month |-> m, amount |-> amounts[a], charge |-> c]]
<1>2. RunRows(amounts, m, c) = {F[a] : a \in DOMAIN amounts}
  BY DEF RunRows
<1>3. IsFiniteSet(RunRows(amounts, m, c))
  <2>1. F \in Surjection(DOMAIN amounts, RunRows(amounts, m, c))
    BY <1>2 DEF Surjection
  <2> QED
    BY <1>1, <2>1, FS_Surjection
<1>4. RunRows(amounts, m, c) \subseteq ChargeRow
  BY DEF RunRows, ChargeRow
<1>5. ASSUME NEW r \in RunRows(amounts, m, c)
      PROVE  /\ r = [asset |-> r.asset, month |-> m, amount |-> amounts[r.asset], charge |-> c]
             /\ r.asset \in DOMAIN amounts
  <2>1. PICK a \in DOMAIN amounts :
           r = [asset |-> a, month |-> m, amount |-> amounts[a], charge |-> c]
    BY DEF RunRows
  <2>2. r.asset = a
    BY <2>1
  <2> QED
    BY <2>1, <2>2
<1>6. ASSUME NEW r \in RunRows(amounts, m, c)
      PROVE  r.month = m /\ r.charge = c /\ r.amount = amounts[r.asset]
  BY <1>5
<1>7. ASSUME NEW a \in DOMAIN amounts PROVE \E r \in RunRows(amounts, m, c) : r.asset = a
  <2>1. PICK r : r = [asset |-> a, month |-> m, amount |-> amounts[a], charge |-> c]
    OBVIOUS
  <2>2. r \in RunRows(amounts, m, c) /\ r.asset = a
    BY <2>1 DEF RunRows
  <2> QED
    BY <2>2
<1>8. ASSUME NEW r \in RunRows(amounts, m, c), NEW s \in RunRows(amounts, m, c), r.asset = s.asset
      PROVE  r = s
  <2>1. PICK a : a = r.asset
    OBVIOUS
  <2>2. /\ r = [asset |-> a, month |-> m, amount |-> amounts[a], charge |-> c]
        /\ s = [asset |-> a, month |-> m, amount |-> amounts[a], charge |-> c]
    BY <1>5, <1>8, <2>1
  <2> QED
    BY <2>2
<1> QED
  BY <1>3, <1>4, <1>5, <1>6, <1>7, <1>8
(* What a request has read stays well formed while rows stay.               *)
LEMMA ErrandStays ==
  ASSUME NEW e, IsErrand(e), \A a \in Asset : asset[a] # Null => asset'[a] # Null
  PROVE  IsErrand(e)'
BY DEF IsErrand

AssetInv == AssetsTypeOK /\ OncePerMonth

LEMMA ErrandsAfter ==
  ASSUME AssetsTypeOK, NEW q \in Accountant, NEW e, errand' = [errand EXCEPT ![q] = e],
         \A a \in Asset : asset[a] # Null => asset'[a] # Null,
         e # Null => IsErrand(e)
  PROVE  /\ errand' = [p \in Accountant |-> errand'[p]]
         /\ \A p \in Accountant : errand'[p] # Null => IsErrand(errand[p])'
<1>1. errand = [p \in Accountant |-> errand[p]]
  BY DEF AssetsTypeOK
<1>2. errand' = [p \in Accountant |-> errand'[p]]
  BY <1>1
<1>3. ASSUME NEW p \in Accountant, NEW g, g = errand'[p], g # Null PROVE IsErrand(errand[p])'
  <2>1. g = IF p = q THEN e ELSE errand[p]
    BY <1>1, <1>3
  <2>2. IsErrand(g)
    BY <1>3, <2>1 DEF AssetsTypeOK
  <2>3. IsErrand(g)'
    BY <2>2, ErrandStays
  <2> QED
    BY <1>3, <2>3 DEF IsErrand
<1> QED
  BY <1>2, <1>3

LEMMA CreateAssetTyped ==
  ASSUME AssetInv, NEW a \in Asset, NEW k \in AssetKind, CreateAsset(a, k)
  PROVE  AssetInv'
<1>1. PICK x : x = [cost |-> k.cost, salvage |-> k.salvage, life |-> k.life,
                    declining |-> k.declining, from |-> k.from, proceeds |-> Null, gain |-> 0]
  OBVIOUS
<1>2. x \in AssetRow
  <2>1. /\ k.cost \in Nat /\ k.salvage \in Nat /\ k.life \in Nat \ {0}
        /\ k.declining \in BOOLEAN /\ k.from \in Nat
    BY AssetAssumption DEF CreateAsset
  <2> QED
    BY <1>1, <2>1 DEF AssetRow
<1>3. asset' = [asset EXCEPT ![a] = x] /\ UNCHANGED <<charged, charges, booked, errand>>
  BY <1>1 DEF CreateAsset
<1>4. x # Null /\ asset \in [Asset -> AssetRow \cup {Null}]
  BY <1>2, AssetRowParts DEF AssetInv, AssetsTypeOK
<1>5. asset' \in [Asset -> AssetRow \cup {Null}] /\ \A b \in Asset : asset[b] # Null => asset'[b] # Null
  BY <1>2, <1>3, <1>4
<1>6. ASSUME NEW p \in Accountant, errand[p] # Null PROVE IsErrand(errand[p])'
  <2>1. IsErrand(errand[p])
    BY <1>6 DEF AssetInv, AssetsTypeOK
  <2>2. PICK g : g = errand[p]
    OBVIOUS
  <2>3. IsErrand(g)'
    BY <1>5, <2>1, <2>2, ErrandStays
  <2> QED
    BY <1>3, <2>2, <2>3
<1>7. \A r \in charged : asset'[r.asset] # Null
  BY <1>5, ChargeRowParts DEF AssetInv, AssetsTypeOK
<1> QED
  BY <1>3, <1>5, <1>6, <1>7 DEF AssetInv, AssetsTypeOK, OncePerMonth

(* A request begins: nothing but what it has read changes.                  *)
LEMMA ErrandSetTyped ==
  ASSUME AssetInv, NEW q \in Accountant, NEW e, errand' = [errand EXCEPT ![q] = e],
         e # Null => IsErrand(e), UNCHANGED <<asset, charged, charges, booked>>
  PROVE  AssetInv'
<1>1. /\ errand' = [p \in Accountant |-> errand'[p]]
      /\ \A p \in Accountant : errand'[p] # Null => IsErrand(errand[p])'
  BY ErrandsAfter DEF AssetInv
<1> QED
  BY <1>1 DEF AssetInv, AssetsTypeOK, OncePerMonth

LEMMA EndRunTyped ==
  ASSUME AssetInv, NEW q \in Accountant, NEW c \in Charge, EndRun(q, c)
  PROVE  AssetInv'
<1>1. PICK e : e = errand[q]
  OBVIOUS
<1>2. e # Null /\ e.op = "run" /\ IsErrand(e)
  BY <1>1 DEF EndRun, On, Busy, AssetInv, AssetsTypeOK
<1>3. PICK amounts, m : amounts = e.amounts /\ m = e.month
  OBVIOUS
<1>4. /\ m \in DepMonth /\ DOMAIN amounts \subseteq {a \in Asset : asset[a] # Null}
      /\ amounts \in [DOMAIN amounts -> Nat \ {0}]
  BY <1>2, <1>3 DEF IsErrand
<1>5. PICK new : new = RunRows(amounts, m, c)
  OBVIOUS
<1>6. /\ charged' = charged \cup new /\ charges' = charges \cup {c}
      /\ booked' = [a \in Asset |-> booked[a] + IF a \in DOMAIN amounts THEN amounts[a] ELSE 0]
      /\ errand' = [errand EXCEPT ![q] = Null] /\ asset' = asset
      /\ \A r \in charged : ~ (r.asset \in DOMAIN amounts /\ r.month = m)
  BY <1>1, <1>3, <1>5 DEF EndRun, Finished, RunRows, Unique
<1>7. /\ new \subseteq ChargeRow /\ IsFiniteSet(new)
      /\ \A r \in new : r.asset \in DOMAIN amounts /\ r.month = m /\ r.charge = c
      /\ \A r, s \in new : r.asset = s.asset => r = s
  BY <1>4, <1>5, RunRowsParts
<1>8. /\ errand' = [p \in Accountant |-> errand'[p]]
      /\ \A p \in Accountant : errand'[p] # Null => IsErrand(errand[p])'
  BY <1>6, ErrandsAfter DEF AssetInv
<1>9. charged' \subseteq ChargeRow /\ IsFiniteSet(charged')
  BY <1>6, <1>7, FS_Union DEF AssetInv, AssetsTypeOK
<1>10. \A r \in charged' : asset'[r.asset] # Null /\ r.charge \in charges'
  BY <1>4, <1>6, <1>7 DEF AssetInv, AssetsTypeOK
<1>11. OncePerMonth'
  BY <1>6, <1>7 DEF AssetInv, OncePerMonth
<1>12. booked' \in [Asset -> Int]
  BY <1>4, <1>6 DEF AssetInv, AssetsTypeOK
<1>13. /\ asset' \in [Asset -> AssetRow \cup {Null}] /\ charges' \subseteq Charge
  BY <1>6 DEF AssetInv, AssetsTypeOK
<1> QED
  BY <1>8, <1>9, <1>10, <1>11, <1>12, <1>13 DEF AssetInv, AssetsTypeOK
LEMMA EndReverseTyped ==
  ASSUME AssetInv, NEW q \in Accountant, EndReverse(q)
  PROVE  AssetInv'
<1>1. PICK recs : recs = errand[q].rows
  OBVIOUS
<1>2. recs \subseteq ChargeRow /\ IsFiniteSet(recs)
  BY <1>1 DEF EndReverse, On, Busy, AssetInv, AssetsTypeOK, IsErrand
<1>3. /\ charged' = charged \ recs /\ UNCHANGED <<asset, charges>>
      /\ booked' = [a \in Asset |-> booked[a] - GivenBackTo(recs, a)]
      /\ errand' = [errand EXCEPT ![q] = Null]
  BY <1>1 DEF EndReverse, Finished
<1>4. \A a \in Asset : GivenBackTo(recs, a) \in Nat
  BY <1>2, ChargedParts DEF GivenBackTo
<1>5. booked' \in [Asset -> Int]
  BY <1>3, <1>4 DEF AssetInv, AssetsTypeOK
<1>6. /\ errand' = [p \in Accountant |-> errand'[p]]
      /\ \A p \in Accountant : errand'[p] # Null => IsErrand(errand[p])'
  BY <1>3, ErrandsAfter DEF AssetInv
<1>7. charged' \subseteq ChargeRow /\ IsFiniteSet(charged')
  BY <1>3, FS_Subset DEF AssetInv, AssetsTypeOK
<1> QED
  BY <1>3, <1>5, <1>6, <1>7 DEF AssetInv, AssetsTypeOK, OncePerMonth

LEMMA EndDisposeParts ==
  ASSUME AssetsTypeOK, NEW q \in Accountant, NEW n \in Proceeds, EndDispose(q, n)
  PROVE  \E a \in Asset, acc \in Nat :
            /\ errand[q].asset = a /\ errand[q].accumulated = acc
            /\ errand[q] # Null /\ errand[q].op = "dispose" /\ asset[a] \in AssetRow
            /\ asset' = [asset EXCEPT ![a] = Disposed(asset[a], n, acc)]
            /\ booked' = [booked EXCEPT ![a] = booked[a] - acc]
            /\ errand' = [errand EXCEPT ![q] = Null] /\ UNCHANGED <<charged, charges>>
<1>1. PICK a, acc : a = errand[q].asset /\ acc = errand[q].accumulated
  OBVIOUS
<1>2. a \in Asset /\ asset[a] # Null /\ acc \in Nat /\ errand[q] # Null /\ errand[q].op = "dispose"
  BY <1>1 DEF EndDispose, On, Busy, AssetsTypeOK, IsErrand
<1>3. asset[a] \in AssetRow /\ asset \in [Asset -> AssetRow \cup {Null}]
  BY <1>2 DEF AssetsTypeOK
<1>4. PICK gain : gain = n - (asset[a].cost - acc)
  OBVIOUS
<1>5. asset' = [asset EXCEPT ![a].proceeds = n, ![a].gain = gain]
  BY <1>1, <1>4 DEF EndDispose
<1>6. PICK x : x = asset[a]
  OBVIOUS
<1>7. Disposed(x, n, acc) = [x EXCEPT !.proceeds = n, !.gain = gain]
  BY <1>4, <1>6 DEF Disposed
<1>8. PICK half : half = [asset EXCEPT ![a].proceeds = n]
  OBVIOUS
<1>9. half[a] = [x EXCEPT !.proceeds = n] /\ DOMAIN half = Asset
  BY <1>2, <1>3, <1>6, <1>8
<1>10. asset' = [half EXCEPT ![a].gain = gain]
  BY <1>5, <1>8
<1>11. asset' = [half EXCEPT ![a] = [[x EXCEPT !.proceeds = n] EXCEPT !.gain = gain]]
  BY <1>9, <1>10
<1>12. asset' = [asset EXCEPT ![a] = Disposed(x, n, acc)]
  BY <1>2, <1>3, <1>7, <1>8, <1>11
<1> QED
  BY <1>1, <1>2, <1>3, <1>6, <1>12 DEF EndDispose, Finished

LEMMA EndDisposeTyped ==
  ASSUME AssetInv, NEW q \in Accountant, NEW n \in Proceeds, EndDispose(q, n)
  PROVE  AssetInv'
<1>0. AssetsTypeOK
  BY DEF AssetInv
<1>1. PICK a \in Asset, acc \in Nat :
            /\ asset[a] \in AssetRow
            /\ asset' = [asset EXCEPT ![a] = Disposed(asset[a], n, acc)]
            /\ booked' = [booked EXCEPT ![a] = booked[a] - acc]
            /\ errand' = [errand EXCEPT ![q] = Null] /\ UNCHANGED <<charged, charges>>
  BY <1>0, EndDisposeParts
<1>2. PICK x : x = Disposed(asset[a], n, acc)
  OBVIOUS
<1>3. x \in AssetRow /\ x # Null
  BY <1>1, <1>2, DisposedParts, AssetRowParts
<1>4. asset' \in [Asset -> AssetRow \cup {Null}] /\ \A b \in Asset : asset[b] # Null => asset'[b] # Null
  BY <1>0, <1>1, <1>2, <1>3 DEF AssetsTypeOK
<1>5. /\ errand' = [p \in Accountant |-> errand'[p]]
      /\ \A p \in Accountant : errand'[p] # Null => IsErrand(errand[p])'
  BY <1>0, <1>1, <1>4, ErrandsAfter
<1>6. booked' \in [Asset -> Int]
  BY <1>0, <1>1 DEF AssetsTypeOK
<1>7. \A r \in charged : asset'[r.asset] # Null
  BY <1>0, <1>4, ChargeRowParts DEF AssetsTypeOK
<1> QED
  BY <1>1, <1>4, <1>5, <1>6, <1>7 DEF AssetInv, AssetsTypeOK, OncePerMonth

LEMMA AssetInvStep ==
  ASSUME AssetInv, [AssetsNext]_assetVars
  PROVE  AssetInv'
<1>1. CASE UNCHANGED assetVars
  BY <1>1 DEF assetVars, AssetInv, AssetsTypeOK, OncePerMonth, IsErrand
<1>2. ASSUME NEW q \in Accountant, NEW m \in DepMonth, StartRun(q, m) PROVE AssetInv'
  <2>1. PICK amounts :
            /\ errand' = [errand EXCEPT ![q] = [op |-> "run", month |-> m, amounts |-> amounts]]
            /\ DOMAIN amounts \subseteq {a \in Asset : asset[a] # Null}
            /\ amounts \in [DOMAIN amounts -> Nat \ {0}]
    BY <1>2, RunStarts DEF AssetInv
  <2>2. IsErrand([op |-> "run", month |-> m, amounts |-> amounts])
    BY <2>1 DEF IsErrand
  <2> QED
    BY <1>2, <2>1, <2>2, ErrandSetTyped DEF StartRun, Set
<1>3. ASSUME NEW q \in Accountant, NEW m \in DepMonth, StartReverse(q, m) PROVE AssetInv'
  <2>1. PICK R : R = {r \in charged : r.month = m}
    OBVIOUS
  <2>2. errand' = [errand EXCEPT ![q] = [op |-> "reverse", rows |-> R]]
    BY <1>3, <2>1 DEF StartReverse, Set
  <2>3. R \subseteq ChargeRow /\ IsFiniteSet(R)
    BY <2>1, FS_Subset DEF AssetInv, AssetsTypeOK
  <2>4. IsErrand([op |-> "reverse", rows |-> R])
    BY <2>3 DEF IsErrand
  <2> QED
    BY <1>3, <2>2, <2>4, ErrandSetTyped DEF StartReverse, Set
<1>4. ASSUME NEW q \in Accountant, NEW a \in Asset, StartDispose(q, a) PROVE AssetInv'
  <2>1. PICK acc : acc = Accumulated(a)
    OBVIOUS
  <2>2. acc \in Nat
    BY <2>1, ChargedParts DEF AssetInv, AssetsTypeOK, Accumulated
  <2>3. errand' = [errand EXCEPT ![q] = [op |-> "dispose", asset |-> a, accumulated |-> acc]]
    BY <1>4, <2>1 DEF StartDispose, Set
  <2>4. IsErrand([op |-> "dispose", asset |-> a, accumulated |-> acc])
    BY <1>4, <2>2 DEF StartDispose, Active, IsErrand
  <2> QED
    BY <1>4, <2>3, <2>4, ErrandSetTyped DEF StartDispose, Set
<1>5. ASSUME NEW q \in Accountant, FailRun(q) PROVE AssetInv'
  BY <1>5, ErrandSetTyped DEF FailRun, Finished
<1> QED
  BY <1>1, <1>2, <1>3, <1>4, <1>5, CreateAssetTyped, EndRunTyped, EndReverseTyped, EndDisposeTyped
  DEF AssetsNext
-----------------------------------------------------------------------------
(* Where no request comes between what another reads and what it writes.    *)

(* What a request has read is still so.                                     *)
StillSo(e) ==
    /\ e.op = "run" => \A a \in DOMAIN e.amounts :
          e.amounts[a] =< asset[a].cost - asset[a].salvage - Accumulated(a)
    /\ e.op = "reverse" => e.rows \subseteq charged
    /\ e.op = "dispose" => Active(e.asset) /\ e.accumulated = Accumulated(e.asset)

(* An asset that was never bought has nothing on the account.               *)
UnbornUnbooked == \A a \in Asset : asset[a] = Null => booked[a] = 0

AssetsAlone ==
    /\ UnbornUnbooked /\ BookedAsCharged /\ SalvageIsKept
    /\ \A q \in Accountant : errand[q] # Null => StillSo(errand[q])

(* A step that finds a request under way ends it.                           *)
EndsErrands ==
    (\E q \in Accountant : errand[q] # Null) => \A q \in Accountant : errand'[q] = Null

LEMMA AccumulatedParts ==
  ASSUME AssetsTypeOK, NEW a \in Asset
  PROVE  Accumulated(a) \in Nat /\ (asset[a] = Null => Accumulated(a) = 0)
<1>1. asset[a] = Null => \A r \in charged : r.asset # a
  BY DEF AssetsTypeOK
<1> QED
  BY <1>1, ChargedParts DEF AssetsTypeOK, Accumulated

(* A request begins.                                                        *)
LEMMA BeginsAlone ==
  ASSUME AssetsTypeOK, AssetsAlone, NEW q \in Accountant, NEW e, errand' = [errand EXCEPT ![q] = e],
         StillSo(e), UNCHANGED <<asset, charged, charges, booked>>
  PROVE  AssetsAlone'
<1>1. /\ \A a : Accumulated(a)' = Accumulated(a)
      /\ \A a : Active(a)' = Active(a)
  BY DEF Accumulated, Active
<1>2. UnbornUnbooked' /\ BookedAsCharged' /\ SalvageIsKept'
  BY <1>1 DEF AssetsAlone, UnbornUnbooked, BookedAsCharged, SalvageIsKept
<1>3. ASSUME NEW p \in Accountant, NEW g, g = errand'[p], g # Null PROVE StillSo(errand[p])'
  <2>1. StillSo(g)
    BY <1>3 DEF AssetsTypeOK, AssetsAlone
  <2> QED
    BY <1>1, <1>3, <2>1 DEF StillSo
<1> QED
  BY <1>2, <1>3 DEF AssetsAlone

LEMMA CreateAssetAlone ==
  ASSUME AssetsTypeOK, AssetsAlone, NEW a \in Asset, NEW k \in AssetKind, CreateAsset(a, k),
         \A p \in Accountant : errand[p] = Null
  PROVE  AssetsAlone'
<1>1. /\ \A b : Accumulated(b)' = Accumulated(b)
      /\ \A b \in Asset \ {a} : asset'[b] = asset[b]
      /\ booked' = booked /\ errand' = errand
  BY DEF CreateAsset, Accumulated, AssetsTypeOK
<1>2. PICK x : x = [cost |-> k.cost, salvage |-> k.salvage, life |-> k.life,
                    declining |-> k.declining, from |-> k.from, proceeds |-> Null, gain |-> 0]
  OBVIOUS
<1>3. asset' = [asset EXCEPT ![a] = x] /\ asset[a] = Null
  BY <1>2 DEF CreateAsset
<1>4. asset'[a] = x /\ x.cost = k.cost /\ x.salvage = k.salvage /\ x.proceeds = Null
  BY <1>2, <1>3 DEF AssetsTypeOK
<1>5. k.cost \in Nat /\ k.salvage \in Nat /\ k.salvage =< k.cost
  BY AssetAssumption DEF CreateAsset
<1>6. Accumulated(a) = 0 /\ booked[a] = 0
  BY <1>3, AccumulatedParts DEF AssetsAlone, UnbornUnbooked
<1>7. ASSUME NEW b \in Asset, asset'[b] = Null PROVE booked'[b] = 0
  BY <1>1, <1>6, <1>7 DEF AssetsAlone, UnbornUnbooked
<1>8. ASSUME NEW b \in Asset, asset'[b] # Null
      PROVE  booked'[b] = Accumulated(b)'
                - IF Active(b)' THEN 0 ELSE asset'[b].cost - asset'[b].proceeds + asset'[b].gain
  <2>1. CASE b = a
    <3>1. Active(b)'
      BY <1>4, <1>8, <2>1 DEF Active
    <3> QED
      BY <1>1, <1>6, <2>1, <3>1
  <2>2. CASE b # a
    <3>1. asset'[b] = asset[b] /\ (Active(b)' <=> Active(b))
      BY <1>1, <2>2 DEF Active
    <3> QED
      BY <1>1, <1>8, <3>1 DEF AssetsAlone, BookedAsCharged
  <2> QED
    BY <2>1, <2>2
<1>9. ASSUME NEW b \in Asset, asset'[b] # Null
      PROVE  Accumulated(b)' =< asset'[b].cost - asset'[b].salvage
  <2>1. CASE b = a
    BY <1>1, <1>4, <1>5, <1>6, <2>1
  <2>2. CASE b # a
    BY <1>1, <1>9, <2>2 DEF AssetsAlone, SalvageIsKept
  <2> QED
    BY <2>1, <2>2
<1> QED
  BY <1>1, <1>7, <1>8, <1>9 DEF AssetsAlone, UnbornUnbooked, BookedAsCharged, SalvageIsKept

LEMMA EndRunAlone ==
  ASSUME AssetsTypeOK, AssetsAlone, NEW q \in Accountant, NEW c \in Charge, EndRun(q, c)
  PROVE  UnbornUnbooked' /\ BookedAsCharged' /\ SalvageIsKept'
<1>1. PICK e : e = errand[q]
  OBVIOUS
<1>2. e # Null /\ e.op = "run" /\ IsErrand(e) /\ StillSo(e)
  BY <1>1 DEF EndRun, On, Busy, AssetsAlone, AssetsTypeOK
<1>3. PICK amounts, m : amounts = e.amounts /\ m = e.month
  OBVIOUS
<1>4. /\ m \in DepMonth /\ DOMAIN amounts \subseteq {a \in Asset : asset[a] # Null}
      /\ amounts \in [DOMAIN amounts -> Nat \ {0}]
      /\ \A a \in DOMAIN amounts :
            amounts[a] =< asset[a].cost - asset[a].salvage - Accumulated(a)
  BY <1>2, <1>3 DEF IsErrand, StillSo
<1>5. PICK new : new = RunRows(amounts, m, c)
  OBVIOUS
<1>6. /\ charged' = charged \cup new
      /\ booked' = [a \in Asset |-> booked[a] + IF a \in DOMAIN amounts THEN amounts[a] ELSE 0]
      /\ asset' = asset
      /\ \A r \in charged : ~ (r.asset \in DOMAIN amounts /\ r.month = m)
  BY <1>1, <1>3, <1>5 DEF EndRun, RunRows, Unique
<1>7. /\ new \subseteq ChargeRow /\ IsFiniteSet(new)
      /\ \A r \in new : r.asset \in DOMAIN amounts /\ r.month = m /\ r.amount = amounts[r.asset]
      /\ \A r, s \in new : r.asset = s.asset => r = s
      /\ \A a \in DOMAIN amounts : \E r \in new : r.asset = a
  BY <1>4, <1>5, RunRowsParts
<1>8. /\ charged \subseteq ChargeRow /\ IsFiniteSet(charged) /\ IsFiniteSet(charged \cup new)
      /\ charged \cup new \subseteq ChargeRow /\ charged \subseteq charged \cup new
      /\ (charged \cup new) \ charged = new
  <2>1. charged \cap new = {}
    BY <1>6, <1>7
  <2> QED
    BY <1>7, <2>1, FS_Union DEF AssetsTypeOK
<1>9. ASSUME NEW a \in Asset
      PROVE  ChargedTo(charged \cup new, a)
                = ChargedTo(charged, a) + IF a \in DOMAIN amounts THEN amounts[a] ELSE 0
  <2>1. CASE a \in DOMAIN amounts
    <3>1. PICK r \in new : r.asset = a
      BY <1>7, <2>1
    <3>2. ChargedTo(charged \cup new, a) = ChargedTo(charged, a) + r.amount
      BY <1>7, <1>8, <3>1, ChargedMore
    <3> QED
      BY <1>7, <2>1, <3>1, <3>2
  <2>2. CASE a \notin DOMAIN amounts
    <3>1. ChargedTo(charged \cup new, a) = ChargedTo(charged, a)
      BY <1>7, <1>8, <2>2, ChargedSame
    <3>2. ChargedTo(charged, a) \in Nat
      BY <1>8, ChargedParts
    <3> QED
      BY <2>2, <3>1, <3>2
  <2> QED
    BY <2>1, <2>2
<1>10. ASSUME NEW a \in Asset
       PROVE  /\ Accumulated(a)' = Accumulated(a) + IF a \in DOMAIN amounts THEN amounts[a] ELSE 0
              /\ Accumulated(a) \in Nat
              /\ booked'[a] = booked[a] + IF a \in DOMAIN amounts THEN amounts[a] ELSE 0
              /\ booked[a] \in Int /\ asset'[a] = asset[a] /\ Active(a)' = Active(a)
              /\ (IF a \in DOMAIN amounts THEN amounts[a] ELSE 0) \in Nat
              /\ asset[a] # Null => asset[a] \in AssetRow
  BY <1>4, <1>6, <1>9, AccumulatedParts DEF Accumulated, Active, AssetsTypeOK
<1>11. UnbornUnbooked'
  BY <1>4, <1>10 DEF AssetsAlone, UnbornUnbooked
<1>12. ASSUME NEW a \in Asset, asset'[a] # Null
       PROVE  /\ booked'[a] = Accumulated(a)'
                  - IF Active(a)' THEN 0 ELSE asset'[a].cost - asset'[a].proceeds + asset'[a].gain
              /\ Accumulated(a)' =< asset'[a].cost - asset'[a].salvage
  <2>1. PICK more \in Nat : more = IF a \in DOMAIN amounts THEN amounts[a] ELSE 0
    BY <1>10
  <2>2. PICK off : off = IF Active(a) THEN 0 ELSE asset[a].cost - asset[a].proceeds + asset[a].gain
    OBVIOUS
  <2>3. off \in Int
    <3>1. asset[a] \in AssetRow
      BY <1>10, <1>12
    <3>2. ~ Active(a) => asset[a].proceeds \in Nat
      BY <1>10, <1>12, <3>1, AssetRowParts, AssetAssumption DEF Active
    <3> QED
      BY <2>2, <3>1, <3>2, AssetRowParts
  <2>4. booked[a] = Accumulated(a) - off
    BY <1>10, <1>12, <2>2 DEF AssetsAlone, BookedAsCharged
  <2>5. booked'[a] = Accumulated(a)' - off
    BY <1>10, <2>1, <2>3, <2>4
  <2>6. asset[a].cost - asset[a].salvage \in Int
    BY <1>10, <1>12, AssetRowParts
  <2>7. Accumulated(a)' =< asset[a].cost - asset[a].salvage
    <3>1. CASE a \in DOMAIN amounts
      BY <1>4, <1>10, <2>6, <3>1
    <3>2. CASE a \notin DOMAIN amounts
      BY <1>10, <1>12, <3>2 DEF AssetsAlone, SalvageIsKept
    <3> QED
      BY <3>1, <3>2
  <2> QED
    BY <1>10, <2>2, <2>5, <2>7
<1> QED
  BY <1>11, <1>12 DEF BookedAsCharged, SalvageIsKept
(* What is left on the account of an asset, as its row has it.              *)
TakenOff(a) == IF Active(a) THEN 0 ELSE asset[a].cost - asset[a].proceeds + asset[a].gain

LEMMA TakenOffInt ==
  ASSUME AssetsTypeOK, NEW a \in Asset, asset[a] # Null
  PROVE  TakenOff(a) \in Int /\ asset[a].cost - asset[a].salvage \in Int
<1>1. asset[a] \in AssetRow
  BY DEF AssetsTypeOK
<1>2. ~ Active(a) => asset[a].proceeds \in Nat
  BY <1>1, AssetRowParts, AssetAssumption DEF Active
<1> QED
  BY <1>1, <1>2, AssetRowParts DEF TakenOff

LEMMA EndReverseAlone ==
  ASSUME AssetsTypeOK, AssetsAlone, NEW q \in Accountant, EndReverse(q)
  PROVE  UnbornUnbooked' /\ BookedAsCharged' /\ SalvageIsKept'
<1>1. PICK recs : recs = errand[q].rows
  OBVIOUS
<1>2. recs \in SUBSET charged
  BY <1>1 DEF EndReverse, On, Busy, AssetsAlone, StillSo
<1>3. /\ charged' = charged \ recs /\ asset' = asset
      /\ booked' = [a \in Asset |-> booked[a] - ChargedTo(recs, a)]
  BY <1>1 DEF EndReverse, GivenBackTo
<1>4. charged \subseteq ChargeRow /\ IsFiniteSet(charged) /\ recs \subseteq ChargeRow /\ IsFiniteSet(recs)
  BY <1>2, FS_Subset DEF AssetsTypeOK
<1>5. ASSUME NEW a \in Asset
      PROVE  /\ Accumulated(a)' = Accumulated(a) - ChargedTo(recs, a)
             /\ booked'[a] = booked[a] - ChargedTo(recs, a)
             /\ ChargedTo(recs, a) \in Nat /\ Accumulated(a) \in Nat /\ booked[a] \in Int
             /\ asset'[a] = asset[a] /\ TakenOff(a)' = TakenOff(a)
             /\ asset[a] = Null => ChargedTo(recs, a) = 0
  <2>1. ChargedTo(charged \ recs, a) = ChargedTo(charged, a) - ChargedTo(recs, a)
    BY <1>2, <1>4, ChargedBack
  <2>2. asset[a] = Null => \A r \in recs : r.asset # a
    BY <1>2 DEF AssetsTypeOK
  <2>3. ChargedTo(recs, a) \in Nat /\ (asset[a] = Null => ChargedTo(recs, a) = 0)
    BY <1>4, <2>2, ChargedParts
  <2> QED
    BY <1>3, <2>1, <2>3, AccumulatedParts DEF Accumulated, TakenOff, Active, AssetsTypeOK
<1>6. UnbornUnbooked'
  BY <1>5 DEF AssetsAlone, UnbornUnbooked
<1>7. ASSUME NEW a \in Asset, asset'[a] # Null
      PROVE  /\ booked'[a] = Accumulated(a)' - TakenOff(a)'
             /\ Accumulated(a)' =< asset'[a].cost - asset'[a].salvage
  <2>1. /\ booked[a] = Accumulated(a) - TakenOff(a)
        /\ Accumulated(a) =< asset[a].cost - asset[a].salvage
    BY <1>5, <1>7 DEF AssetsAlone, BookedAsCharged, SalvageIsKept, TakenOff
  <2>2. TakenOff(a) \in Int /\ asset[a].cost - asset[a].salvage \in Int
    BY <1>5, <1>7, TakenOffInt
  <2> QED
    BY <1>5, <2>1, <2>2
<1> QED
  BY <1>6, <1>7 DEF BookedAsCharged, SalvageIsKept, TakenOff

LEMMA EndDisposeAlone ==
  ASSUME AssetsTypeOK, AssetsAlone, NEW q \in Accountant, NEW n \in Proceeds, EndDispose(q, n)
  PROVE  UnbornUnbooked' /\ BookedAsCharged' /\ SalvageIsKept'
<1>1. PICK a \in Asset, acc \in Nat :
            /\ errand[q].asset = a /\ errand[q].accumulated = acc
            /\ errand[q] # Null /\ errand[q].op = "dispose" /\ asset[a] \in AssetRow
            /\ asset' = [asset EXCEPT ![a] = Disposed(asset[a], n, acc)]
            /\ booked' = [booked EXCEPT ![a] = booked[a] - acc] /\ UNCHANGED <<charged, charges>>
  BY EndDisposeParts
<1>2. Active(a) /\ acc = Accumulated(a)
  BY <1>1 DEF AssetsAlone, StillSo
<1>3. PICK x : x = Disposed(asset[a], n, acc)
  OBVIOUS
<1>4. /\ x \in AssetRow /\ x.cost = asset[a].cost /\ x.salvage = asset[a].salvage
      /\ x.proceeds = n /\ x.gain = n - (x.cost - acc) /\ x # Null
  BY SMTT(30), <1>1, <1>3, DisposedParts, AssetRowParts
<1>5. asset'[a] = x /\ \A b \in Asset \ {a} : asset'[b] = asset[b] /\ booked'[b] = booked[b]
  BY <1>1, <1>3 DEF AssetsTypeOK
<1>6. booked'[a] = booked[a] - acc /\ booked[a] \in Int
  BY <1>1 DEF AssetsTypeOK
<1>7. \A b : Accumulated(b)' = Accumulated(b)
  BY <1>1 DEF Accumulated
<1>8. UnbornUnbooked'
  BY <1>4, <1>5 DEF AssetsAlone, UnbornUnbooked
<1>9. ASSUME NEW b \in Asset, asset'[b] # Null
      PROVE  /\ booked'[b] = Accumulated(b)' - TakenOff(b)'
             /\ Accumulated(b)' =< asset'[b].cost - asset'[b].salvage
  <2>1. CASE b = a
    <3>1. asset[a] # Null
      BY <1>2 DEF Active
    <3>2. booked[a] = Accumulated(a) /\ Accumulated(a) =< asset[a].cost - asset[a].salvage
      <4>1. booked[a] = Accumulated(a) - 0
        BY <1>2, <3>1 DEF AssetsAlone, BookedAsCharged
      <4> QED
        BY <1>2, <3>1, <4>1 DEF AssetsAlone, SalvageIsKept
    <3>3. n # Null /\ n \in Nat /\ x.cost \in Nat
      BY <1>4, AssetNull, AssetAssumption, AssetRowParts
    <3>4. TakenOff(a)' = x.cost - n + x.gain
      BY <1>4, <1>5, <3>3 DEF TakenOff, Active
    <3>5. TakenOff(a)' = acc
      BY <1>4, <3>3, <3>4
    <3> QED
      BY <1>2, <1>4, <1>5, <1>6, <1>7, <2>1, <3>2, <3>5
  <2>2. CASE b # a
    <3>1. asset'[b] = asset[b] /\ booked'[b] = booked[b]
      BY <1>5, <2>2
    <3>2. TakenOff(b)' = TakenOff(b)
      BY <3>1 DEF TakenOff, Active
    <3>3. booked[b] = Accumulated(b) - TakenOff(b) /\ Accumulated(b) =< asset[b].cost - asset[b].salvage
      BY <1>9, <3>1 DEF AssetsAlone, BookedAsCharged, SalvageIsKept, TakenOff
    <3> QED
      BY <1>7, <3>1, <3>2, <3>3
  <2> QED
    BY <2>1, <2>2
<1> QED
  BY <1>8, <1>9 DEF BookedAsCharged, SalvageIsKept, TakenOff

LEMMA AssetsAloneStep ==
  ASSUME AssetsTypeOK, AssetsAlone, AssetsNext, EndsErrands
  PROVE  AssetsAlone'
<1> DEFINE Idle == \A p \in Accountant : errand[p] = Null
<1>1. ASSUME NEW q \in Accountant, errand[q] # Null,
             UnbornUnbooked' /\ BookedAsCharged' /\ SalvageIsKept'
      PROVE  AssetsAlone'
  BY <1>1 DEF AssetsAlone, EndsErrands
<1>2. ASSUME NEW a \in Asset, NEW k \in AssetKind, CreateAsset(a, k) PROVE AssetsAlone'
  <2>1. CASE Idle
    BY <1>2, <2>1, CreateAssetAlone
  <2>2. CASE ~ Idle
    BY <1>2, <2>2 DEF CreateAsset, EndsErrands
  <2> QED
    BY <2>1, <2>2
<1>3. ASSUME NEW q \in Accountant, NEW m \in DepMonth, StartRun(q, m) PROVE AssetsAlone'
  <2>1. PICK amounts :
            /\ errand' = [errand EXCEPT ![q] = [op |-> "run", month |-> m, amounts |-> amounts]]
            /\ \A a \in DOMAIN amounts :
                  amounts[a] =< asset[a].cost - asset[a].salvage - Accumulated(a)
    BY <1>3, RunStarts
  <2>2. StillSo([op |-> "run", month |-> m, amounts |-> amounts])
    BY <2>1 DEF StillSo
  <2> QED
    BY <1>3, <2>1, <2>2, BeginsAlone DEF StartRun, Set
<1>4. ASSUME NEW q \in Accountant, NEW m \in DepMonth, StartReverse(q, m) PROVE AssetsAlone'
  <2>1. PICK R : R = {r \in charged : r.month = m}
    OBVIOUS
  <2>2. errand' = [errand EXCEPT ![q] = [op |-> "reverse", rows |-> R]]
    BY <1>4, <2>1 DEF StartReverse, Set
  <2>3. StillSo([op |-> "reverse", rows |-> R])
    BY <2>1 DEF StillSo
  <2> QED
    BY <1>4, <2>2, <2>3, BeginsAlone DEF StartReverse, Set
<1>5. ASSUME NEW q \in Accountant, NEW a \in Asset, StartDispose(q, a) PROVE AssetsAlone'
  <2>1. PICK acc : acc = Accumulated(a)
    OBVIOUS
  <2>2. errand' = [errand EXCEPT ![q] = [op |-> "dispose", asset |-> a, accumulated |-> acc]]
    BY <1>5, <2>1 DEF StartDispose, Set
  <2>3. StillSo([op |-> "dispose", asset |-> a, accumulated |-> acc])
    BY <1>5, <2>1 DEF StartDispose, StillSo
  <2> QED
    BY <1>5, <2>2, <2>3, BeginsAlone DEF StartDispose, Set
<1>6. ASSUME NEW q \in Accountant, FailRun(q) PROVE AssetsAlone'
  <2>1. UnbornUnbooked' /\ BookedAsCharged' /\ SalvageIsKept'
    BY <1>6 DEF FailRun, AssetsAlone, UnbornUnbooked, BookedAsCharged, SalvageIsKept,
                Accumulated, Active
  <2> QED
    BY <1>1, <1>6, <2>1 DEF FailRun, On, Busy
<1>7. ASSUME NEW q \in Accountant, NEW c \in Charge, EndRun(q, c) PROVE AssetsAlone'
  BY <1>1, <1>7, EndRunAlone DEF EndRun, On, Busy
<1>8. ASSUME NEW q \in Accountant, EndReverse(q) PROVE AssetsAlone'
  BY <1>1, <1>8, EndReverseAlone DEF EndReverse, On, Busy
<1>9. ASSUME NEW q \in Accountant, NEW n \in Proceeds, EndDispose(q, n) PROVE AssetsAlone'
  BY <1>1, <1>9, EndDisposeAlone DEF EndDispose, On, Busy
<1> QED
  BY <1>2, <1>3, <1>4, <1>5, <1>6, <1>7, <1>8, <1>9 DEF AssetsNext

(* In the worlds of MCHoldings.                                             *)
AssetsWorld == AssetInv /\ (world = "assets_alone" => AssetsAlone)

LEMMA AssetsWorldFirst ==
  ASSUME AssetsInit
  PROVE  AssetsWorld
<1>1. IsFiniteSet(charged) /\ charged = {}
  BY FS_EmptySet DEF AssetsInit
<1>2. AssetInv
  BY <1>1 DEF AssetsInit, AssetInv, AssetsTypeOK, OncePerMonth
<1>3. AssetsAlone
  BY DEF AssetsInit, AssetsAlone, UnbornUnbooked, BookedAsCharged, SalvageIsKept
<1> QED
  BY <1>2, <1>3 DEF AssetsWorld

LEMMA AssetsWorldStep ==
  ASSUME AssetsWorld, [Next]_vars
  PROVE  AssetsWorld'
<1>1. CASE UNCHANGED <<world, assetVars>>
  <2>1. UNCHANGED <<world, asset, charged, charges, booked, errand>>
    BY <1>1 DEF assetVars
  <2> QED
    BY <2>1 DEF AssetsWorld, AssetInv, AssetsTypeOK, OncePerMonth, IsErrand, AssetsAlone,
       UnbornUnbooked, BookedAsCharged, SalvageIsKept, StillSo, Accumulated, Active
<1>2. CASE In({"assets", "assets_alone"}, AssetsStep, <<reconcileVars, paperVars, purchaseVars>>)
  <2>1. AssetsStep /\ world' = world
    BY <1>2 DEF In
  <2>2. AssetInv'
    BY <2>1, AssetInvStep DEF AssetsWorld, AssetsStep
  <2>3. ASSUME world = "assets_alone" PROVE EndsErrands
    <3> SUFFICES ASSUME NEW o \in Accountant, errand[o] # Null
                 PROVE  \A p \in Accountant : errand'[p] = Null
      BY DEF EndsErrands
    <3>1. PICK q \in Accountant : \A p \in Accountant \ {q} : errand[p] = Null /\ errand'[p] = Null
      BY <2>1, <2>3 DEF AssetsStep
    <3>2. errand' # errand /\ AssetsNext
      BY <2>1, <2>3 DEF AssetsStep
    <3>3. o = q /\ errand = [p \in Accountant |-> errand[p]]
      BY <3>1 DEF AssetsWorld, AssetInv, AssetsTypeOK
    <3>4. ASSUME NEW p \in Accountant, NEW e, Set(p, e) PROVE FALSE
      <4>1. p # q
        BY <3>3, <3>4 DEF Set, Busy
      <4>2. errand'[p] = e /\ errand' = [errand EXCEPT ![p] = e]
        BY <3>3, <3>4 DEF Set
      <4> QED
        BY <3>1, <3>2, <3>3, <4>1, <4>2
    <3>5. ASSUME NEW p \in Accountant, On(p, errand[p].op), Finished(p) PROVE errand'[q] = Null
      BY <3>1, <3>3, <3>5 DEF On, Busy, Finished
    <3>6. \A a \in Asset, k \in AssetKind : ~ CreateAsset(a, k)
      BY <3>2 DEF CreateAsset
    <3>7. ASSUME NEW p \in Accountant PROVE /\ \A m \in DepMonth : ~ StartRun(p, m) /\ ~ StartReverse(p, m)
                                            /\ \A a \in Asset : ~ StartDispose(p, a)
      BY <3>4 DEF StartRun, StartReverse, StartDispose
    <3>8. errand'[q] = Null
      BY <3>2, <3>5, <3>6, <3>7 DEF AssetsNext, EndRun, EndDispose, FailRun, EndReverse, On
    <3> QED
      BY <3>1, <3>8
  <2> QED
    BY <2>1, <2>2, <2>3, AssetsAloneStep DEF AssetsWorld, AssetInv, AssetsStep
<1> QED
  BY <1>1, <1>2 DEF Next, In, vars

(* However requests race, no asset is charged twice for a month; one        *)
(* request at a time, the accumulated account holds what was charged less   *)
(* what disposals took off, and no asset is charged below its salvage value *)
(* (fixed_asset_service.py: run_depreciation, reverse_depreciation,         *)
(* dispose_asset; lib/depreciation.py).                                     *)
THEOREM AssetsChargedOnce == Spec => []AssetsAddUp
<1>1. Init => AssetsWorld
  BY AssetsWorldFirst DEF Init
<1>2. AssetsWorld /\ [Next]_vars => AssetsWorld'
  BY AssetsWorldStep
<1>3. AssetsWorld => AssetsAddUp
  BY DEF AssetsWorld, AssetInv, AssetsAlone, AssetsAddUp
<1> QED
  BY <1>1, <1>2, <1>3, PTL DEF Spec
-----------------------------------------------------------------------------
(* Purchases. *)

LEMMA BoughtLinesAreLines ==
  ASSUME NEW ls \in BoughtLines
  PROVE  AreLines(ls) /\ DOMAIN ls \subseteq Nat /\ ls # Null
<1> DEFINE LineRow == [item : Goods, store : Yard, n : Nat]
<1>1. ls \in Seq(LineRow)
  BY PurchaseAssumption
<1>2. DOMAIN ls = 1 .. Len(ls) /\ Len(ls) \in Nat
  BY <1>1
<1>3. \A k \in DOMAIN ls : ls[k] \in LineRow
  <2> HIDE DEF LineRow
  <2> QED
    BY <1>1, <1>2
<1>4. IsFiniteSet(DOMAIN ls)
  BY <1>2, FS_Interval
<1> QED
  BY <1>2, <1>3, <1>4, PurchaseNull DEF AreLines

(* What lines move is no less than any of them says.                        *)
LEMMA ManyParts ==
  ASSUME NEW ls, AreLines(ls), NEW i, NEW y
  PROVE  /\ Many(ls, i, y) \in Nat
         /\ \A k \in DOMAIN ls :
               ls[k].item = i /\ ls[k].store = y => ls[k].n =< Many(ls, i, y)
<1> DEFINE f == [k \in DOMAIN ls |-> ls[k].n]
           S == {k \in DOMAIN ls : ls[k].item = i /\ ls[k].store = y}
<1>1. IsFiniteSet(S) /\ \A k \in S : f[k] \in Nat
  BY FS_Subset DEF AreLines
<1>2. SumFunctionOnSet(f, S) \in Nat /\ \A k \in S : f[k] =< SumFunctionOnSet(f, S)
  <2> HIDE DEF f, S
  <2> QED
    BY <1>1, SumBounds
<1> QED
  BY <1>2 DEF Many

LEMMA ManyOfOne ==
  ASSUME NEW ls, AreLines(ls), NEW k, DOMAIN ls = {k}, NEW i, NEW y
  PROVE  Many(ls, i, y) = IF ls[k].item = i /\ ls[k].store = y THEN ls[k].n ELSE 0
<1> DEFINE f == [j \in DOMAIN ls |-> ls[j].n]
<1>1. CASE ls[k].item = i /\ ls[k].store = y
  <2>1. {j \in DOMAIN ls : ls[j].item = i /\ ls[j].store = y} = {k}
    BY <1>1
  <2>2. Many(ls, i, y) = SumFunctionOnSet(f, {k})
    BY <2>1 DEF Many
  <2>3. IsFiniteSet({k}) /\ f[k] = ls[k].n /\ ls[k].n \in Nat /\ {k} \ {k} = {}
    BY FS_Singleton DEF AreLines
  <2>4. SumFunctionOnSet(f, {k}) = f[k] + SumFunctionOnSet(f, {k} \ {k})
    BY <2>3, SumRemove
  <2>5. SumFunctionOnSet(f, {}) = 0
    BY SumEmpty
  <2> QED
    BY <1>1, <2>2, <2>3, <2>4, <2>5
<1>2. CASE ~ (ls[k].item = i /\ ls[k].store = y)
  <2>1. {j \in DOMAIN ls : ls[j].item = i /\ ls[j].store = y} = {}
    BY <1>2
  <2> QED
    BY <1>2, <2>1, SumEmpty DEF Many
<1> QED
  BY <1>1, <1>2

LEMMA MovedNat ==
  ASSUME PurchasesTypeOK
  PROVE  /\ \A b \in Purchase : \A i, y : Brought(b, i, y) \in Nat
         /\ \A t \in PurchaseReturn : \A i, y : Returned(t, i, y) \in Nat
BY ManyParts, BoughtLinesAreLines DEF PurchasesTypeOK, Brought, Returned

(* What returns move together: without one of them, and of some.            *)
LEMMA AllReturnedParts ==
  ASSUME PurchasesTypeOK, NEW T \in SUBSET PurchaseReturn, NEW i, NEW y
  PROVE  /\ AllReturned(T, i, y) \in Nat
         /\ \A t \in T : AllReturned(T, i, y) = Returned(t, i, y) + AllReturned(T \ {t}, i, y)
<1> DEFINE f == [t \in T |-> Returned(t, i, y)]
<1>1. IsFiniteSet(T) /\ \A t \in T : f[t] \in Nat
  BY FS_Subset, PurchaseAssumption, MovedNat
<1>2. SumFunctionOnSet(f, T) \in Nat
  BY <1>1, SumBounds
<1>3. ASSUME NEW t \in T
      PROVE  AllReturned(T, i, y) = Returned(t, i, y) + AllReturned(T \ {t}, i, y)
  <2>1. f[t] = Returned(t, i, y)
    OBVIOUS
  <2>2. SumFunctionOnSet(f, T) = f[t] + SumFunctionOnSet(f, T \ {t})
    <3> HIDE DEF f
    <3> QED
      BY <1>1, SumRemove
  <2>3. IsFiniteSet(T \ {t}) /\ \A u \in T \ {t} : f[u] = [v \in T \ {t} |-> Returned(v, i, y)][u]
    BY <1>1, FS_Subset
  <2>4. SumFunctionOnSet(f, T \ {t}) = AllReturned(T \ {t}, i, y)
    BY <2>3, SumSame DEF AllReturned
  <2> QED
    BY <2>1, <2>2, <2>4 DEF AllReturned
<1> QED
  BY <1>2, <1>3 DEF AllReturned

LEMMA AllReturnedSame ==
  ASSUME NEW T \in SUBSET PurchaseReturn, \A t \in T : givenBack'[t] = givenBack[t], NEW i, NEW y
  PROVE  AllReturned(T, i, y)' = AllReturned(T, i, y)
<1>1. \A t \in T : Returned(t, i, y)' = Returned(t, i, y)
  BY DEF Returned
<1> QED
  BY <1>1 DEF AllReturned

LEMMA ShelfParts ==
  ASSUME PurchasesTypeOK, NEW i \in Goods, NEW y \in Yard, NEW t \in PurchaseReturn
  PROVE  /\ OnShelfBut(t, i, y) \in Int
         /\ OnShelf(i, y) = OnShelfBut(t, i, y) - Returned(t, i, y)
<1> DEFINE f == [b \in Purchase |-> Brought(b, i, y)]
<1>1. SumFunctionOnSet(f, Purchase) \in Int
  BY MovedNat, PurchaseAssumption, SumInt
<1>2. PurchaseReturn \ {Null} = PurchaseReturn
  BY PurchaseNull
<1>3. AllReturned(PurchaseReturn, i, y) = Returned(t, i, y) + AllReturned(PurchaseReturn \ {t}, i, y)
  BY AllReturnedParts
<1>4. AllReturned(PurchaseReturn \ {t}, i, y) \in Nat /\ Returned(t, i, y) \in Nat
  BY AllReturnedParts, MovedNat
<1>5. elsewhere[y][i] \in Int
  BY DEF PurchasesTypeOK
<1> QED
  BY <1>1, <1>2, <1>3, <1>4, <1>5 DEF OnShelf, OnShelfBut

(* A purchase comes, changes or goes: the place has what it brings more, or *)
(* less.                                                                    *)
LEMMA ShelfByPurchase ==
  ASSUME PurchasesTypeOK, NEW b \in Purchase, NEW r \in BoughtLines \cup {Null},
         bought' = [bought EXCEPT ![b] = r], UNCHANGED <<givenBack, elsewhere>>,
         NEW i \in Goods, NEW y \in Yard
  PROVE  /\ OnShelf(i, y)' = OnShelf(i, y) + Brought(b, i, y)' - Brought(b, i, y)
         /\ Brought(b, i, y)' \in Nat /\ OnShelf(i, y) \in Int
<1>1. Brought(b, i, y)' \in Nat
  <2>1. bought'[b] = r
    BY DEF PurchasesTypeOK
  <2> QED
    BY <2>1, ManyParts, BoughtLinesAreLines DEF Brought
<1> DEFINE f == [c \in Purchase |-> Brought(c, i, y)]
           g == [c \in Purchase |-> Brought(c, i, y)']
<1>2. /\ \A c \in Purchase : f[c] \in Int
      /\ \A c \in Purchase \ {b} : g[c] = f[c]
      /\ g[b] \in Int
  BY <1>1, MovedNat DEF Brought, PurchasesTypeOK
<1>3. SumFunctionOnSet(g, Purchase) = SumFunctionOnSet(f, Purchase) + g[b] - f[b]
  <2> HIDE DEF f, g
  <2> QED
    BY <1>2, PurchaseAssumption, SumChange
<1>4. SumFunctionOnSet(f, Purchase) \in Int
  BY <1>2, PurchaseAssumption, SumInt
<1>5. PurchaseReturn \ {Null} = PurchaseReturn
  BY PurchaseNull
<1>6. AllReturned(PurchaseReturn, i, y)' = AllReturned(PurchaseReturn, i, y)
  BY AllReturnedSame
<1>7. AllReturned(PurchaseReturn, i, y) \in Nat /\ elsewhere[y][i] \in Int /\ elsewhere' = elsewhere
  BY AllReturnedParts DEF PurchasesTypeOK
<1>8. /\ OnShelf(i, y) = elsewhere[y][i] + SumFunctionOnSet(f, Purchase) - AllReturned(PurchaseReturn, i, y)
      /\ OnShelf(i, y)' = elsewhere[y][i] + SumFunctionOnSet(g, Purchase) - AllReturned(PurchaseReturn, i, y)
  BY <1>5, <1>6, <1>7 DEF OnShelf, OnShelfBut
<1> QED
  BY <1>1, <1>2, <1>3, <1>4, <1>7, <1>8, MovedNat
(* A return comes, changes or goes: the rest of the place is as it was.     *)
LEMMA ShelfByReturn ==
  ASSUME PurchasesTypeOK, PurchasesTypeOK', NEW t \in PurchaseReturn, NEW r,
         givenBack' = [givenBack EXCEPT ![t] = r], UNCHANGED <<bought, elsewhere>>,
         NEW i \in Goods, NEW y \in Yard
  PROVE  /\ OnShelf(i, y)' = OnShelfBut(t, i, y) - Returned(t, i, y)'
         /\ OnShelf(i, y) = OnShelfBut(t, i, y) - Returned(t, i, y)
         /\ Returned(t, i, y)' = IF r = Null THEN 0 ELSE Many(r.lines, i, y)
         /\ Returned(t, i, y)' \in Nat /\ Returned(t, i, y) \in Nat /\ OnShelfBut(t, i, y) \in Int
<1>1. givenBack'[t] = r /\ \A u \in PurchaseReturn \ {t} : givenBack'[u] = givenBack[u]
  BY DEF PurchasesTypeOK
<1>2. Returned(t, i, y)' = IF r = Null THEN 0 ELSE Many(r.lines, i, y)
  BY <1>1 DEF Returned
<1>3. Returned(t, i, y)' \in Nat
  <2>1. r # Null => AreLines(r.lines)
    BY <1>1 DEF PurchasesTypeOK, AreLines
  <2> QED
    BY <1>2, <2>1, ManyParts
<1> DEFINE f == [b \in Purchase |-> Brought(b, i, y)]
<1>4. SumFunctionOnSet(f, Purchase)' = SumFunctionOnSet(f, Purchase)
  BY DEF Brought
<1>5. AllReturned(PurchaseReturn \ {t}, i, y)' = AllReturned(PurchaseReturn \ {t}, i, y)
  BY <1>1, AllReturnedSame
<1>6. OnShelfBut(t, i, y)' = OnShelfBut(t, i, y)
  BY <1>4, <1>5 DEF OnShelfBut
<1>7. /\ OnShelfBut(t, i, y) \in Int /\ OnShelf(i, y) = OnShelfBut(t, i, y) - Returned(t, i, y)
      /\ Returned(t, i, y) \in Nat
  BY ShelfParts, MovedNat
<1>8. OnShelf(i, y)' = OnShelf(i, y) + Returned(t, i, y) - Returned(t, i, y)'
  <2>1. AllReturned(PurchaseReturn, i, y)
           = Returned(t, i, y) + AllReturned(PurchaseReturn \ {t}, i, y)
    BY AllReturnedParts
  <2> DEFINE g == [u \in PurchaseReturn |-> Returned(u, i, y)]
             h == [u \in PurchaseReturn |-> Returned(u, i, y)']
  <2>2. /\ \A u \in PurchaseReturn : g[u] \in Int
        /\ \A u \in PurchaseReturn \ {t} : h[u] = g[u]
        /\ h[t] \in Int
    BY <1>1, <1>3, MovedNat DEF Returned
  <2>3. SumFunctionOnSet(h, PurchaseReturn) = SumFunctionOnSet(g, PurchaseReturn) + h[t] - g[t]
    <3> HIDE DEF g, h
    <3> QED
      BY <2>2, PurchaseAssumption, SumChange
  <2>4. AllReturned(PurchaseReturn, i, y)' = SumFunctionOnSet(h, PurchaseReturn)
    BY DEF AllReturned
  <2>5. AllReturned(PurchaseReturn, i, y)'
           = AllReturned(PurchaseReturn, i, y) + Returned(t, i, y)' - Returned(t, i, y)
    BY <2>3, <2>4 DEF AllReturned
  <2>6. PurchaseReturn \ {Null} = PurchaseReturn
    BY PurchaseNull
  <2>7. /\ SumFunctionOnSet(f, Purchase) \in Int /\ elsewhere[y][i] \in Int
        /\ AllReturned(PurchaseReturn, i, y) \in Nat /\ elsewhere' = elsewhere
    <3>1. SumFunctionOnSet(f, Purchase) \in Int
      BY MovedNat, PurchaseAssumption, SumInt
    <3>2. AllReturned(PurchaseReturn, i, y) \in Nat
      BY AllReturnedParts
    <3>3. elsewhere[y][i] \in Int
      BY DEF PurchasesTypeOK
    <3> QED
      BY <3>1, <3>2, <3>3
  <2>8. /\ OnShelf(i, y) = elsewhere[y][i] + SumFunctionOnSet(f, Purchase) - AllReturned(PurchaseReturn, i, y)
        /\ OnShelf(i, y)' = elsewhere[y][i] + SumFunctionOnSet(f, Purchase) - AllReturned(PurchaseReturn, i, y)'
    BY <1>4, <2>6, <2>7 DEF OnShelf, OnShelfBut
  <2> HIDE DEF f
  <2> QED
    BY <1>3, <1>7, <2>5, <2>7, <2>8
<1> QED
  BY <1>2, <1>3, <1>7, <1>8

-----------------------------------------------------------------------------
(* The rows of purchases keep their types. *)

LEMMA PurchaseTyped ==
  ASSUME PurchasesTypeOK, NEW b \in Purchase, NEW r \in BoughtLines \cup {Null},
         bought' = [bought EXCEPT ![b] = r], UNCHANGED <<givenBack, asking, elsewhere>>
  PROVE  PurchasesTypeOK'
BY DEF PurchasesTypeOK, AreLines

LEMMA ReturnTyped ==
  ASSUME PurchasesTypeOK, NEW t \in PurchaseReturn, NEW r,
         givenBack' = [givenBack EXCEPT ![t] = r], UNCHANGED <<bought, elsewhere>>,
         r # Null => r.of \in Purchase \cup {Null} /\ AreLines(r.lines),
         asking' = [q \in Buyer |-> asking'[q]],
         \A q \in Buyer : asking'[q] \in {asking[q], Null}
  PROVE  PurchasesTypeOK'
<1>1. givenBack = [u \in PurchaseReturn |-> givenBack[u]]
  BY DEF PurchasesTypeOK
<1>2. \A u \in PurchaseReturn : givenBack'[u] = IF u = t THEN r ELSE givenBack[u]
  BY <1>1
<1>3. givenBack' = [u \in PurchaseReturn |-> givenBack'[u]]
  BY <1>1
<1>4. ASSUME NEW u \in PurchaseReturn, NEW g, g = givenBack'[u], g # Null
      PROVE  g.of \in Purchase \cup {Null} /\ AreLines(g.lines)
  BY <1>2, <1>4 DEF PurchasesTypeOK
<1>5. ASSUME NEW q \in Buyer, NEW g, g = asking'[q], g # Null
      PROVE  g.of \in Purchase /\ AreLines(g.lines)
  <2>1. g = asking[q]
    BY <1>5
  <2> QED
    BY <1>5, <2>1 DEF PurchasesTypeOK
<1> QED
  BY <1>3, <1>4, <1>5 DEF PurchasesTypeOK, AreLines

(* What is asked to go back.                                                *)
AskedBack(b, ls) ==
    [of |-> b,
     lines |-> [k \in DOMAIN ls |->
                  [item |-> ls[k].item, n |-> ls[k].n, store |-> LastLine(b, ls[k].item).store]]]

LEMMA LastLineListed ==
  ASSUME PurchasesTypeOK, NEW b \in Purchase, bought[b] # Null, NEW i \in Listed(b)
  PROVE  \E k \in DOMAIN bought[b] : LastLine(b, i) = bought[b][k] /\ bought[b][k].item = i
<1> DEFINE K == {k \in DOMAIN bought[b] : bought[b][k].item = i}
<1>1. bought[b] \in BoughtLines
  BY DEF PurchasesTypeOK
<1>2. IsFiniteSet(K) /\ K # {} /\ K \subseteq Nat
  BY <1>1, BoughtLinesAreLines, FS_Subset DEF AreLines, Listed
<1>3. \E m \in K : \A k \in K : m >= k
  <2> DEFINE rank == [k \in K |-> k]
  <2>1. \A k \in K : rank[k] = k /\ rank[k] \in Int
    BY <1>2
  <2> HIDE DEF K, rank
  <2>2. \E m \in K : \A k \in K : rank[k] =< rank[m]
    BY <1>2, <2>1, HighestExists
  <2> QED
    BY <1>2, <2>1, <2>2
<1>4. Max(K) \in K
  BY <1>3 DEF Max
<1> QED
  BY <1>4 DEF LastLine
LEMMA AskBackParts ==
  ASSUME PurchasesTypeOK, NEW q \in Buyer, NEW b \in Purchase, NEW ls \in BackLines, AskBack(q, b, ls)
  PROVE  /\ asking' = [asking EXCEPT ![q] = AskedBack(b, ls)]
         /\ AreLines(AskedBack(b, ls).lines) /\ AskedBack(b, ls).of = b
         /\ PurchasesTypeOK'
<1>1. asking' = [asking EXCEPT ![q] = AskedBack(b, ls)] /\ UNCHANGED <<bought, givenBack, elsewhere>>
  BY DEF AskBack, AskedBack
<1>2. bought[b] # Null /\ bought[b] \in BoughtLines
  BY DEF AskBack, PurchasesTypeOK
<1> DEFINE LineRow == [item : Goods, n : Nat]
<1>3. ls \in Seq(LineRow)
  BY PurchaseAssumption
<1>4. DOMAIN ls = 1 .. Len(ls) /\ Len(ls) \in Nat /\ IsFiniteSet(DOMAIN ls)
  BY <1>3, FS_Interval
<1>5. \A k \in DOMAIN ls : ls[k] \in LineRow
  <2> HIDE DEF LineRow
  <2> QED
    BY <1>3, <1>4
<1>6. ASSUME NEW k \in DOMAIN ls PROVE LastLine(b, ls[k].item).store \in Yard
  <2>1. ls[k].item \in Listed(b)
    BY <1>6 DEF AskBack
  <2> QED
    BY <1>2, <2>1, LastLineListed, BoughtLinesAreLines DEF AreLines
<1>7. PICK new : new = AskedBack(b, ls).lines
  OBVIOUS
<1>8. /\ DOMAIN new = DOMAIN ls
      /\ \A k \in DOMAIN ls : new[k].item = ls[k].item /\ new[k].n = ls[k].n
                              /\ new[k].store = LastLine(b, ls[k].item).store
  BY <1>7 DEF AskedBack
<1>9. AreLines(new)
  BY <1>4, <1>5, <1>6, <1>8 DEF AreLines
<1>10. AskedBack(b, ls).of = b
  BY DEF AskedBack
<1>11. PICK e : e = AskedBack(b, ls)
  OBVIOUS
<1>12. /\ asking' = [p \in Buyer |-> asking'[p]]
       /\ \A p \in Buyer : asking'[p] # Null => asking'[p].of \in Purchase /\ AreLines(asking'[p].lines)
  <2>1. \A p \in Buyer : asking'[p] = IF p = q THEN e ELSE asking[p]
    BY <1>1, <1>11 DEF PurchasesTypeOK
  <2> QED
    BY <1>1, <1>7, <1>9, <1>10, <1>11, <2>1 DEF PurchasesTypeOK
<1> QED
  BY <1>1, <1>7, <1>9, <1>10, <1>12 DEF PurchasesTypeOK, AreLines

LEMMA PurchaseTypeStep ==
  ASSUME PurchasesTypeOK, [PurchasesNext]_purchaseVars
  PROVE  PurchasesTypeOK'
<1>1. CASE UNCHANGED purchaseVars
  BY <1>1 DEF purchaseVars, PurchasesTypeOK, AreLines
<1>2. ASSUME NEW b \in Purchase, NEW ls \in BoughtLines, Buy(b, ls) \/ EditPurchase(b, ls)
      PROVE  PurchasesTypeOK'
  BY <1>2, PurchaseTyped DEF Buy, EditPurchase
<1>3. ASSUME NEW b \in Purchase, DeletePurchase(b) PROVE PurchasesTypeOK'
  BY <1>3, PurchaseTyped DEF DeletePurchase
<1>4. ASSUME NEW q \in Buyer, NEW b \in Purchase, NEW ls \in BackLines, AskBack(q, b, ls)
      PROVE  PurchasesTypeOK'
  BY <1>4, AskBackParts
<1>5. ASSUME NEW q \in Buyer, NEW t \in PurchaseReturn, PostBack(q, t) PROVE PurchasesTypeOK'
  <2>1. PICK r : r = asking[q]
    OBVIOUS
  <2>2. r.of \in Purchase /\ AreLines(r.lines) /\ givenBack' = [givenBack EXCEPT ![t] = r]
    BY <1>5, <2>1 DEF PostBack, PurchasesTypeOK
  <2>3. asking' = [p \in Buyer |-> asking'[p]] /\ \A p \in Buyer : asking'[p] \in {asking[p], Null}
    BY <1>5 DEF PostBack, PurchasesTypeOK
  <2> QED
    BY <1>5, <2>2, <2>3, ReturnTyped DEF PostBack
<1>6. ASSUME NEW t \in PurchaseReturn, NEW ls \in BoughtLines, GiveBackAtWill(t, ls) \/ EditBack(t, ls)
      PROVE  PurchasesTypeOK'
  <2>1. PICK of : of = IF givenBack[t] = Null THEN Null ELSE givenBack[t].of
    OBVIOUS
  <2>2. of \in Purchase \cup {Null} /\ AreLines(ls)
    BY <2>1, BoughtLinesAreLines DEF PurchasesTypeOK
  <2>3. PICK r : r = [of |-> of, lines |-> ls]
    OBVIOUS
  <2>4. r.of = of /\ r.lines = ls
    BY <2>3
  <2>5. givenBack' = [givenBack EXCEPT ![t] = r]
    BY <1>6, <2>1, <2>3 DEF GiveBackAtWill, EditBack
  <2>6. UNCHANGED <<bought, asking, elsewhere>> /\ asking = [p \in Buyer |-> asking[p]]
    BY <1>6 DEF GiveBackAtWill, EditBack, PurchasesTypeOK
  <2> QED
    BY <2>2, <2>4, <2>5, <2>6, ReturnTyped
<1>7. ASSUME NEW t \in PurchaseReturn, DeleteBack(t) PROVE PurchasesTypeOK'
  <2>1. UNCHANGED <<bought, asking, elsewhere>> /\ asking = [p \in Buyer |-> asking[p]]
    BY <1>7 DEF DeleteBack, PurchasesTypeOK
  <2> QED
    BY <1>7, <2>1, ReturnTyped DEF DeleteBack
<1>8. ASSUME NEW q \in Buyer, RefuseBack(q) PROVE PurchasesTypeOK'
  <2>1. asking' = [p \in Buyer |-> asking'[p]] /\ \A p \in Buyer : asking'[p] \in {asking[p], Null}
    BY <1>8 DEF RefuseBack, PurchasesTypeOK
  <2> QED
    BY <1>8, <2>1 DEF RefuseBack, PurchasesTypeOK, AreLines
<1>9. ASSUME NEW i \in Goods, NEW y \in Yard, TakeOne(i, y) PROVE PurchasesTypeOK'
  <2>1. elsewhere' \in [Yard -> [Goods -> Int]]
    <3>1. elsewhere[y][i] - 1 \in Int
      BY DEF PurchasesTypeOK
    <3>2. [elsewhere[y] EXCEPT ![i] = elsewhere[y][i] - 1] \in [Goods -> Int]
      BY <3>1 DEF PurchasesTypeOK
    <3>3. elsewhere' = [elsewhere EXCEPT ![y] = [elsewhere[y] EXCEPT ![i] = elsewhere[y][i] - 1]]
      BY <1>9 DEF TakeOne
    <3> QED
      BY <3>2, <3>3 DEF PurchasesTypeOK
  <2> QED
    BY <1>9, <2>1 DEF TakeOne, PurchasesTypeOK, AreLines
<1> QED
  BY <1>1, <1>2, <1>3, <1>4, <1>5, <1>6, <1>7, <1>8, <1>9 DEF PurchasesNext
-----------------------------------------------------------------------------
(* A place is found to lack goods only by the undoing of a purchase. *)

LEMMA LackedByPurchase ==
  ASSUME PurchasesTypeOK, NEW b \in Purchase, NEW r \in BoughtLines \cup {Null},
         bought' = [bought EXCEPT ![b] = r], UNCHANGED <<givenBack, elsewhere>>
  PROVE  LackedByUndoing
<1> SUFFICES ASSUME NEW i \in Goods, NEW y \in Yard, OnShelf(i, y) >= 0, OnShelf(i, y)' < 0
             PROVE  Brought(b, i, y) > 0 /\ bought'[b] # bought[b]
  BY DEF LackedByUndoing
<1>1. PICK had, has, was, is : had = OnShelf(i, y) /\ has = OnShelf(i, y)'
                               /\ was = Brought(b, i, y) /\ is = Brought(b, i, y)'
  OBVIOUS
<1>2. has = had + is - was /\ is \in Nat /\ had \in Int /\ was \in Nat
  BY <1>1, ShelfByPurchase, MovedNat
<1>3. had >= 0 /\ has < 0
  BY <1>1
<1>4. was > 0 /\ is # was
  BY <1>2, <1>3
<1>5. bought'[b] = bought[b] => is = was
  BY <1>1 DEF Brought
<1> QED
  BY <1>1, <1>4, <1>5

LEMMA LackedByReturn ==
  ASSUME PurchasesTypeOK, PurchasesTypeOK', NEW t \in PurchaseReturn, NEW r,
         givenBack' = [givenBack EXCEPT ![t] = r], UNCHANGED <<bought, elsewhere>>,
         r # Null => StillThere(t, r.lines)
  PROVE  LackedByUndoing
<1> SUFFICES ASSUME NEW i \in Goods, NEW y \in Yard, OnShelf(i, y) >= 0, OnShelf(i, y)' < 0
             PROVE  FALSE
  BY DEF LackedByUndoing
<1>1. PICK had, has, rest, was, is :
         /\ had = OnShelf(i, y) /\ has = OnShelf(i, y)' /\ rest = OnShelfBut(t, i, y)
         /\ was = Returned(t, i, y) /\ is = Returned(t, i, y)'
  OBVIOUS
<1>2. /\ has = rest - is /\ had = rest - was /\ is \in Nat /\ was \in Nat /\ rest \in Int
      /\ is = IF r = Null THEN 0 ELSE Many(r.lines, i, y)
  BY ONLY <1>1, ShelfByReturn, PurchasesTypeOK, PurchasesTypeOK', t \in PurchaseReturn,
     givenBack' = [givenBack EXCEPT ![t] = r], UNCHANGED <<bought, elsewhere>>,
     i \in Goods, y \in Yard
<1>3. is > 0 => is =< rest
  BY <1>1, <1>2 DEF StillThere
<1>4. had >= 0 /\ has < 0
  BY <1>1
<1> QED
  BY <1>2, <1>3, <1>4

LEMMA ShelfInt ==
  ASSUME PurchasesTypeOK, NEW i \in Goods, NEW y \in Yard
  PROVE  OnShelf(i, y) \in Int
<1> DEFINE f == [b \in Purchase |-> Brought(b, i, y)]
<1>1. SumFunctionOnSet(f, Purchase) \in Int
  BY MovedNat, PurchaseAssumption, SumInt
<1>2. AllReturned(PurchaseReturn \ {Null}, i, y) \in Nat
  BY AllReturnedParts
<1>3. elsewhere[y][i] \in Int
  BY DEF PurchasesTypeOK
<1> QED
  BY <1>1, <1>2, <1>3 DEF OnShelf, OnShelfBut

LEMMA LackedStill ==
  ASSUME PurchasesTypeOK, UNCHANGED <<bought, givenBack, elsewhere>>
  PROVE  LackedByUndoing
<1>1. \A i, y : OnShelf(i, y)' = OnShelf(i, y)
  BY DEF OnShelf, OnShelfBut, AllReturned, Brought, Returned
<1>2. ASSUME NEW i \in Goods, NEW y \in Yard, OnShelf(i, y) >= 0, OnShelf(i, y)' < 0 PROVE FALSE
  BY <1>1, <1>2, ShelfInt
<1> QED
  BY <1>2 DEF LackedByUndoing

LEMMA LackedByTaking ==
  ASSUME PurchasesTypeOK, NEW i \in Goods, NEW y \in Yard, TakeOne(i, y)
  PROVE  LackedByUndoing
<1> SUFFICES ASSUME NEW j \in Goods, NEW z \in Yard, OnShelf(j, z) >= 0, OnShelf(j, z)' < 0
             PROVE  FALSE
  BY DEF LackedByUndoing
<1> DEFINE f == [b \in Purchase |-> Brought(b, j, z)]
<1>1. SumFunctionOnSet(f, Purchase)' = SumFunctionOnSet(f, Purchase)
  BY DEF Brought, TakeOne
<1>2. /\ AllReturned(PurchaseReturn \ {Null}, j, z)' = AllReturned(PurchaseReturn \ {Null}, j, z)
  BY DEF TakeOne, AllReturned, Returned
<1>3. SumFunctionOnSet(f, Purchase) \in Int /\ AllReturned(PurchaseReturn \ {Null}, j, z) \in Int
  <2>1. SumFunctionOnSet(f, Purchase) \in Int
    BY MovedNat, PurchaseAssumption, SumInt
  <2>2. AllReturned(PurchaseReturn \ {Null}, j, z) \in Nat
    BY AllReturnedParts
  <2> QED
    BY <2>1, <2>2
<1>4. /\ elsewhere[z][j] \in Int
      /\ elsewhere'[z][j] = IF z = y /\ j = i THEN elsewhere[z][j] - 1 ELSE elsewhere[z][j]
  BY DEF TakeOne, PurchasesTypeOK
<1>5. OnShelf(j, z)' = IF z = y /\ j = i THEN OnShelf(j, z) - 1 ELSE OnShelf(j, z)
  <2>1. /\ OnShelf(j, z) = elsewhere[z][j] + SumFunctionOnSet(f, Purchase)
                             - AllReturned(PurchaseReturn \ {Null}, j, z)
        /\ OnShelf(j, z)' = elsewhere'[z][j] + SumFunctionOnSet(f, Purchase)
                              - AllReturned(PurchaseReturn \ {Null}, j, z)
    BY <1>1, <1>2 DEF OnShelf, OnShelfBut
  <2> HIDE DEF f
  <2> QED
    BY <1>3, <1>4, <2>1
<1> QED
  BY <1>5, ShelfInt DEF TakeOne

LEMMA LackedStepHolds ==
  ASSUME PurchasesTypeOK, PurchasesTypeOK', [PurchasesNext]_purchaseVars
  PROVE  LackedByUndoing
<1>1. CASE UNCHANGED purchaseVars
  BY <1>1, LackedStill DEF purchaseVars
<1>2. ASSUME NEW b \in Purchase, NEW ls \in BoughtLines, Buy(b, ls) \/ EditPurchase(b, ls)
      PROVE  LackedByUndoing
  BY <1>2, LackedByPurchase DEF Buy, EditPurchase
<1>3. ASSUME NEW b \in Purchase, DeletePurchase(b) PROVE LackedByUndoing
  BY <1>3, LackedByPurchase DEF DeletePurchase
<1>4. ASSUME NEW q \in Buyer, NEW b \in Purchase, NEW ls \in BackLines, AskBack(q, b, ls)
      PROVE  LackedByUndoing
  BY <1>4, LackedStill DEF AskBack
<1>5. ASSUME NEW q \in Buyer, NEW t \in PurchaseReturn, PostBack(q, t) PROVE LackedByUndoing
  <2>1. PICK r : r = asking[q]
    OBVIOUS
  <2>2. /\ givenBack' = [givenBack EXCEPT ![t] = r] /\ StillThere(t, r.lines)
        /\ UNCHANGED <<bought, elsewhere>>
    BY <1>5, <2>1 DEF PostBack
  <2> QED
    BY <2>2, LackedByReturn
<1>6. ASSUME NEW t \in PurchaseReturn, NEW ls \in BoughtLines, GiveBackAtWill(t, ls) \/ EditBack(t, ls)
      PROVE  LackedByUndoing
  <2>1. PICK of : of = IF givenBack[t] = Null THEN Null ELSE givenBack[t].of
    OBVIOUS
  <2>2. PICK r : r = [of |-> of, lines |-> ls]
    OBVIOUS
  <2>3. r.lines = ls
    BY <2>2
  <2>4. /\ givenBack' = [givenBack EXCEPT ![t] = r] /\ StillThere(t, r.lines)
        /\ UNCHANGED <<bought, elsewhere>>
    BY <1>6, <2>1, <2>2, <2>3 DEF GiveBackAtWill, EditBack
  <2> QED
    BY <2>4, LackedByReturn
<1>7. ASSUME NEW t \in PurchaseReturn, DeleteBack(t) PROVE LackedByUndoing
  BY <1>7, LackedByReturn DEF DeleteBack
<1>8. ASSUME NEW q \in Buyer, RefuseBack(q) PROVE LackedByUndoing
  BY <1>8, LackedStill DEF RefuseBack
<1>9. ASSUME NEW i \in Goods, NEW y \in Yard, TakeOne(i, y) PROVE LackedByUndoing
  BY <1>9, LackedByTaking
<1> QED
  BY <1>1, <1>2, <1>3, <1>4, <1>5, <1>6, <1>7, <1>8, <1>9 DEF PurchasesNext
-----------------------------------------------------------------------------
(* Where no request comes between what another reads and what it writes,    *)
(* requests name an item once, and returns of purchases are not edited.     *)

(* What one line asks back fits what is left of the purchase.               *)
Fits(a) ==
    LET l == a.lines[1] IN
    /\ DOMAIN a.lines = {1}
    /\ AllReturned(ReturnsOf(a.of), l.item, l.store) + l.n =< Brought(a.of, l.item, l.store)

BuysAlone == ReturnedWithinBought /\ \A q \in Buyer : asking[q] # Null => Fits(asking[q])

EndsAsking == (\E q \in Buyer : asking[q] # Null) => \A q \in Buyer : asking'[q] = Null

NamesOnce == \A q \in Buyer : asking'[q] # Null => DOMAIN asking'[q].lines = {1}

KeepsReturns ==
    \A t \in PurchaseReturn : givenBack[t] # Null /\ givenBack[t].of # Null =>
        givenBack'[t] \in {givenBack[t], Null}

(* What the returns of purchase b took back.                                *)
BackOf(b, i, y) == AllReturned(ReturnsOf(b), i, y)

(* One return of a purchase comes or goes.                                  *)
LEMMA ReturnsMoved ==
  ASSUME PurchasesTypeOK, PurchasesTypeOK', NEW t \in PurchaseReturn, NEW r,
         givenBack' = [givenBack EXCEPT ![t] = r], NEW b \in Purchase,
         NEW i \in Goods, NEW y \in Yard
  PROVE  /\ BackOf(b, i, y) \in Int /\ BackOf(b, i, y)' \in Int
         /\ ~ (r # Null /\ r.of = b) =>
               BackOf(b, i, y)' =< BackOf(b, i, y)
         /\ r # Null /\ r.of = b /\ givenBack[t] = Null =>
               BackOf(b, i, y)'
                  = BackOf(b, i, y) + Many(r.lines, i, y)
<1>1. givenBack'[t] = r /\ \A u \in PurchaseReturn \ {t} : givenBack'[u] = givenBack[u]
  BY DEF PurchasesTypeOK
<1>2. PICK A, B : A = ReturnsOf(b) /\ B = ReturnsOf(b)'
  OBVIOUS
<1> DEFINE f == [u \in A |-> Returned(u, i, y)]
           g == [u \in B |-> Returned(u, i, y)']
<1>3. /\ A \subseteq PurchaseReturn /\ B \subseteq PurchaseReturn
      /\ IsFiniteSet(A) /\ IsFiniteSet(B) /\ A \ {t} = B \ {t}
  BY <1>1, <1>2, FS_Subset, PurchaseAssumption DEF ReturnsOf
<1>4. \A u \in A : f[u] \in Nat
  BY <1>3, MovedNat
<1>5. ASSUME NEW u \in B PROVE g[u] \in Nat
  <2>1. CASE u = t
    <3>1. r # Null => AreLines(r.lines)
      BY <1>1 DEF PurchasesTypeOK, AreLines
    <3>2. Returned(t, i, y)' = IF r = Null THEN 0 ELSE Many(r.lines, i, y)
      BY <1>1 DEF Returned
    <3> QED
      BY <1>5, <2>1, <3>1, <3>2, ManyParts
  <2>2. CASE u # t
    <3>1. Returned(u, i, y)' = Returned(u, i, y)
      BY <1>1, <1>3, <2>2 DEF Returned
    <3> QED
      BY <1>3, <3>1, MovedNat
  <2> QED
    BY <2>1, <2>2
<1>6. \A u \in B \ {t} : g[u] = f[u]
  BY <1>1, <1>3 DEF Returned
<1>7. /\ AllReturned(ReturnsOf(b), i, y) = SumFunctionOnSet(f, A)
      /\ AllReturned(ReturnsOf(b), i, y)' = SumFunctionOnSet(g, B)
  BY <1>2 DEF AllReturned
<1>8. /\ t \in B <=> r # Null /\ r.of = b
      /\ t \in A => givenBack[t] # Null
  BY <1>1, <1>2 DEF ReturnsOf
<1>9. t \in B => g[t] = Many(r.lines, i, y)
  BY <1>1, <1>8 DEF Returned
<1>10. /\ SumFunctionOnSet(f, A) \in Int /\ SumFunctionOnSet(g, B) \in Int
       /\ t \notin B => SumFunctionOnSet(g, B) =< SumFunctionOnSet(f, A)
       /\ t \in B /\ t \notin A => SumFunctionOnSet(g, B) = SumFunctionOnSet(f, A) + g[t]
  <2> HIDE DEF f, g
  <2> QED
    BY <1>3, <1>4, <1>5, <1>6, SumOneMoved
<1>11. BackOf(b, i, y) = SumFunctionOnSet(f, A) /\ BackOf(b, i, y)' = SumFunctionOnSet(g, B)
  BY <1>7 DEF BackOf
<1> HIDE DEF f, g
<1> QED
  BY <1>8, <1>9, <1>10, <1>11

LEMMA WithinByPurchase ==
  ASSUME PurchasesTypeOK, PurchasesTypeOK', ReturnedWithinBought, NEW b \in Purchase, NEW r,
         bought' = [bought EXCEPT ![b] = r], givenBack' = givenBack,
         bought[b] = Null \/ ReturnsOf(b) = {}
  PROVE  ReturnedWithinBought'
<1>1. ASSUME NEW c \in Purchase, NEW i \in Goods, NEW y \in Yard
      PROVE  /\ AllReturned(ReturnsOf(c), i, y)' = AllReturned(ReturnsOf(c), i, y)
             /\ AllReturned(ReturnsOf(c), i, y) \in Nat
             /\ AllReturned(ReturnsOf(c), i, y) =< Brought(c, i, y)
             /\ c # b => Brought(c, i, y)' = Brought(c, i, y)
  <2>1. ReturnsOf(c)' = ReturnsOf(c) /\ ReturnsOf(c) \in SUBSET PurchaseReturn
    BY DEF ReturnsOf
  <2>2. AllReturned(ReturnsOf(c), i, y)' = AllReturned(ReturnsOf(c), i, y)
    BY <2>1 DEF AllReturned, Returned
  <2>3. c # b => Brought(c, i, y)' = Brought(c, i, y)
    BY DEF Brought, PurchasesTypeOK
  <2> QED
    BY <2>1, <2>2, <2>3, AllReturnedParts DEF ReturnedWithinBought
<1>2. ASSUME NEW i \in Goods, NEW y \in Yard
      PROVE  AllReturned(ReturnsOf(b), i, y)' =< Brought(b, i, y)'
  <2>1. AllReturned(ReturnsOf(b), i, y) = 0
    <3>1. CASE bought[b] = Null
      BY <1>1, <3>1 DEF Brought
    <3>2. CASE ReturnsOf(b) = {}
      BY <3>2, SumEmpty DEF AllReturned
    <3> QED
      BY <3>1, <3>2
  <2>2. Brought(b, i, y)' \in Nat
    <3>1. PICK x : x = bought'[b]
      OBVIOUS
    <3>2. x = Null \/ AreLines(x)
      BY <3>1, BoughtLinesAreLines DEF PurchasesTypeOK
    <3>3. Brought(b, i, y)' = IF x = Null THEN 0 ELSE Many(x, i, y)
      BY <3>1 DEF Brought
    <3> QED
      BY <3>2, <3>3, ManyParts
  <2> QED
    BY <1>1, <2>1, <2>2
<1>3. ASSUME NEW c \in Purchase, NEW i \in Goods, NEW y \in Yard
      PROVE  AllReturned(ReturnsOf(c), i, y)' =< Brought(c, i, y)'
  BY <1>1, <1>2
<1> QED
  BY <1>3 DEF ReturnedWithinBought
(* A return that is of purchase b and fits it, of none, or gone.            *)
LEMMA WithinByReturn ==
  ASSUME PurchasesTypeOK, PurchasesTypeOK', ReturnedWithinBought, NEW t \in PurchaseReturn, NEW r,
         givenBack' = [givenBack EXCEPT ![t] = r], bought' = bought,
         r # Null /\ r.of # Null =>
            /\ givenBack[t] = Null
            /\ \A i \in Goods, y \in Yard :
                  AllReturned(ReturnsOf(r.of), i, y) + Many(r.lines, i, y) =< Brought(r.of, i, y)
  PROVE  ReturnedWithinBought'
<1> SUFFICES ASSUME NEW b \in Purchase, NEW i \in Goods, NEW y \in Yard
             PROVE  AllReturned(ReturnsOf(b), i, y)' =< Brought(b, i, y)'
  BY DEF ReturnedWithinBought
<1>1. PICK was, is, brought : /\ was = BackOf(b, i, y)
                              /\ is = BackOf(b, i, y)'
                              /\ brought = Brought(b, i, y)
  OBVIOUS
<1>2. /\ was \in Int /\ is \in Int
      /\ ~ (r # Null /\ r.of = b) => is =< was
      /\ r # Null /\ r.of = b /\ givenBack[t] = Null => is = was + Many(r.lines, i, y)
  BY ONLY <1>1, ReturnsMoved, PurchasesTypeOK, PurchasesTypeOK', t \in PurchaseReturn,
     givenBack' = [givenBack EXCEPT ![t] = r], b \in Purchase, i \in Goods, y \in Yard
<1>3. brought \in Nat /\ was =< brought
  BY <1>1, MovedNat DEF ReturnedWithinBought, BackOf
<1>4. Brought(b, i, y)' = brought
  BY <1>1 DEF Brought
<1>5. CASE r # Null /\ r.of = b
  <2>1. b # Null
    BY PurchaseNull
  <2>2. is = was + Many(r.lines, i, y) /\ was + Many(r.lines, i, y) =< brought
    BY <1>1, <1>2, <1>5, <2>1 DEF BackOf
  <2> QED
    BY <1>1, <1>4, <2>2 DEF BackOf
<1>6. CASE ~ (r # Null /\ r.of = b)
  BY <1>1, <1>2, <1>3, <1>4, <1>6 DEF BackOf
<1> QED
  BY <1>5, <1>6

(* One line that was let through fits what is left.                         *)
LEMMA AskedFits ==
  ASSUME PurchasesTypeOK, NEW q \in Buyer, NEW b \in Purchase, NEW ls \in BackLines, AskBack(q, b, ls),
         DOMAIN ls = {1}
  PROVE  Fits(AskedBack(b, ls))
<1>1. PICK i, n, last : i = ls[1].item /\ n = ls[1].n /\ last = LastLine(b, i)
  OBVIOUS
<1>2. /\ bought[b] # Null /\ i \in Listed(b) /\ GivenBackBefore(b, i) + n =< last.n
  BY <1>1 DEF AskBack
<1>3. PICK k \in DOMAIN bought[b] : last = bought[b][k] /\ bought[b][k].item = i
  BY <1>1, <1>2, LastLineListed
<1>4. AreLines(bought[b])
  BY <1>2, BoughtLinesAreLines DEF PurchasesTypeOK
<1>5. PICK y : y = last.store
  OBVIOUS
<1>6. y \in Yard /\ last.n =< Many(bought[b], i, y) /\ last.n \in Nat /\ Many(bought[b], i, y) \in Nat
  BY <1>3, <1>4, <1>5, ManyParts DEF AreLines
<1> DEFINE f == [z \in Yard |-> AllReturned(ReturnsOf(b), i, z)]
<1>7. ReturnsOf(b) \in SUBSET PurchaseReturn
  BY DEF ReturnsOf
<1>8. \A z \in Yard : f[z] \in Nat
  BY <1>7, AllReturnedParts
<1>9. SumFunctionOnSet(f, Yard) \in Nat /\ f[y] =< SumFunctionOnSet(f, Yard)
  <2> HIDE DEF f
  <2> QED
    BY <1>6, <1>8, SumBounds, PurchaseAssumption
<1>10. AllReturned(ReturnsOf(b), i, y) =< GivenBackBefore(b, i) /\ GivenBackBefore(b, i) \in Nat
       /\ AllReturned(ReturnsOf(b), i, y) \in Nat
  BY <1>6, <1>8, <1>9 DEF GivenBackBefore
<1>11. n \in Nat
  <2> DEFINE LineRow == [item : Goods, n : Nat]
  <2>1. ls \in Seq(LineRow)
    BY PurchaseAssumption
  <2>2. DOMAIN ls = 1 .. Len(ls) /\ 1 \in DOMAIN ls
    <3>1. DOMAIN ls = 1 .. Len(ls)
      <4> HIDE DEF LineRow
      <4> QED
        BY ONLY <2>1
    <3>2. 1 \in DOMAIN ls
      OBVIOUS
    <3> QED
      BY <3>1, <3>2
  <2>3. ls[1] \in LineRow
    <3> HIDE DEF LineRow
    <3> QED
      BY <2>1, <2>2
  <2> QED
    BY <1>1, <2>3
<1>12. AllReturned(ReturnsOf(b), i, y) + n =< Many(bought[b], i, y)
  BY <1>2, <1>6, <1>10, <1>11
<1>13. PICK a : a = AskedBack(b, ls)
  OBVIOUS
<1>14. /\ a.of = b /\ DOMAIN a.lines = {1} /\ a.lines[1].item = i /\ a.lines[1].n = n
       /\ a.lines[1].store = y
  BY <1>1, <1>5, <1>13 DEF AskedBack
<1>15. AllReturned(ReturnsOf(a.of), a.lines[1].item, a.lines[1].store) + a.lines[1].n
          =< Brought(a.of, a.lines[1].item, a.lines[1].store)
  BY <1>2, <1>12, <1>14 DEF Brought
<1> QED
  BY <1>13, <1>14, <1>15 DEF Fits

LEMMA BuysAloneStep ==
  ASSUME PurchasesTypeOK, PurchasesTypeOK', BuysAlone, PurchasesNext, EndsAsking, NamesOnce, KeepsReturns
  PROVE  BuysAlone'
<1>1. asking = [q \in Buyer |-> asking[q]]
  BY DEF PurchasesTypeOK
<1>2. ASSUME ReturnedWithinBought', UNCHANGED asking PROVE BuysAlone'
  BY <1>2 DEF BuysAlone, EndsAsking
<1>3. ASSUME NEW b \in Purchase, NEW ls \in BoughtLines, Buy(b, ls) \/ EditPurchase(b, ls)
      PROVE  BuysAlone'
  BY <1>2, <1>3, WithinByPurchase DEF Buy, EditPurchase, PurchaseEditable, BuysAlone
<1>4. ASSUME NEW b \in Purchase, DeletePurchase(b) PROVE BuysAlone'
  BY <1>2, <1>4, WithinByPurchase DEF DeletePurchase, PurchaseEditable, BuysAlone
<1>5. ASSUME NEW q \in Buyer, NEW b \in Purchase, NEW ls \in BackLines, AskBack(q, b, ls)
      PROVE  BuysAlone'
  <2>1. PICK a : a = AskedBack(b, ls)
    OBVIOUS
  <2>2. asking' = [asking EXCEPT ![q] = a] /\ UNCHANGED <<bought, givenBack>>
    <3>1. asking' = [asking EXCEPT ![q] = AskedBack(b, ls)]
      BY <1>5, AskBackParts
    <3>2. UNCHANGED <<bought, givenBack>>
      BY <1>5 DEF AskBack
    <3> QED
      BY <2>1, <3>1, <3>2
  <2>3. ReturnedWithinBought'
    BY <2>2 DEF BuysAlone, ReturnedWithinBought, AllReturned, ReturnsOf, Returned, Brought
  <2>4. asking'[q] = a
    BY <1>1, <2>2
  <2>5. \A p \in Buyer : asking'[p] # Null => asking'[p] = a
    BY <1>1, <2>2 DEF EndsAsking
  <2>6. a # Null => Fits(a)
    <3>1. a # Null => DOMAIN a.lines = {1}
      BY <2>4 DEF NamesOnce
    <3>2. DOMAIN a.lines = DOMAIN ls
      BY <2>1 DEF AskedBack
    <3> QED
      BY <1>5, <2>1, <3>1, <3>2, AskedFits
  <2>7. Fits(a)' <=> Fits(a)
    BY <2>2 DEF Fits, AllReturned, ReturnsOf, Returned, Brought
  <2>8. ASSUME NEW p \in Buyer, asking'[p] # Null PROVE Fits(asking[p])'
    <3>1. asking'[p] = a /\ Fits(a)'
      BY <2>5, <2>6, <2>7, <2>8
    <3> QED
      BY <3>1 DEF Fits
  <2> QED
    BY <2>3, <2>8 DEF BuysAlone
<1>6. ASSUME NEW q \in Buyer, NEW t \in PurchaseReturn, PostBack(q, t) PROVE BuysAlone'
  <2>1. PICK r : r = asking[q]
    OBVIOUS
  <2>2. /\ r # Null /\ givenBack[t] = Null /\ givenBack' = [givenBack EXCEPT ![t] = r]
        /\ bought' = bought /\ Fits(r) /\ r.of \in Purchase /\ AreLines(r.lines)
    BY <1>6, <2>1 DEF PostBack, BuysAlone, PurchasesTypeOK
  <2>3. ASSUME NEW i \in Goods, NEW y \in Yard
        PROVE  AllReturned(ReturnsOf(r.of), i, y) + Many(r.lines, i, y) =< Brought(r.of, i, y)
    <3>1. DOMAIN r.lines = {1}
      BY <2>2 DEF Fits
    <3>2. Many(r.lines, i, y)
             = IF r.lines[1].item = i /\ r.lines[1].store = y THEN r.lines[1].n ELSE 0
      BY <2>2, <3>1, ManyOfOne
    <3>3. AllReturned(ReturnsOf(r.of), i, y) =< Brought(r.of, i, y)
      BY <2>2 DEF BuysAlone, ReturnedWithinBought
    <3>4. AllReturned(ReturnsOf(r.of), i, y) \in Nat
      <4>1. ReturnsOf(r.of) \in SUBSET PurchaseReturn
        BY DEF ReturnsOf
      <4> QED
        BY <4>1, AllReturnedParts
    <3> QED
      BY <2>2, <3>2, <3>3, <3>4 DEF Fits
  <2>4. ReturnedWithinBought'
    BY <2>2, <2>3, WithinByReturn DEF BuysAlone
  <2>5. \A p \in Buyer : asking'[p] = Null
    BY <2>1, <2>2 DEF EndsAsking
  <2> QED
    BY <2>4, <2>5 DEF BuysAlone
<1>7. ASSUME NEW t \in PurchaseReturn, NEW ls \in BoughtLines, GiveBackAtWill(t, ls) \/ EditBack(t, ls)
      PROVE  BuysAlone'
  <2>1. PICK of : of = IF givenBack[t] = Null THEN Null ELSE givenBack[t].of
    OBVIOUS
  <2>2. PICK r : r = [of |-> of, lines |-> ls]
    OBVIOUS
  <2>3. r.of = of
    BY <2>2
  <2>4. givenBack' = [givenBack EXCEPT ![t] = r] /\ UNCHANGED <<bought, asking>>
    BY <1>7, <2>1, <2>2 DEF GiveBackAtWill, EditBack
  <2>5. CASE of = Null
    BY <1>2, <2>3, <2>4, <2>5, WithinByReturn DEF BuysAlone
  <2>6. CASE of # Null
    <3>1. givenBack'[t] \in {givenBack[t], Null} /\ givenBack'[t] = r
      BY <2>1, <2>4, <2>6 DEF KeepsReturns, PurchasesTypeOK
    <3>2. CASE r = Null
      BY <1>2, <2>4, <3>2, WithinByReturn DEF BuysAlone
    <3>3. CASE r = givenBack[t]
      <4>1. givenBack' = givenBack
        BY <2>4, <3>3 DEF PurchasesTypeOK
      <4>2. ReturnedWithinBought'
        BY <2>4, <4>1 DEF BuysAlone, ReturnedWithinBought, AllReturned, ReturnsOf, Returned, Brought
      <4> QED
        BY <1>2, <2>4, <4>2
    <3> QED
      BY <3>1, <3>2, <3>3
  <2> QED
    BY <2>5, <2>6
<1>8. ASSUME NEW t \in PurchaseReturn, DeleteBack(t) PROVE BuysAlone'
  BY <1>2, <1>8, WithinByReturn DEF DeleteBack, BuysAlone
<1>9. ASSUME UNCHANGED <<bought, givenBack>> PROVE ReturnedWithinBought'
  BY <1>9 DEF BuysAlone, ReturnedWithinBought, AllReturned, ReturnsOf, Returned, Brought
<1>10. ASSUME NEW q \in Buyer, RefuseBack(q) PROVE BuysAlone'
  <2>1. \A p \in Buyer : asking'[p] = Null
    BY <1>10 DEF RefuseBack, EndsAsking
  <2> QED
    BY <1>9, <1>10, <2>1 DEF RefuseBack, BuysAlone
<1>11. ASSUME NEW i \in Goods, NEW y \in Yard, TakeOne(i, y) PROVE BuysAlone'
  BY <1>2, <1>9, <1>11 DEF TakeOne
<1> QED
  BY <1>3, <1>4, <1>5, <1>6, <1>7, <1>8, <1>10, <1>11 DEF PurchasesNext
PurchasesWorld == PurchasesTypeOK /\ (world = "purchases_alone" => BuysAlone)

LEMMA PurchasesWorldFirst ==
  ASSUME PurchasesInit
  PROVE  PurchasesWorld
<1>1. PurchasesTypeOK
  BY DEF PurchasesInit, PurchasesTypeOK
<1>2. ASSUME NEW b \in Purchase, NEW i \in Goods, NEW y \in Yard
      PROVE  AllReturned(ReturnsOf(b), i, y) =< Brought(b, i, y)
  <2>1. ReturnsOf(b) = {}
    BY DEF ReturnsOf, PurchasesInit
  <2>2. AllReturned(ReturnsOf(b), i, y) = 0
    BY <2>1, SumEmpty DEF AllReturned
  <2>3. Brought(b, i, y) = 0
    BY DEF Brought, PurchasesInit
  <2> QED
    BY <2>2, <2>3
<1>3. \A q \in Buyer : asking[q] = Null
  BY DEF PurchasesInit
<1> QED
  BY <1>1, <1>2, <1>3 DEF PurchasesWorld, BuysAlone, ReturnedWithinBought

LEMMA PurchasesWorldStep ==
  ASSUME PurchasesWorld, [Next]_vars
  PROVE  PurchasesWorld' /\ LackedByUndoing
<1>1. CASE UNCHANGED <<world, purchaseVars>>
  <2>1. UNCHANGED <<world, bought, givenBack, asking, elsewhere>>
    BY <1>1 DEF purchaseVars
  <2>2. PurchasesTypeOK'
    BY <2>1 DEF PurchasesWorld, PurchasesTypeOK, AreLines
  <2>3. BuysAlone' <=> BuysAlone
    BY <2>1 DEF BuysAlone, ReturnedWithinBought, Fits, AllReturned, ReturnsOf, Returned, Brought
  <2>4. LackedByUndoing
    BY <1>1, <2>2, LackedStepHolds DEF PurchasesWorld
  <2> QED
    BY <2>1, <2>2, <2>3, <2>4 DEF PurchasesWorld
<1>2. CASE In({"purchases", "purchases_alone"}, PurchasesStep, <<reconcileVars, paperVars, assetVars>>)
  <2>1. PurchasesStep /\ PurchasesNext /\ world' = world
    BY <1>2 DEF In, PurchasesStep
  <2>2. PurchasesTypeOK'
    BY <2>1, PurchaseTypeStep DEF PurchasesWorld
  <2>3. LackedByUndoing
    BY <2>1, <2>2, LackedStepHolds DEF PurchasesWorld
  <2>4. ASSUME world = "purchases_alone" PROVE BuysAlone'
    <3>1. EndsAsking /\ NamesOnce /\ KeepsReturns
      BY <2>1, <2>4 DEF PurchasesStep, EndsAsking, NamesOnce, KeepsReturns
    <3> QED
      BY <2>1, <2>2, <2>4, <3>1, BuysAloneStep DEF PurchasesWorld
  <2> QED
    BY <2>1, <2>2, <2>3, <2>4 DEF PurchasesWorld
<1> QED
  BY <1>1, <1>2 DEF Next, In, vars

(* One request at a time, what goes back of a purchase was bought on it,    *)
(* where it leaves from, and no more than that: the lines let through by    *)
(* return_purchase still fit when they are posted, and a purchase with      *)
(* returns is left alone (document_edit_service.py:                         *)
(* assert_purchase_editable).                                               *)
THEOREM GivenBackWasBought == Spec => []ReturnedWithinBoughtAlone
<1>1. Init => PurchasesWorld
  BY PurchasesWorldFirst DEF Init
<1>2. PurchasesWorld /\ [Next]_vars => PurchasesWorld'
  BY PurchasesWorldStep
<1>3. PurchasesWorld => ReturnedWithinBoughtAlone
  BY DEF PurchasesWorld, BuysAlone, ReturnedWithinBoughtAlone
<1> QED
  BY <1>1, <1>2, <1>3, PTL DEF Spec

(* However requests race, a place comes to lack goods only by the edit or   *)
(* deletion of a purchase that brought them (document_edit_service.py:      *)
(* purge_purchase): every other document asks the shelf first               *)
(* (stock_service.py: post_movement).                                       *)
THEOREM LackedOnlyByUndoing == Spec => LackedStep
<1>1. Init => PurchasesWorld
  BY PurchasesWorldFirst DEF Init
<1>2. PurchasesWorld /\ [Next]_vars => PurchasesWorld'
  BY PurchasesWorldStep
<1>3. PurchasesWorld /\ [Next]_vars => [LackedByUndoing]_vars
  BY PurchasesWorldStep
<1> QED
  BY <1>1, <1>2, <1>3, PTL DEF Spec, LackedStep

-----------------------------------------------------------------------------
(* Permits, wastage, counts and sales. *)

(* Lots: what a store has by date.                                          *)
Lotted == [Depot -> [BestDay -> Int]]
Lots(b, s) == SumFunctionOnSet(b[s], BestDay)

LEMMA FirstOutSum ==
  ASSUME NEW b \in Lotted, NEW s \in Depot, NEW n \in Nat, n =< InBatches(b, s)
  PROVE  /\ FirstOut(b, s, n) \in [BestDay -> Nat]
         /\ SumFunctionOnSet(FirstOut(b, s, n), BestDay) = n
         /\ n > 0 => \E d \in BestDay : FirstOut(b, s, n)[d] > 0
<1> DEFINE u == Usable(b, s)
           f == FirstOut(b, s, n)
           below(k) == {c \in BestDay : c < k}
           B(k) == SumFunctionOnSet(u, below(k))
           F(k) == SumFunctionOnSet(f, below(k))
<1>1. BestDay \subseteq Nat /\ IsFiniteSet(BestDay)
  BY BestDayAssumption
<1>2. u \in [BestDay -> Nat]
  BY DEF Usable, Lotted
<1>3. \A k \in Nat : IsFiniteSet(below(k)) /\ B(k) \in Nat
  <2> SUFFICES ASSUME NEW k \in Nat PROVE IsFiniteSet(below(k)) /\ B(k) \in Nat
    OBVIOUS
  <2>1. IsFiniteSet(below(k))
    BY <1>1, FS_Subset
  <2>2. \A x \in below(k) : u[x] \in Nat
    BY <1>2
  <2> HIDE DEF u, below
  <2> QED
    BY <2>1, <2>2, SumBounds
<1>4. \A d \in BestDay : f[d] = IF u[d] < (IF n > B(d) THEN n - B(d) ELSE 0) THEN u[d]
                               ELSE (IF n > B(d) THEN n - B(d) ELSE 0)
  BY DEF FirstOut
<1>5. f = [d \in BestDay |-> f[d]]
  BY DEF FirstOut
<1>6. \A d \in BestDay : d \in Nat /\ u[d] \in Nat /\ B(d) \in Nat
  BY <1>1, <1>2, <1>3
<1> HIDE DEF u, f, B
<1>7. f \in [BestDay -> Nat]
  BY <1>4, <1>5, <1>6
<1> HIDE DEF F
<1>12. /\ below(0) = {}
       /\ \A k \in Nat : k \notin BestDay => below(k + 1) = below(k)
       /\ \A k \in BestDay : below(k + 1) = below(k) \cup {k} /\ k \notin below(k)
  <2>1. \A c \in BestDay : \A k \in Nat : ~ (c < 0) /\ (c < k + 1 <=> c < k \/ c = k) /\ ~ (k < k)
    BY <1>1
  <2>2. \A k \in BestDay : k \in Nat
    BY <1>1
  <2> QED
    BY ONLY <2>1, <2>2
<1> HIDE DEF below
<1> DEFINE Bad == {k \in Nat : F(k) # IF n < B(k) THEN n ELSE B(k)}
<1>8. Bad = {}
  <2> SUFFICES ASSUME Bad # {} PROVE FALSE
    OBVIOUS
  <2>1. PICK k \in Bad : \A j \in Bad : k =< j
    BY LeastNat
  <2>2. k # 0
    <3>1. F(0) = 0 /\ B(0) = 0
      BY <1>12, SumEmpty DEF B, F
    <3> QED
      BY <2>1, <3>1
  <2>3. k \in Nat /\ k - 1 \in Nat /\ k - 1 \notin Bad
    BY <2>1, <2>2
  <2> DEFINE d == k - 1
  <2>4. F(d) = IF n < B(d) THEN n ELSE B(d)
    BY <2>3
  <2>5. CASE d \notin BestDay
    <3>1. below(k) = below(d)
      BY <1>12, <2>3, <2>5
    <3>2. F(k) = F(d) /\ B(k) = B(d)
      BY <3>1 DEF B, F
    <3> QED
      BY <2>1, <2>4, <3>2
  <2>6. CASE d \in BestDay
    <3>1. below(k) = below(d) \cup {d} /\ d \notin below(d)
      BY <1>12, <2>3, <2>6
    <3>2. IsFiniteSet(below(d)) /\ \A x \in below(d) : u[x] \in Int /\ f[x] \in Int
      BY <1>2, <1>3, <1>7, <2>3 DEF below
    <3>3. u[d] \in Nat /\ f[d] \in Nat /\ B(d) \in Nat /\ B(k) \in Nat
      BY <1>6, <1>7, <1>3, <2>3, <2>6
    <3>4. B(k) = B(d) + u[d]
      <4> HIDE DEF d
      <4>1. u[d] \in Int /\ \A y \in below(d) : u[y] = u[y]
        BY <3>3
      <4> QED
        BY <3>1, <3>2, <4>1, SumAdd DEF B
    <3>5. F(k) = F(d) + f[d]
      <4> HIDE DEF d
      <4>1. f[d] \in Int /\ \A y \in below(d) : f[y] = f[y]
        BY <3>3
      <4> QED
        BY <3>1, <3>2, <4>1, SumAdd DEF F
    <3>6. f[d] = IF u[d] < (IF n > B(d) THEN n - B(d) ELSE 0) THEN u[d]
                               ELSE (IF n > B(d) THEN n - B(d) ELSE 0)
      BY <1>4, <2>6
    <3>7. F(k) = IF n < B(k) THEN n ELSE B(k)
      BY <2>4, <3>3, <3>4, <3>5, <3>6
    <3> QED
      BY <2>1, <3>7
  <2> QED
    BY <2>5, <2>6
<1>9. PICK k \in Nat : below(k) = BestDay
  <2>1. CASE BestDay = {}
    BY <1>12, <2>1 DEF below
  <2>2. CASE BestDay # {}
    <3> DEFINE rank == [x \in BestDay |-> x]
    <3>1. \A x \in BestDay : rank[x] \in Int
      BY <1>1
    <3>2. PICK m \in BestDay : \A x \in BestDay : rank[x] =< rank[m]
      <4> HIDE DEF rank
      <4> QED
        BY <1>1, <2>2, <3>1, HighestExists
    <3>3. \A x \in BestDay : x =< m /\ x \in Nat /\ m \in Nat
      BY <1>1, <3>2
    <3> HIDE DEF rank
    <3>4. below(m + 1) = BestDay
      BY <3>3 DEF below
    <3> QED
      BY <3>3, <3>4
  <2> QED
    BY <2>1, <2>2
<1>10. SumFunctionOnSet(f, BestDay) = n
  <2>1. B(k) = InBatches(b, s)
    BY <1>9 DEF B, u, InBatches
  <2>2. F(k) = IF n < B(k) THEN n ELSE B(k)
    BY <1>8
  <2>3. F(k) = SumFunctionOnSet(f, BestDay)
    BY <1>9 DEF F
  <2>4. B(k) \in Nat
    BY <1>3
  <2> QED
    BY <2>1, <2>2, <2>3, <2>4
<1>11. ASSUME n > 0, ~ \E d \in BestDay : f[d] > 0 PROVE FALSE
  <2>1. \A d \in BestDay : f[d] \in Int /\ f[d] =< 0
    BY <1>7, <1>11
  <2>2. SumFunctionOnSet(f, BestDay) =< 0
    BY <1>1, <2>1, SumNotPositive
  <2> QED
    BY <1>10, <1>11, <2>2
<1> QED
  BY <1>7, <1>10, <1>11 DEF f

LEMMA LotsAdded ==
  ASSUME NEW b \in Lotted, NEW g \in Lotted
  PROVE  /\ Added(b, g) \in Lotted
         /\ \A s \in Depot : Lots(b, s) \in Int /\ Lots(Added(b, g), s) = Lots(b, s) + Lots(g, s)
<1>1. Added(b, g) = [s \in Depot |-> [d \in BestDay |-> b[s][d] + g[s][d]]]
  BY DEF Added, Lotted
<1>2. Added(b, g) \in Lotted
  BY <1>1 DEF Lotted
<1>3. ASSUME NEW s \in Depot
      PROVE  Lots(b, s) \in Int /\ Lots(Added(b, g), s) = Lots(b, s) + Lots(g, s)
  <2> DEFINE h == Added(b, g)[s]
  <2>1. \A x \in BestDay : b[s][x] \in Int /\ g[s][x] \in Int /\ h[x] = b[s][x] + g[s][x]
    BY <1>1 DEF Lotted
  <2> HIDE DEF h
  <2>2. SumFunctionOnSet(h, BestDay) = SumFunctionOnSet(b[s], BestDay) + SumFunctionOnSet(g[s], BestDay)
    <3>1. PICK x : x = b[s]
      OBVIOUS
    <3>2. PICK y : y = g[s]
      OBVIOUS
    <3>3. IsFiniteSet(BestDay) /\ \A d \in BestDay : x[d] \in Int /\ y[d] \in Int /\ h[d] = x[d] + y[d]
      BY <2>1, <3>1, <3>2, BestDayAssumption
    <3>4. SumFunctionOnSet(h, BestDay) = SumFunctionOnSet(x, BestDay) + SumFunctionOnSet(y, BestDay)
      BY ONLY <3>3, SumPlus
    <3> QED
      BY <3>1, <3>2, <3>4
  <2>3. SumFunctionOnSet(b[s], BestDay) \in Int
    BY <2>1, SumInt, BestDayAssumption
  <2> QED
    BY <2>2, <2>3 DEF Lots, h
<1> QED
  BY <1>2, <1>3

LEMMA LotsRemoved ==
  ASSUME NEW b \in Lotted, NEW g \in Lotted
  PROVE  /\ Removed(b, g) \in Lotted
         /\ \A s \in Depot : Lots(g, s) \in Int /\ Lots(Removed(b, g), s) = Lots(b, s) - Lots(g, s)
<1>1. Removed(b, g) = [s \in Depot |-> [d \in BestDay |-> b[s][d] - g[s][d]]]
  BY DEF Removed, Lotted
<1>2. PICK r : r = Removed(b, g)
  OBVIOUS
<1>3. r \in Lotted
  BY <1>1, <1>2 DEF Lotted
<1>4. b = Added(r, g)
  BY <1>1, <1>2 DEF Lotted, Added
<1>5. \A s \in Depot : Lots(r, s) \in Int /\ Lots(g, s) \in Int /\ Lots(b, s) = Lots(r, s) + Lots(g, s)
  BY <1>3, <1>4, LotsAdded
<1> QED
  BY <1>2, <1>3, <1>5

LEMMA LotsOfNothing ==
  NoBatch \in Lotted /\ \A s \in Depot : Lots(NoBatch, s) = 0
<1>1. NoBatch \in Lotted
  BY DEF NoBatch, Lotted
<1>2. ASSUME NEW s \in Depot PROVE Lots(NoBatch, s) = 0
  <2>1. \A x \in BestDay : NoBatch[s][x] \in Int
    BY DEF NoBatch
  <2>2. \A x \in BestDay \ {} : NoBatch[s][x] = 0
    BY DEF NoBatch
  <2>3. SumFunctionOnSet(NoBatch[s], BestDay) = SumFunctionOnSet(NoBatch[s], {})
    BY <2>1, <2>2, SumSupport, BestDayAssumption
  <2> QED
    BY <2>3, SumEmpty DEF Lots
<1> QED
  BY <1>1, <1>2

LEMMA LotsAt ==
  ASSUME NEW s \in Depot, NEW g \in [BestDay -> Int]
  PROVE  /\ At(s, g) \in Lotted
         /\ \A t \in Depot : Lots(At(s, g), t) = IF t = s THEN SumFunctionOnSet(g, BestDay) ELSE 0
<1>1. At(s, g) = [t \in Depot |-> IF t = s THEN g ELSE [x \in BestDay |-> 0]]
  BY DEF At
<1>2. At(s, g) \in Lotted
  BY <1>1 DEF Lotted
<1>3. Lots(At(s, g), s) = SumFunctionOnSet(g, BestDay)
  BY <1>1 DEF Lots
<1>4. ASSUME NEW t \in Depot, t # s PROVE Lots(At(s, g), t) = 0
  <2>1. At(s, g)[t] = NoBatch[t]
    BY <1>1, <1>4 DEF NoBatch
  <2>2. Lots(At(s, g), t) = Lots(NoBatch, t)
    BY <2>1 DEF Lots
  <2> QED
    BY <2>2, LotsOfNothing
<1> QED
  BY <1>2, <1>3, <1>4

LEMMA SumInto ==
  ASSUME NEW d \in BestDay, NEW n \in Nat
  PROVE  Into(d, n) \in [BestDay -> Int] /\ SumFunctionOnSet(Into(d, n), BestDay) = n
<1> DEFINE f == Into(d, n)
<1>1. f \in [BestDay -> Int] /\ f[d] = n /\ \A x \in BestDay \ {d} : f[x] = 0
  BY DEF Into
<1> HIDE DEF f
<1>2. SumFunctionOnSet(f, BestDay) = SumFunctionOnSet(f, {d})
  BY <1>1, SumSupport, BestDayAssumption
<1>3. SumFunctionOnSet(f, {d}) = f[d] + SumFunctionOnSet(f, {d} \ {d})
  BY <1>1, SumRemove, FS_Singleton
<1>4. {d} \ {d} = {}
  OBVIOUS
<1> QED
  BY <1>1, <1>2, <1>3, <1>4, SumEmpty DEF f

Sign(kind) == IF kind = "issue" THEN -1 ELSE 1
Delta(kind, s, L, i, t) ==
    IF t = s /\ i \in DOMAIN L THEN Sign(kind) * L[i].n ELSE 0

(* A permit does to the lots what it moves of the item that perishes.       *)
LEMMA ChangeOfLots ==
  ASSUME NEW b \in Lotted, NEW kind \in {"receipt", "issue"}, NEW s \in Depot,
         NEW L, AreLinesOf(L, DOMAIN L),
         kind = "issue" => (Fresh \in DOMAIN L => L[Fresh].n =< InBatches(b, s))
  PROVE  /\ BatchChange(b, kind, s, L) \in Lotted
         /\ \A t \in Depot : Lots(BatchChange(b, kind, s, L), t) = Delta(kind, s, L, Fresh, t)
<1>1. CASE Fresh \notin DOMAIN L
  <2>1. BatchChange(b, kind, s, L) = NoBatch
    BY <1>1 DEF BatchChange
  <2>2. \A t \in Depot : Delta(kind, s, L, Fresh, t) = 0
    BY <1>1 DEF Delta
  <2> QED
    BY <2>1, <2>2, LotsOfNothing
<1> DEFINE n == L[Fresh].n
           d == L[Fresh].day
<1>2. CASE Fresh \in DOMAIN L
  <2>1. n \in Nat /\ d \in BestDay
    BY <1>2 DEF AreLinesOf
  <2>2. CASE kind = "receipt"
    <3>1. BatchChange(b, kind, s, L) = At(s, Into(d, n))
      BY <1>2, <2>2 DEF BatchChange
    <3> HIDE DEF n, d
    <3>2. Into(d, n) \in [BestDay -> Int] /\ SumFunctionOnSet(Into(d, n), BestDay) = n
      BY <2>1, SumInto
    <3>3. /\ At(s, Into(d, n)) \in Lotted
          /\ \A t \in Depot : Lots(At(s, Into(d, n)), t) = IF t = s THEN n ELSE 0
      BY <3>2, LotsAt
    <3>4. \A t \in Depot : Delta(kind, s, L, Fresh, t) = IF t = s THEN n ELSE 0
      BY <1>2, <2>1, <2>2 DEF Delta, Sign, n
    <3> QED
      BY <3>1, <3>3, <3>4
  <2>3. CASE kind = "issue"
    <3> DEFINE o == FirstOut(b, s, n)
    <3>1. BatchChange(b, kind, s, L) = Removed(NoBatch, At(s, o))
      BY <1>2, <2>3 DEF BatchChange
    <3>2. n =< InBatches(b, s)
      BY <1>2, <2>3
    <3>3. o \in [BestDay -> Nat] /\ SumFunctionOnSet(o, BestDay) = n
      <4> HIDE DEF n
      <4> QED
        BY <2>1, <3>2, FirstOutSum
    <3> HIDE DEF n, d, o
    <3>4. o \in [BestDay -> Int]
      BY <3>3
    <3>5. /\ At(s, o) \in Lotted
          /\ \A t \in Depot : Lots(At(s, o), t) = IF t = s THEN n ELSE 0
      BY <3>3, <3>4, LotsAt
    <3>6. /\ Removed(NoBatch, At(s, o)) \in Lotted
          /\ \A t \in Depot : Lots(Removed(NoBatch, At(s, o)), t) = Lots(NoBatch, t) - Lots(At(s, o), t)
      BY <3>5, LotsRemoved, LotsOfNothing
    <3>7. \A t \in Depot : Delta(kind, s, L, Fresh, t) = IF t = s THEN 0 - n ELSE 0
      <4>1. Sign(kind) = -1
        BY <2>3 DEF Sign
      <4>2. Sign(kind) * n = 0 - n
        BY <2>1, <4>1
      <4> QED
        BY <1>2, <4>2 DEF Delta, n
    <3> QED
      BY <2>1, <3>1, <3>5, <3>6, <3>7, LotsOfNothing
  <2> QED
    BY <2>2, <2>3
<1> QED
  BY <1>1, <1>2

(* The movements of permits.                                                *)
AreMoves(R) == R \subseteq MovementRow /\ IsFiniteSet(R)
LineRows(p, kind, s, L) ==
    {[paper |-> p, item |-> i, store |-> s, n |-> Sign(kind) * L[i].n] : i \in DOMAIN L}

Of(A, i, s) == {m \in A : m.item = i /\ m.store = s}

LEMMA NetSum ==
  ASSUME NEW A, AreMoves(A), NEW f, \A m \in A : f[m] = m.n, NEW i, NEW s
  PROVE  /\ Net(A, i, s) = SumFunctionOnSet(f, Of(A, i, s))
         /\ Net(A, i, s) \in Int
         /\ IsFiniteSet(Of(A, i, s))
<1> DEFINE S == Of(A, i, s)
           g == [m \in A |-> m.n]
<1>1. IsFiniteSet(S)
  BY FS_Subset DEF AreMoves, Of
<1>2. \A x \in S : g[x] = f[x] /\ g[x] \in Int
  BY DEF AreMoves, MovementRow, Of
<1>3. Net(A, i, s) = SumFunctionOnSet(g, S)
  BY DEF Net, Of
<1> HIDE DEF g, S
<1>4. SumFunctionOnSet(g, S) = SumFunctionOnSet(f, S) /\ SumFunctionOnSet(g, S) \in Int
  BY <1>1, <1>2, SumSame, SumInt
<1> QED
  BY <1>1, <1>3, <1>4 DEF S

LEMMA NetJoin ==
  ASSUME NEW A, AreMoves(A), NEW B, AreMoves(B), A \cap B = {}, NEW i, NEW s
  PROVE  /\ AreMoves(A \cup B)
         /\ Net(A \cup B, i, s) = Net(A, i, s) + Net(B, i, s)
         /\ Net(A, i, s) \in Int /\ Net(B, i, s) \in Int
<1> DEFINE U == A \cup B
           f == [m \in U |-> m.n]
           In0(R) == Of(R, i, s)
<1>1. AreMoves(U)
  BY FS_Union DEF AreMoves
<1>2. \A m \in U : f[m] = m.n /\ f[m] \in Int
  BY <1>1 DEF AreMoves, MovementRow
<1>3. \A m \in A : f[m] = m.n
  BY <1>2
<1>4. \A m \in B : f[m] = m.n
  BY <1>2
<1>5. \A m \in U : f[m] = m.n
  BY <1>2
<1>6. In0(A) \subseteq In0(U) /\ In0(U) \ In0(A) = In0(B)
  BY DEF Of
<1>12. A \subseteq U /\ B \subseteq U /\ f = [m \in U |-> m.n]
  OBVIOUS
<1> HIDE DEF f, U
<1>7. Net(A, i, s) = SumFunctionOnSet(f, In0(A)) /\ Net(A, i, s) \in Int
  BY <1>3, NetSum 
<1>8. Net(B, i, s) = SumFunctionOnSet(f, In0(B)) /\ Net(B, i, s) \in Int
  BY <1>4, NetSum 
<1>9. Net(U, i, s) = SumFunctionOnSet(f, In0(U)) /\ IsFiniteSet(In0(U))
  BY <1>1, <1>5, NetSum 
<1>10. \A m \in In0(U) : f[m] \in Int
  BY <1>2 DEF Of
<1>11. SumFunctionOnSet(f, In0(U)) = SumFunctionOnSet(f, In0(A)) + SumFunctionOnSet(f, In0(B))
  <2>1. PICK a : a = In0(A)
    OBVIOUS
  <2>2. PICK u : u = In0(U)
    OBVIOUS
  <2>3. IsFiniteSet(u) /\ a \in SUBSET u /\ u \ a = In0(B) /\ \A m \in u : f[m] \in Int
    BY <1>6, <1>9, <1>10, <2>1, <2>2
  <2>4. SumFunctionOnSet(f, u) = SumFunctionOnSet(f, a) + SumFunctionOnSet(f, u \ a)
    BY ONLY <2>3, SumSplit
  <2> QED
    BY <2>1, <2>2, <2>3, <2>4
<1> QED
  BY <1>1, <1>7, <1>8, <1>9, <1>11 DEF U

LEMMA NetLess ==
  ASSUME NEW A, AreMoves(A), NEW B, B \subseteq A, NEW i, NEW s
  PROVE  /\ AreMoves(B) /\ AreMoves(A \ B)
         /\ Net(A \ B, i, s) = Net(A, i, s) - Net(B, i, s)
         /\ Net(A, i, s) \in Int /\ Net(B, i, s) \in Int
<1>1. AreMoves(B) /\ AreMoves(A \ B)
  BY FS_Subset, FS_Difference DEF AreMoves
<1>2. PICK C : C = A \ B
  OBVIOUS
<1>3. C \cup B = A /\ C \cap B = {}
  BY <1>2
<1>4. Net(A, i, s) = Net(C, i, s) + Net(B, i, s) /\ Net(C, i, s) \in Int /\ Net(B, i, s) \in Int
  BY <1>1, <1>2, <1>3, NetJoin
<1> QED
  BY <1>1, <1>2, <1>4

(* Rows that are elsewhere, or of another item, count for nothing.          *)
LEMMA NetOfNone ==
  ASSUME NEW A, NEW i, NEW s, \A m \in A : ~ (m.item = i /\ m.store = s)
  PROVE  Net(A, i, s) = 0
<1>1. {m \in A : m.item = i /\ m.store = s} = {}
  OBVIOUS
<1> QED
  BY <1>1, SumEmpty DEF Net

LEMMA SignedLine ==
  ASSUME NEW kind \in {"receipt", "issue"}, NEW L, AreLinesOf(L, DOMAIN L), NEW i \in DOMAIN L
  PROVE  /\ Sign(kind) * L[i].n \in Int /\ i \in Ware /\ L[i].n \in Nat /\ L[i].n > 0
         /\ kind = "receipt" => Sign(kind) * L[i].n = L[i].n
         /\ kind = "issue" => Sign(kind) * L[i].n = - L[i].n
<1>1. L[i].n \in Nat \ {0} /\ i \in Ware
  BY DEF AreLinesOf, Ware
<1>2. Sign(kind) \in {-1, 1} /\ (kind = "receipt" => Sign(kind) = 1) /\ (kind = "issue" => Sign(kind) = -1)
  BY DEF Sign
<1> QED
  BY <1>1, <1>2

LEMMA NetOfLines ==
  ASSUME NEW p \in Permit, NEW kind \in {"receipt", "issue"}, NEW s \in Depot,
         NEW L, AreLinesOf(L, DOMAIN L)
  PROVE  /\ AreMoves(LineRows(p, kind, s, L)) /\ LineRows(p, kind, s, L) # {}
         /\ \A m \in LineRows(p, kind, s, L) : m.paper = p
         /\ \A i \in Ware, t \in Depot : Net(LineRows(p, kind, s, L), i, t) = Delta(kind, s, L, i, t)
<1> DEFINE row(i) == [paper |-> p, item |-> i, store |-> s, n |-> Sign(kind) * L[i].n]
           R == LineRows(p, kind, s, L)
<1>1. \A i \in DOMAIN L : row(i) \in MovementRow
  BY SignedLine DEF MovementRow, Ware
<1>2. IsFiniteSet(R)
  <2>1. IsFiniteSet(Ware)
    <3>1. IsFiniteSet({Solid}) /\ IsFiniteSet({Fresh}) /\ Ware = {Solid} \cup {Fresh}
      BY FS_Singleton DEF Ware
    <3> QED
      BY ONLY <3>1, FS_Union
  <2>2. IsFiniteSet(DOMAIN L)
    BY <2>1, FS_Subset DEF AreLinesOf, Ware
  <2> DEFINE g == [i \in DOMAIN L |-> row(i)]
  <2>3. g \in Surjection(DOMAIN L, R)
    BY DEF LineRows, Surjection
  <2> HIDE DEF g, R
  <2> QED
    BY <2>2, <2>3, FS_Surjection
<1>5. DOMAIN L # {} /\ R = {row(i) : i \in DOMAIN L}
  BY DEF AreLinesOf, LineRows
<1>6. \A i \in DOMAIN L : row(i).paper = p
  OBVIOUS
<1>3. AreMoves(R) /\ R # {} /\ \A m \in R : m.paper = p
  <2> HIDE DEF R, row
  <2> QED
    BY <1>1, <1>2, <1>5, <1>6 DEF AreMoves
<1>4. ASSUME NEW i \in Ware, NEW t \in Depot PROVE Net(R, i, t) = Delta(kind, s, L, i, t)
  <2>1. CASE ~ (t = s /\ i \in DOMAIN L)
    <3>1. \A m \in R : ~ (m.item = i /\ m.store = t)
      BY <2>1 DEF LineRows
    <3> HIDE DEF R
    <3> QED
      BY <2>1, <3>1, NetOfNone DEF Delta
  <2>2. CASE t = s /\ i \in DOMAIN L
    <3> DEFINE x == row(i)
    <3>1. {m \in R : m.item = i /\ m.store = t} = {x} /\ x \in R
      BY <2>2 DEF LineRows
    <3>2. x.n = Sign(kind) * L[i].n /\ Sign(kind) * L[i].n \in Int
      BY <2>2, SignedLine
    <3>3. Delta(kind, s, L, i, t) = Sign(kind) * L[i].n
      BY <2>2 DEF Delta
    <3> DEFINE f == [m \in R |-> m.n]
    <3>4. Net(R, i, t) = SumFunctionOnSet(f, {x}) /\ f[x] = x.n
      BY <3>1 DEF Net
    <3>8. Net(R, i, t) = SumFunctionOnSet(f, {x}) /\ f[x] = x.n
      BY <3>4
    <3> HIDE DEF x, f, R
    <3>5. f[x] \in Int /\ \A y \in {x} : f[y] \in Int
      BY <3>2, <3>4
    <3>6. SumFunctionOnSet(f, {x}) = f[x] + SumFunctionOnSet(f, {x} \ {x})
      BY <3>5, SumRemove, FS_Singleton
    <3>7. {x} \ {x} = {}
      OBVIOUS
    <3> QED
      BY <2>2, <3>2, <3>3, <3>4, <3>5, <3>6, <3>7, SumEmpty
  <2> QED
    BY <2>1, <2>2
<1> QED
  BY <1>3, <1>4

LEMMA DatedLines ==
  ASSUME NEW b \in Lotted, NEW kind \in {"receipt", "issue"}, NEW s \in Depot,
         NEW L, AreLinesOf(L, DOMAIN L),
         kind = "issue" => (Fresh \in DOMAIN L => L[Fresh].n =< InBatches(b, s))
  PROVE  /\ DOMAIN Dated(b, kind, s, L) = DOMAIN L
         /\ AreLinesOf(Dated(b, kind, s, L), DOMAIN L)
         /\ \A i \in DOMAIN L : Dated(b, kind, s, L)[i].n = L[i].n
<1>1. CASE ~ (kind = "issue" /\ Fresh \in DOMAIN L)
  BY <1>1 DEF Dated
<1>2. CASE kind = "issue" /\ Fresh \in DOMAIN L
  <2> DEFINE D == {d \in BestDay : FirstOut(b, s, L[Fresh].n)[d] > 0}
             d == Min(D)
  <2>1. L[Fresh].n \in Nat /\ L[Fresh].n > 0 /\ L[Fresh] \in [n : Nat \ {0}, day : Nat]
    BY <1>2 DEF AreLinesOf
  <2>2. D # {} /\ D \subseteq Nat /\ D \subseteq BestDay
    BY <1>2, <2>1, FirstOutSum, BestDayAssumption
  <2>3. d \in D
    <3>1. PICK m \in D : \A k \in D : m =< k
      BY <2>2, LeastNat
    <3> HIDE DEF D
    <3> QED
      BY <3>1 DEF Min
  <2>4. Dated(b, kind, s, L) = [L EXCEPT ![Fresh].day = d]
    BY <1>2 DEF Dated
  <2>5. d \in Nat /\ d \in BestDay
    BY <2>2, <2>3
  <2> HIDE DEF d, D
  <2>6. PICK x : x = [L[Fresh] EXCEPT !.day = d]
    OBVIOUS
  <2>7. x \in [n : Nat \ {0}, day : Nat] /\ x.n = L[Fresh].n /\ x.day = d
    BY <2>1, <2>5, <2>6
  <2>8. Dated(b, kind, s, L) = [L EXCEPT ![Fresh] = x]
    BY <2>4, <2>6
  <2>9. L = [i \in DOMAIN L |-> L[i]] /\ L \in [DOMAIN L -> [n : Nat \ {0}, day : Nat]]
    BY DEF AreLinesOf
  <2>10. PICK K : K = Dated(b, kind, s, L)
    OBVIOUS
  <2>11. K = [L EXCEPT ![Fresh] = x]
    BY <2>8, <2>10
  <2>12. DOMAIN K = DOMAIN L /\ K \in [DOMAIN L -> [n : Nat \ {0}, day : Nat]]
         /\ K[Fresh] = x /\ \A i \in DOMAIN L \ {Fresh} : K[i] = L[i]
    BY <1>2, <2>7, <2>9, <2>11
  <2> QED
    BY <2>5, <2>7, <2>10, <2>12 DEF AreLinesOf
<1> QED
  BY <1>1, <1>2

(* A reversal is of the other kind and in the same store.                   *)
ReversalsMirror ==
    \A r \in Permit : permit[r] # Null /\ permit[r].reverses # Null =>
        LET p == permit[permit[r].reverses] IN
        /\ p # Null /\ p.kind # permit[r].kind /\ p.store = permit[r].store

(* What the log says a permit did to lots is what it moved, and what the    *)
(* reversal of a receipt did is the opposite.                               *)
LogSays ==
    \A p \in Permit, s \in Depot : permit[p] # Null =>
        /\ permit[p].reverses = Null => Lots(batchLog[p], s) = Net(RowsOf(p), Fresh, s)
        /\ permit[p].reverses # Null /\ permit[p].kind = "issue" =>
              Lots(batchLog[p], s) = - Net(RowsOf(permit[p].reverses), Fresh, s)

PaperInv == PaperTypeOK /\ PermitsExplained /\ ReversalsMirror
PapersAlone == MirroredByLiving /\ LotsExplained /\ LogSays

LEMMA PermitParts ==
  ASSUME PaperTypeOK, NEW p \in Permit, permit[p] # Null
  PROVE  /\ permit[p].kind \in {"receipt", "issue"} /\ permit[p].store \in Depot
         /\ permit[p].reverses \in Permit \cup {Null}
         /\ AreLinesOf(permit[p].lines, DOMAIN permit[p].lines)
         /\ DOMAIN permit[p].lines \subseteq Ware /\ DOMAIN permit[p].lines # {}
<1>1. permit[p] \in PermitRow(DOMAIN permit[p].lines) /\ AreLinesOf(permit[p].lines, DOMAIN permit[p].lines)
  BY DEF PaperTypeOK
<1> HIDE DEF AreLinesOf
<1>2. permit[p].kind \in {"receipt", "issue"} /\ permit[p].store \in Depot
         /\ permit[p].reverses \in Permit \cup {Null}
  BY <1>1 DEF PermitRow
<1> QED
  BY <1>1, <1>2 DEF AreLinesOf, Ware

LEMMA NewPermit ==
  ASSUME NEW kind \in {"receipt", "issue"}, NEW s \in Depot, NEW K, AreLinesOf(K, DOMAIN K),
         NEW q \in Permit \cup {Null}, NEW x,
         x = [kind |-> kind, store |-> s, lines |-> K, reverses |-> q]
  PROVE  x \in PermitRow(DOMAIN x.lines) /\ x # Null
<1>1. x.lines = K /\ K \in [DOMAIN K -> [n : Nat \ {0}, day : Nat]] /\ DOMAIN K \in SUBSET {Solid, Fresh}
  BY DEF AreLinesOf
<1>2. x \in PermitRow(DOMAIN K)
  BY <1>1 DEF PermitRow
<1> QED
  BY <1>1, <1>2, PaperNull

LEMMA PaperTypes ==
  ASSUME PaperTypeOK
  PROVE  /\ batch \in Lotted /\ (\A p \in Permit : batchLog[p] \in Lotted)
         /\ AreMoves(permitRows) /\ mirroredRows \subseteq permitRows
         /\ AreMoves(permitRows \ mirroredRows)
         /\ (\A p \in Permit : AreMoves(RowsOf(p)) /\ RowsOf(p) \subseteq permitRows)
         /\ \A i \in Ware, s \in Depot : otherwise[s][i] \in Int /\ Stock(i, s) \in Int
<1>1. /\ batch \in Lotted /\ \A p \in Permit : batchLog[p] \in Lotted
  BY DEF PaperTypeOK, Lotted
<1>2. AreMoves(permitRows) /\ mirroredRows \subseteq permitRows
  BY DEF PaperTypeOK, AreMoves
<1>3. AreMoves(permitRows \ mirroredRows)
  BY <1>2, NetLess
<1>4. ASSUME NEW p \in Permit PROVE AreMoves(RowsOf(p)) /\ RowsOf(p) \subseteq permitRows
  <2>1. RowsOf(p) \subseteq permitRows
    BY DEF RowsOf
  <2> QED
    BY <1>2, <2>1, NetLess
<1>5. ASSUME NEW i \in Ware, NEW s \in Depot PROVE otherwise[s][i] \in Int /\ Stock(i, s) \in Int
  <2>1. otherwise[s][i] \in Int
    BY DEF PaperTypeOK
  <2>2. Net(permitRows \ mirroredRows, i, s) \in Int
    BY <1>3, NetLess
  <2> QED
    BY <2>1, <2>2 DEF Stock, InStore
<1> QED
  BY <1>1, <1>2, <1>3, <1>4, <1>5

(* Undoing what permits did to lots, one after another.                     *)
LEMMA LotsWithoutNone ==
  ASSUME PaperTypeOK
  PROVE  LotsWithout({}) = batch
<1>1. ASSUME NEW s \in Depot, NEW d \in BestDay PROVE LotsWithout({})[s][d] = batch[s][d]
  <2>1. SumFunctionOnSet([v \in {} |-> batchLog[v][s][d]], {}) = 0
    BY SumEmpty
  <2>2. batch[s][d] \in Int
    BY PaperTypes DEF Lotted
  <2> QED
    BY <2>1, <2>2 DEF LotsWithout
<1>2. LotsWithout({}) = [s \in Depot |-> [d \in BestDay |-> batch[s][d]]]
  BY <1>1 DEF LotsWithout
<1> QED
  BY <1>2, PaperTypes DEF Lotted

LEMMA LotsWithoutOneMore ==
  ASSUME PaperTypeOK, NEW V \in SUBSET Permit, NEW v \in V, LotsWithout(V \ {v}) \in Lotted
  PROVE  LotsWithout(V) = Removed(LotsWithout(V \ {v}), batchLog[v])
<1> DEFINE W == V \ {v}
           taken(S, s, d) == SumFunctionOnSet([u \in S |-> batchLog[u][s][d]], S)
<1>1. IsFiniteSet(V) /\ IsFiniteSet(W)
  BY PaperAssumption, FS_Subset
<1>2. ASSUME NEW s \in Depot, NEW d \in BestDay
      PROVE  taken(V, s, d) = batchLog[v][s][d] + taken(W, s, d) /\ taken(W, s, d) \in Int
  <2> DEFINE f == [u \in V |-> batchLog[u][s][d]]
             g == [u \in W |-> batchLog[u][s][d]]
  <2>1. \A u \in V : f[u] = batchLog[u][s][d] /\ f[u] \in Int
    BY PaperTypes DEF Lotted
  <2>2. \A u \in W : g[u] = f[u] /\ g[u] \in Int
    BY <2>1
  <2>3. SumFunctionOnSet(f, V) = f[v] + SumFunctionOnSet(f, W)
    BY <1>1, <2>1, SumRemove
  <2>4. SumFunctionOnSet(g, W) = SumFunctionOnSet(f, W) /\ SumFunctionOnSet(g, W) \in Int
    <3> HIDE DEF f, g, W
    <3> QED
      BY <1>1, <2>2, SumSame, SumInt
  <2> QED
    BY <2>1, <2>3, <2>4
<1>3. ASSUME NEW s \in Depot, NEW d \in BestDay
      PROVE  /\ batch[s][d] - taken(V, s, d) = LotsWithout(W)[s][d] - batchLog[v][s][d]
  <2>1. batch[s][d] \in Int /\ batchLog[v][s][d] \in Int
    BY PaperTypes DEF Lotted
  <2>2. LotsWithout(W)[s][d] = batch[s][d] - taken(W, s, d)
    BY DEF LotsWithout
  <2> HIDE DEF taken, W
  <2> QED
    BY <1>2, <2>1, <2>2
<1>4. LotsWithout(V) = [s \in Depot |-> [d \in BestDay |-> batch[s][d] - taken(V, s, d)]]
  BY DEF LotsWithout
<1>5. Removed(LotsWithout(W), batchLog[v])
        = [s \in Depot |-> [d \in BestDay |-> LotsWithout(W)[s][d] - batchLog[v][s][d]]]
  BY DEF Removed, Lotted
<1> HIDE DEF taken, W
<1>6. LotsWithout(V) = Removed(LotsWithout(W), batchLog[v])
  BY <1>3, <1>4, <1>5
<1> QED
  BY <1>6 DEF W

LEMMA LotsWithoutOne ==
  ASSUME PaperTypeOK, NEW p \in Permit
  PROVE  /\ LotsWithout({p}) \in Lotted
         /\ \A s \in Depot : Lots(LotsWithout({p}), s) = Lots(batch, s) - Lots(batchLog[p], s)
<1>1. {p} \in SUBSET Permit /\ p \in {p} /\ {p} \ {p} = {}
  OBVIOUS
<1>2. LotsWithout({p} \ {p}) = batch /\ batch \in Lotted /\ batchLog[p] \in Lotted
  BY <1>1, LotsWithoutNone, PaperTypes
<1>3. LotsWithout({p}) = Removed(batch, batchLog[p])
  BY <1>1, <1>2, LotsWithoutOneMore
<1>4. PICK c : c = batchLog[p]
  OBVIOUS
<1>5. /\ Removed(batch, c) \in Lotted
      /\ \A s \in Depot : Lots(Removed(batch, c), s) = Lots(batch, s) - Lots(c, s)
  BY <1>2, <1>4, LotsRemoved
<1> QED
  BY <1>3, <1>4, <1>5

LEMMA LotsWithoutTwo ==
  ASSUME PaperTypeOK, NEW p \in Permit, NEW r \in Permit, r # p
  PROVE  /\ LotsWithout({p, r}) \in Lotted
         /\ \A s \in Depot : Lots(LotsWithout({p, r}), s)
                               = Lots(batch, s) - Lots(batchLog[p], s) - Lots(batchLog[r], s)
<1>1. {p, r} \in SUBSET Permit /\ r \in {p, r} /\ {p, r} \ {r} = {p}
  OBVIOUS
<1>2. LotsWithout({p}) \in Lotted /\ batchLog[r] \in Lotted
  BY LotsWithoutOne, PaperTypes
<1>3. LotsWithout({p, r}) = Removed(LotsWithout({p}), batchLog[r])
  BY <1>1, <1>2, LotsWithoutOneMore
<1>4. PICK b : b = LotsWithout({p})
  OBVIOUS
<1>5. PICK c : c = batchLog[r]
  OBVIOUS
<1>6. /\ Removed(b, c) \in Lotted
      /\ \A s \in Depot : Lots(Removed(b, c), s) = Lots(b, s) - Lots(c, s)
  BY <1>2, <1>4, <1>5, LotsRemoved
<1>7. \A s \in Depot : Lots(b, s) = Lots(batch, s) - Lots(batchLog[p], s)
  BY <1>4, LotsWithoutOne
<1> QED
  BY <1>3, <1>4, <1>5, <1>6, <1>7

(* Permit p now has the lines K, over the movements kept and the lots b.    *)
PostedAs(p, kind, s, K, kept, mir, b) ==
    /\ kind \in {"receipt", "issue"} /\ s \in Depot /\ AreLinesOf(K, DOMAIN K)
    /\ permit' = [permit EXCEPT ![p] =
          [kind |-> kind, store |-> s, lines |-> K, reverses |-> Null]]
    /\ permitRows' = kept \cup LineRows(p, kind, s, K)
    /\ mirroredRows' = mir
    /\ batch' \in Lotted
    /\ \A t \in Depot : Lots(batch', t) = Lots(b, t) + Delta(kind, s, K, Fresh, t)
    /\ \A q \in Permit : batchLog'[q] \in Lotted
    /\ batchLog' = [q \in Permit |-> batchLog'[q]]
    /\ \A q \in Permit \ {p} : batchLog'[q] = batchLog[q]
    /\ \A t \in Depot : Lots(batchLog'[p], t) = Delta(kind, s, K, Fresh, t)
    /\ kind = "issue" => \A i \in DOMAIN K : K[i].n =< InStore(kept \ mir, i, s)

LEMMA LinesPosted ==
  ASSUME PaperTypeOK, NEW p \in Permit, NEW kind \in {"receipt", "issue"}, NEW s \in Depot,
         NEW L \in PermitLines, NEW kept, NEW mir, NEW b \in Lotted,
         PostLines(p, kind, s, L, kept, mir, b, batchLog)
  PROVE  \E K : PostedAs(p, kind, s, K, kept, mir, b)
<1> DEFINE change == BatchChange(b, kind, s, L)
           K == Dated(b, kind, s, L)
<1>1. AreLinesOf(L, DOMAIN L)
  BY PaperAssumption
<1>2. kind = "issue" => Enough(kept \ mir, b, s, L)
  BY DEF PostLines
<1>3. kind = "issue" => (Fresh \in DOMAIN L => L[Fresh].n =< InBatches(b, s))
  BY <1>2 DEF Enough
<1>4. change \in Lotted /\ \A t \in Depot : Lots(change, t) = Delta(kind, s, L, Fresh, t)
  BY <1>1, <1>3, ChangeOfLots
<1>5. DOMAIN K = DOMAIN L /\ AreLinesOf(K, DOMAIN L) /\ \A i \in DOMAIN L : K[i].n = L[i].n
  BY <1>1, <1>3, DatedLines
<1>6. /\ permit' = [permit EXCEPT ![p] = [kind |-> kind, store |-> s, lines |-> K, reverses |-> Null]]
      /\ permitRows' = kept \cup {[paper |-> p, item |-> i, store |-> s, n |-> Sign(kind) * L[i].n] :
                                    i \in DOMAIN L}
      /\ mirroredRows' = mir
      /\ batch' = Added(b, change)
      /\ batchLog' = [batchLog EXCEPT ![p] = change]
  BY DEF PostLines, Sign
<1> HIDE DEF change, K
<1>7. {[paper |-> p, item |-> i, store |-> s, n |-> Sign(kind) * L[i].n] : i \in DOMAIN L}
        = LineRows(p, kind, s, K)
  <2>1. \A i \in DOMAIN L : Sign(kind) * L[i].n = Sign(kind) * K[i].n
    BY <1>5
  <2> QED
    BY ONLY <1>5, <2>1 DEF LineRows
<1>8. \A t \in Depot : Delta(kind, s, L, Fresh, t) = Delta(kind, s, K, Fresh, t)
  <2>1. Fresh \in DOMAIN L => L[Fresh].n = K[Fresh].n
    BY <1>5
  <2> QED
    BY <1>5, <2>1 DEF Delta
<1>9. batch' \in Lotted /\ \A t \in Depot : Lots(batch', t) = Lots(b, t) + Lots(change, t)
  <2>1. /\ Added(b, change) \in Lotted
        /\ \A t \in Depot : Lots(Added(b, change), t) = Lots(b, t) + Lots(change, t)
    BY <1>4, LotsAdded
  <2> QED
    BY <1>6, <2>1
<1>10. batchLog \in [Permit -> Lotted]
  BY DEF PaperTypeOK, Lotted
<1>11. /\ \A q \in Permit : batchLog'[q] \in Lotted
       /\ batchLog' = [q \in Permit |-> batchLog'[q]]
       /\ \A q \in Permit \ {p} : batchLog'[q] = batchLog[q]
       /\ batchLog'[p] = change
  BY <1>4, <1>6, <1>10
<1>12. kind = "issue" => \A i \in DOMAIN K : K[i].n =< InStore(kept \ mir, i, s)
  BY <1>2, <1>5 DEF Enough
<1>13. \A t \in Depot : Lots(batch', t) = Lots(b, t) + Delta(kind, s, K, Fresh, t)
  BY <1>4, <1>8, <1>9
<1>14. \A t \in Depot : Lots(batchLog'[p], t) = Delta(kind, s, K, Fresh, t)
  BY <1>4, <1>8, <1>11
<1>15. permitRows' = kept \cup LineRows(p, kind, s, K)
  BY <1>6, <1>7
<1>16. AreLinesOf(K, DOMAIN K)
  BY <1>5
<1> QED
  BY <1>6, <1>9, <1>11, <1>12, <1>13, <1>14, <1>15, <1>16 DEF PostedAs

(* What is left in stores, and of what was reversed, without a permit.      *)
RowsBut(p) == permitRows \ RowsOf(p)
MirroredBut(p) == mirroredRows \ RowsOf(p)
Base(p, i, s) == InStore(RowsBut(p) \ MirroredBut(p), i, s)

(* Posting the lines of a permit anew leaves the rest as it was.            *)
LEMMA PostedRows ==
  ASSUME PaperInv, NEW p \in Permit, ReversalOfPermit(p) = {},
         permit[p] = Null \/ permit[p].reverses = Null,
         NEW kind, NEW s, NEW K, NEW b,
         PostedAs(p, kind, s, K, RowsBut(p), MirroredBut(p), b), UNCHANGED otherwise
  PROVE  /\ RowsOf(p)' = LineRows(p, kind, s, K)
         /\ \A q \in Permit \ {p} : RowsOf(q)' = RowsOf(q) /\ permit'[q] = permit[q]
         /\ \A q \in Permit : ReversalOfPermit(q)' = ReversalOfPermit(q)
         /\ permit'[p] = [kind |-> kind, store |-> s, lines |-> K, reverses |-> Null]
         /\ permit'[p] \in PermitRow(DOMAIN permit'[p].lines) /\ permit'[p] # Null
         /\ permit' = [q \in Permit |-> permit'[q]]
         /\ AreMoves(permitRows') /\ mirroredRows' \subseteq permitRows'
         /\ \A i \in Ware, t \in Depot : Stock(i, t)' = Base(p, i, t) + Delta(kind, s, K, i, t)
<1> DEFINE x == [kind |-> kind, store |-> s, lines |-> K, reverses |-> Null]
           R == LineRows(p, kind, s, K)
<1>1. kind \in {"receipt", "issue"} /\ s \in Depot /\ AreLinesOf(K, DOMAIN K)
  BY DEF PostedAs
<1>2. permitRows' = RowsBut(p) \cup R /\ mirroredRows' = MirroredBut(p)
  BY DEF PostedAs
<1>3. permit' = [permit EXCEPT ![p] = x] /\ permit = [q \in Permit |-> permit[q]]
  BY DEF PostedAs, PaperInv, PaperTypeOK
<1>4. AreMoves(R) /\ (\A m \in R : m.paper = p)
      /\ \A i \in Ware, t \in Depot : Net(R, i, t) = Delta(kind, s, K, i, t)
  BY <1>1, NetOfLines
<1>5. x \in PermitRow(DOMAIN x.lines) /\ x # Null /\ x.reverses = Null
  BY <1>1, NewPermit
<1> HIDE DEF x, R
<1>6. permit'[p] = x /\ (\A q \in Permit \ {p} : permit'[q] = permit[q])
      /\ permit' = [q \in Permit |-> permit'[q]]
  BY <1>3
<1>7. AreMoves(permitRows) /\ mirroredRows \subseteq permitRows /\ RowsOf(p) \subseteq permitRows
  BY PaperTypes DEF PaperInv
<1>8. RowsOf(p)' = R /\ \A q \in Permit \ {p} : RowsOf(q)' = RowsOf(q)
  BY <1>2, <1>4 DEF RowsOf, RowsBut
<1>9. ASSUME NEW q \in Permit PROVE ReversalOfPermit(q)' = ReversalOfPermit(q)
  <2>1. p \notin ReversalOfPermit(q)
    BY PaperAssumption DEF ReversalOfPermit
  <2>2. p \notin ReversalOfPermit(q)'
    BY <1>5, <1>6, PaperAssumption DEF ReversalOfPermit
  <2>3. \A r \in Permit \ {p} : r \in ReversalOfPermit(q)' <=> r \in ReversalOfPermit(q)
    BY <1>6 DEF ReversalOfPermit
  <2> QED
    BY <2>1, <2>2, <2>3 DEF ReversalOfPermit
<1>10. MirroredBut(p) \subseteq RowsBut(p) /\ RowsBut(p) \subseteq permitRows
       /\ RowsBut(p) \cap R = {} /\ MirroredBut(p) \cap R = {}
  BY <1>4, <1>7 DEF RowsBut, MirroredBut, RowsOf
<1>11. AreMoves(permitRows') /\ mirroredRows' \subseteq permitRows'
  <2>1. AreMoves(RowsBut(p))
    BY <1>7, NetLess DEF RowsBut
  <2>2. AreMoves(RowsBut(p) \cup R)
    BY <1>4, <1>10, <2>1, NetJoin
  <2> QED
    BY <1>2, <1>10, <2>2
<1>12. ASSUME NEW i \in Ware, NEW t \in Depot
       PROVE  Stock(i, t)' = Base(p, i, t) + Delta(kind, s, K, i, t)
  <2>1. PICK A : A = RowsBut(p) \ MirroredBut(p)
    OBVIOUS
  <2>2. A \subseteq permitRows /\ A \cap R = {} /\ permitRows' \ mirroredRows' = A \cup R
    BY <1>2, <1>10, <2>1
  <2>3. AreMoves(A) /\ AreMoves(R) /\ A \cap R = {}
    BY <1>4, <1>7, <2>2, NetLess
  <2>4. Net(A \cup R, i, t) = Net(A, i, t) + Net(R, i, t) /\ Net(A, i, t) \in Int /\ Net(R, i, t) \in Int
    BY ONLY <2>3, NetJoin
  <2>5. Stock(i, t)' = otherwise[t][i] + Net(A \cup R, i, t)
    BY <2>2 DEF Stock, InStore, Net
  <2>6. Base(p, i, t) = otherwise[t][i] + Net(A, i, t) /\ otherwise[t][i] \in Int
    BY <2>1, PaperTypes DEF Base, InStore, PaperInv
  <2>7. Net(R, i, t) = Delta(kind, s, K, i, t)
    BY <1>4
  <2> QED
    BY <2>4, <2>5, <2>6, <2>7
<1> QED
  BY <1>5, <1>6, <1>8, <1>9, <1>11, <1>12 DEF x, R

ExpectedRows(p, x) ==
    IF x = Null \/ x.reverses # Null THEN {}
    ELSE {[paper |-> p, item |-> i, store |-> x.store, n |-> Signed(x, i)] : i \in DOMAIN x.lines}

LEMMA ExpectedOfLines ==
  ASSUME NEW p \in Permit, NEW kind \in {"receipt", "issue"}, NEW s \in Depot, NEW K, AreLinesOf(K, DOMAIN K),
         NEW x, x = [kind |-> kind, store |-> s, lines |-> K, reverses |-> Null], x # Null
  PROVE  ExpectedRows(p, x) = LineRows(p, kind, s, K)
<1>1. \A i \in DOMAIN K : Signed(x, i) = Sign(kind) * K[i].n
  BY SignedLine DEF Signed
<1>2. ExpectedRows(p, x) = {[paper |-> p, item |-> i, store |-> s, n |-> Signed(x, i)] : i \in DOMAIN K}
  BY DEF ExpectedRows
<1> QED
  BY ONLY <1>1, <1>2 DEF LineRows

(* PermitsExplained, one permit at a time.                                  *)
Explained(p) ==
    /\ RowsOf(p) = ExpectedRows(p, permit[p])
    /\ \A r1, r2 \in ReversalOfPermit(p) : r1 = r2
    /\ ReversalOfPermit(p) # {} => RowsOf(p) # {} /\ RowsOf(p) \subseteq mirroredRows
NothingLacks == \A i \in Ware, s \in Depot : Stock(i, s) >= 0

LEMMA OneReversal ==
  ASSUME NEW p \in Permit
  PROVE  Cardinality(ReversalOfPermit(p)) =< 1 <=> \A r1, r2 \in ReversalOfPermit(p) : r1 = r2
<1> DEFINE V == ReversalOfPermit(p)
<1>1. IsFiniteSet(V)
  BY PaperAssumption, FS_Subset DEF ReversalOfPermit
<1> HIDE DEF V
<1>2. Cardinality(V) \in Nat
  BY <1>1, FS_CardinalityType
<1>3. V = {} => (Cardinality(V) =< 1 <=> \A r1, r2 \in V : r1 = r2)
  BY FS_EmptySet
<1>4. ASSUME NEW r \in V PROVE Cardinality(V) =< 1 <=> \A r1, r2 \in V : r1 = r2
  <2>1. ASSUME \A r1, r2 \in V : r1 = r2 PROVE Cardinality(V) =< 1
    <3>1. V = {r}
      BY <1>4, <2>1
    <3> QED
      BY <3>1, FS_Singleton
  <2>2. ASSUME Cardinality(V) =< 1, NEW r1 \in V, NEW r2 \in V, r1 # r2 PROVE FALSE
    <3>1. IsFiniteSet(V \ {r1}) /\ Cardinality(V \ {r1}) = Cardinality(V) - 1 /\ Cardinality(V \ {r1}) \in Nat
      BY <1>1, <2>2, RestIsSmaller
    <3>2. Cardinality(V \ {r1}) = 0
      BY <1>2, <2>2, <3>1
    <3>3. V \ {r1} = {}
      BY <3>1, <3>2, FS_EmptySet
    <3> QED
      BY <2>2, <3>3
  <2> QED
    BY <2>1, <2>2
<1> QED
  BY <1>3, <1>4 DEF V

AllExplained == (\A p \in Permit : Explained(p)) /\ NothingLacks

LEMMA ExplainedIs == PermitsExplained <=> AllExplained
<1>1. \A p \in Permit : Cardinality(ReversalOfPermit(p)) =< 1 <=> \A r1, r2 \in ReversalOfPermit(p) : r1 = r2
  BY OneReversal
<1> QED
  BY <1>1 DEF PermitsExplained, Explained, AllExplained, NothingLacks, ExpectedRows

LEMMA ExplainedIsNext == PermitsExplained' <=> AllExplained'
  BY ExplainedIs, PTL

(* Posting the lines of a permit keeps rows, mirrors and stores in order.   *)
LEMMA PostedKeeps ==
  ASSUME PaperInv, NEW p \in Permit, ReversalOfPermit(p) = {},
         permit[p] = Null \/ permit[p].reverses = Null,
         NEW kind, NEW s, NEW K, NEW b,
         PostedAs(p, kind, s, K, RowsBut(p), MirroredBut(p), b), UNCHANGED <<otherwise, scrap, tally>>,
         \A i \in Ware, t \in Depot : Base(p, i, t) >= 0 \/ Stock(i, t)' >= 0
  PROVE  PaperInv'
<1>1. /\ kind \in {"receipt", "issue"} /\ s \in Depot /\ AreLinesOf(K, DOMAIN K)
      /\ batch' \in Lotted /\ batchLog' = [q \in Permit |-> batchLog'[q]]
      /\ (\A q \in Permit : batchLog'[q] \in Lotted)
      /\ (kind = "issue" => \A i \in DOMAIN K : K[i].n =< Base(p, i, s))
  BY DEF PostedAs, Base
<1>2. /\ RowsOf(p)' = LineRows(p, kind, s, K)
      /\ (\A q \in Permit \ {p} : RowsOf(q)' = RowsOf(q) /\ permit'[q] = permit[q])
      /\ (\A q \in Permit : ReversalOfPermit(q)' = ReversalOfPermit(q))
      /\ permit'[p] = [kind |-> kind, store |-> s, lines |-> K, reverses |-> Null]
      /\ permit'[p] \in PermitRow(DOMAIN permit'[p].lines) /\ permit'[p] # Null
      /\ permit' = [q \in Permit |-> permit'[q]]
      /\ AreMoves(permitRows') /\ mirroredRows' \subseteq permitRows'
      /\ \A i \in Ware, t \in Depot : Stock(i, t)' = Base(p, i, t) + Delta(kind, s, K, i, t)
  BY PostedRows
<1>3. mirroredRows' = MirroredBut(p)
  BY DEF PostedAs
<1>4. PaperTypeOK /\ AllExplained /\ ReversalsMirror
  BY ExplainedIs DEF PaperInv
<1>5. permit'[p].lines = K
  BY <1>2
<1> HIDE DEF AreLinesOf
<1>6. PaperTypeOK'
  <2>1. \A q \in Permit : permit'[q] # Null => /\ permit'[q] \in PermitRow(DOMAIN permit'[q].lines)
                                               /\ AreLinesOf(permit'[q].lines, DOMAIN permit'[q].lines)
    BY <1>1, <1>2, <1>4, <1>5 DEF PaperTypeOK
  <2>2. permitRows' \subseteq MovementRow /\ IsFiniteSet(permitRows') /\ mirroredRows' \subseteq permitRows'
    BY <1>2 DEF AreMoves
  <2>3. batch' \in [Depot -> [BestDay -> Int]] /\ batchLog' \in [Permit -> [Depot -> [BestDay -> Int]]]
    BY <1>1 DEF Lotted
  <2>4. /\ otherwise' \in [Depot -> [Ware -> Int]]
        /\ scrap' \in [Scrap -> ScrapRow \cup {Null}]
        /\ TallyTyped'
    BY <1>4 DEF PaperTypeOK, TallyTyped
  <2> QED
    BY <1>2, <2>1, <2>2, <2>3, <2>4 DEF PaperTypeOK
<1>7. Explained(p)'
  <2>1. RowsOf(p)' = ExpectedRows(p, permit'[p])
    BY <1>1, <1>2, ExpectedOfLines
  <2>2. ReversalOfPermit(p)' = {}
    BY <1>2
  <2> QED
    BY <2>1, <2>2 DEF Explained
<1>8. ASSUME NEW q \in Permit \ {p} PROVE Explained(q)'
  <2>1. /\ RowsOf(q) = ExpectedRows(q, permit[q])
        /\ (\A r1, r2 \in ReversalOfPermit(q) : r1 = r2)
        /\ ReversalOfPermit(q) # {} => RowsOf(q) # {} /\ RowsOf(q) \subseteq mirroredRows
    BY <1>4 DEF AllExplained, Explained
  <2>2. RowsOf(q) \cap RowsOf(p) = {}
    BY DEF RowsOf
  <2>3. RowsOf(q) \subseteq mirroredRows => RowsOf(q) \subseteq mirroredRows'
    BY <1>3, <2>2 DEF MirroredBut
  <2>4. RowsOf(q)' = RowsOf(q) /\ permit'[q] = permit[q] /\ ReversalOfPermit(q)' = ReversalOfPermit(q)
    BY <1>2
  <2> QED
    BY <2>1, <2>3, <2>4 DEF Explained
<1>9. NothingLacks'
  <2> SUFFICES ASSUME NEW i \in Ware, NEW t \in Depot PROVE Stock(i, t)' >= 0
    BY DEF NothingLacks
  <2>1. Stock(i, t)' = Base(p, i, t) + Delta(kind, s, K, i, t)
    BY <1>2
  <2>2. Base(p, i, t) >= 0 \/ Stock(i, t)' >= 0
    OBVIOUS
  <2>3. Base(p, i, t) \in Int
    <3>1. AreMoves(RowsBut(p) \ MirroredBut(p))
      <4>1. AreMoves(permitRows) /\ RowsBut(p) \ MirroredBut(p) \subseteq permitRows
        BY <1>4, PaperTypes DEF RowsBut
      <4> QED
        BY <4>1, NetLess
    <3>2. Net(RowsBut(p) \ MirroredBut(p), i, t) \in Int
      BY <3>1, NetLess
    <3> QED
      BY <1>4, <3>2, PaperTypes DEF Base, InStore
  <2>4. CASE kind = "issue" /\ t = s /\ i \in DOMAIN K
    <3>1. Delta(kind, s, K, i, t) = - K[i].n /\ K[i].n \in Nat /\ K[i].n =< Base(p, i, t)
      BY <1>1, <2>4, SignedLine DEF Delta
    <3> QED
      BY <2>1, <2>3, <3>1
  <2>5. CASE ~ (kind = "issue" /\ t = s /\ i \in DOMAIN K)
    <3>1. Delta(kind, s, K, i, t) \in Nat
      BY <1>1, <2>5, SignedLine DEF Delta
    <3> QED
      BY <2>1, <2>2, <2>3, <3>1
  <2> QED
    BY <2>4, <2>5
<1>10. ReversalsMirror'
  <2> SUFFICES ASSUME NEW r \in Permit, permit'[r] # Null, permit'[r].reverses # Null
               PROVE  LET x == permit'[permit'[r].reverses] IN
                      /\ x # Null /\ x.kind # permit'[r].kind /\ x.store = permit'[r].store
    BY DEF ReversalsMirror
  <2>1. r # p /\ permit'[r] = permit[r]
    BY <1>2
  <2>2. permit[r].reverses # p
    BY <2>1 DEF ReversalOfPermit
  <2>3. permit[r].reverses \in Permit
    BY <1>4, <2>1, PermitParts
  <2>4. permit'[permit[r].reverses] = permit[permit[r].reverses]
    BY <1>2, <2>2, <2>3
  <2> QED
    BY <1>4, <2>1, <2>4 DEF ReversalsMirror
<1>11. AllExplained'
  BY <1>7, <1>8, <1>9 DEF AllExplained
<1> QED
  BY <1>6, <1>10, <1>11, ExplainedIsNext DEF PaperInv

(* What was wasted of the perishable item of a store.                       *)
Wasted(s) == SumFunctionOnSet([w \in Scrap |-> WastedBy(w, s)], Scrap)

LEMMA LotsAre == LotsExplained <=> \A s \in Depot : Lots(batch, s) = Stock(Fresh, s) + Wasted(s)
  BY DEF LotsExplained, Lots, Wasted

LEMMA LotsAreNext == LotsExplained' <=> \A s \in Depot : Lots(batch', s) = Stock(Fresh, s)' + Wasted(s)'
  BY DEF LotsExplained, Lots, Wasted

LEMMA WastedInt ==
  ASSUME PaperTypeOK, NEW s
  PROVE  Wasted(s) \in Int
<1> DEFINE f == [w \in Scrap |-> WastedBy(w, s)]
<1>1. \A w \in Scrap : f[w] \in Int
  BY DEF PaperTypeOK, ScrapRow, WastedBy
<1> HIDE DEF f
<1>2. SumFunctionOnSet(f, Scrap) \in Int
  BY <1>1, SumInt, PaperAssumption
<1> QED
  BY <1>2 DEF Wasted, f

(* Without its rows that are not reversed, a permit leaves its store what   *)
(* the others did.                                                          *)
LEMMA BaseIs ==
  ASSUME PaperTypeOK, NEW p \in Permit, NEW i \in Ware, NEW s \in Depot
  PROVE  /\ Base(p, i, s) = Stock(i, s) - Net(RowsOf(p) \ mirroredRows, i, s)
         /\ Base(p, i, s) \in Int /\ Net(RowsOf(p) \ mirroredRows, i, s) \in Int
<1> DEFINE A == permitRows \ mirroredRows
           B == RowsOf(p) \ mirroredRows
<1>1. AreMoves(A) /\ B \subseteq A /\ otherwise[s][i] \in Int
  BY PaperTypes
<1>2. RowsBut(p) \ MirroredBut(p) = A \ B
  BY DEF RowsBut, MirroredBut
<1> HIDE DEF A, B
<1>3. Net(A \ B, i, s) = Net(A, i, s) - Net(B, i, s) /\ Net(A, i, s) \in Int /\ Net(B, i, s) \in Int
  BY <1>1, NetLess
<1>4. Stock(i, s) = otherwise[s][i] + Net(A, i, s)
  BY DEF Stock, InStore, A
<1>5. Base(p, i, s) = otherwise[s][i] + Net(A \ B, i, s)
  BY <1>2 DEF Base, InStore
<1> QED
  BY <1>1, <1>3, <1>4, <1>5 DEF B

(* Taking the rows of a permit back leaves no store lacking, where it was   *)
(* looked at what they had brought.                                         *)
LEMMA LookedAt ==
  ASSUME PaperInv, NEW p \in Permit, permit[p] # Null, UNCHANGED otherwise,
         permit[p].reverses = Null =>
            NotBelowZero(permitRows' \ mirroredRows', permit[p].store, DOMAIN permit[p].lines),
         NEW i \in Ware, NEW t \in Depot
  PROVE  Base(p, i, t) >= 0 \/ Stock(i, t)' >= 0
<1>1. PaperTypeOK /\ AllExplained
  BY ExplainedIs DEF PaperInv
<1>2. RowsOf(p) = ExpectedRows(p, permit[p]) /\ Stock(i, t) >= 0
  BY <1>1 DEF AllExplained, Explained, NothingLacks
<1>3. CASE permit[p].reverses = Null /\ t = permit[p].store /\ i \in DOMAIN permit[p].lines
  <2>1. InStore(permitRows' \ mirroredRows', i, t) >= 0
    BY <1>3 DEF NotBelowZero
  <2> QED
    BY <2>1 DEF Stock, InStore
<1>4. CASE ~ (permit[p].reverses = Null /\ t = permit[p].store /\ i \in DOMAIN permit[p].lines)
  <2>1. \A m \in RowsOf(p) \ mirroredRows : ~ (m.item = i /\ m.store = t)
    BY <1>2, <1>4 DEF ExpectedRows
  <2>2. Net(RowsOf(p) \ mirroredRows, i, t) = 0
    BY <2>1, NetOfNone
  <2>3. Stock(i, t) \in Int
    BY <1>1, PaperTypes
  <2> QED
    BY <1>1, <1>2, <2>2, <2>3, BaseIs
<1> QED
  BY <1>3, <1>4

RowsIn(R, p) == {m \in R : m.paper = p}

(* Where papers are undone in order.                                        *)
LEMMA PostedKeepsAlone ==
  ASSUME PaperInv, PapersAlone, NEW p \in Permit, ReversalOfPermit(p) = {},
         permit[p] = Null \/ permit[p].reverses = Null,
         NEW kind, NEW s, NEW K, NEW b,
         PostedAs(p, kind, s, K, RowsBut(p), MirroredBut(p), b), UNCHANGED <<otherwise, scrap, tally>>,
         \A t \in Depot : Lots(b, t) = Base(p, Fresh, t) + Wasted(t)
  PROVE  PapersAlone'
<1>1. /\ kind \in {"receipt", "issue"} /\ s \in Depot /\ AreLinesOf(K, DOMAIN K)
      /\ mirroredRows' = MirroredBut(p)
      /\ (\A t \in Depot : Lots(batch', t) = Lots(b, t) + Delta(kind, s, K, Fresh, t))
      /\ (\A q \in Permit \ {p} : batchLog'[q] = batchLog[q])
      /\ \A t \in Depot : Lots(batchLog'[p], t) = Delta(kind, s, K, Fresh, t)
  BY DEF PostedAs
<1>2. /\ RowsOf(p)' = LineRows(p, kind, s, K)
      /\ (\A q \in Permit \ {p} : RowsOf(q)' = RowsOf(q) /\ permit'[q] = permit[q])
      /\ (\A q \in Permit : ReversalOfPermit(q)' = ReversalOfPermit(q))
      /\ permit'[p] = [kind |-> kind, store |-> s, lines |-> K, reverses |-> Null]
      /\ \A i \in Ware, t \in Depot : Stock(i, t)' = Base(p, i, t) + Delta(kind, s, K, i, t)
  BY PostedRows
<1>3. PaperTypeOK /\ Fresh \in Ware
  BY DEF PaperInv, Ware
<1>4. \A i \in Ware, t \in Depot : Net(LineRows(p, kind, s, K), i, t) = Delta(kind, s, K, i, t)
                                  /\ Delta(kind, s, K, i, t) \in Int
  <2>1. \A i \in Ware, t \in Depot : Net(LineRows(p, kind, s, K), i, t) = Delta(kind, s, K, i, t)
    BY <1>1, NetOfLines
  <2>2. \A i \in Ware, t \in Depot : Delta(kind, s, K, i, t) \in Int
    BY <1>1, SignedLine DEF Delta
  <2> QED
    BY <2>1, <2>2
<1>5. MirroredByLiving'
  <2> SUFFICES ASSUME NEW m \in mirroredRows' PROVE ReversalOfPermit(m.paper)' # {}
    BY DEF MirroredByLiving
  <2>1. m \in mirroredRows /\ m.paper \in Permit
    BY <1>1, <1>3 DEF MirroredBut, PaperTypeOK, MovementRow
  <2> QED
    BY <1>2, <2>1 DEF PapersAlone, MirroredByLiving
<1>6. LotsExplained'
  <2> SUFFICES ASSUME NEW t \in Depot PROVE Lots(batch', t) = Stock(Fresh, t)' + Wasted(t)'
    BY LotsAreNext
  <2>1. Wasted(t)' = Wasted(t)
    BY DEF Wasted, WastedBy
  <2>2. Wasted(t) \in Int /\ Base(p, Fresh, t) \in Int /\ Delta(kind, s, K, Fresh, t) \in Int
    BY <1>3, <1>4, WastedInt, BaseIs
  <2>3. Lots(batch', t) = Lots(b, t) + Delta(kind, s, K, Fresh, t)
        /\ Lots(b, t) = Base(p, Fresh, t) + Wasted(t)
        /\ Stock(Fresh, t)' = Base(p, Fresh, t) + Delta(kind, s, K, Fresh, t)
    BY <1>1, <1>2, <1>3
  <2> QED
    BY <2>1, <2>2, <2>3
<1>7. LogSays'
  <2> SUFFICES ASSUME NEW q \in Permit, NEW t \in Depot, permit'[q] # Null
               PROVE  /\ permit'[q].reverses = Null => Lots(batchLog'[q], t) = Net(RowsOf(q)', Fresh, t)
                      /\ permit'[q].reverses # Null /\ permit'[q].kind = "issue" =>
                           Lots(batchLog'[q], t) = - Net(RowsIn(permitRows', permit'[q].reverses), Fresh, t)
    BY DEF LogSays, Lots, Net, RowsOf, RowsIn
  <2>1. CASE q = p
    BY <1>1, <1>2, <1>3, <1>4, <2>1
  <2>2. CASE q # p
    <3>1. permit'[q] = permit[q] /\ batchLog'[q] = batchLog[q] /\ RowsOf(q)' = RowsOf(q)
      BY <1>1, <1>2, <2>2
    <3>2. permit[q].reverses # p
      BY <3>1 DEF ReversalOfPermit
    <3>3. permit[q].reverses # Null => RowsIn(permitRows', permit[q].reverses) = RowsOf(permit[q].reverses)
      <4> SUFFICES ASSUME NEW x, x = permit[q].reverses, x # Null PROVE RowsIn(permitRows', x) = RowsOf(x)
        OBVIOUS
      <4>1. x \in Permit \ {p}
        BY <1>3, <3>1, <3>2, PermitParts
      <4>2. RowsOf(x)' = RowsOf(x)
        BY <1>2, <4>1
      <4> QED
        BY <4>2 DEF RowsIn, RowsOf
    <3>4. /\ permit[q].reverses = Null => Lots(batchLog[q], t) = Net(RowsOf(q), Fresh, t)
          /\ permit[q].reverses # Null /\ permit[q].kind = "issue" =>
                Lots(batchLog[q], t) = - Net(RowsOf(permit[q].reverses), Fresh, t)
      BY <3>1 DEF PapersAlone, LogSays
    <3> QED
      BY <3>1, <3>3, <3>4
  <2> QED
    BY <2>1, <2>2
<1> QED
  BY <1>5, <1>6, <1>7 DEF PapersAlone

PaperKept == PaperInv' /\ (PapersAlone => PapersAlone')

LEMMA CreateKeeps ==
  ASSUME PaperInv, NEW p \in Permit, NEW kind \in {"receipt", "issue"}, NEW s \in Depot,
         NEW L \in PermitLines, CreatePermit(p, kind, s, L)
  PROVE  PaperKept
<1>1. PaperTypeOK /\ AllExplained
  BY ExplainedIs DEF PaperInv
<1>2. permit[p] = Null /\ PostLines(p, kind, s, L, permitRows, mirroredRows, batch, batchLog)
      /\ UNCHANGED <<otherwise, scrap, tally>>
  BY DEF CreatePermit
<1>3. RowsOf(p) = {} /\ ReversalOfPermit(p) = {}
  BY <1>1, <1>2 DEF AllExplained, Explained, ExpectedRows
<1>4. RowsBut(p) = permitRows /\ MirroredBut(p) = mirroredRows
  BY <1>3 DEF RowsBut, MirroredBut
<1>5. PICK K : PostedAs(p, kind, s, K, RowsBut(p), MirroredBut(p), batch)
  BY <1>1, <1>2, <1>4, LinesPosted, PaperTypes
<1>6. \A i \in Ware, t \in Depot : Base(p, i, t) = Stock(i, t)
  BY <1>4 DEF Base, Stock
<1>7. \A i \in Ware, t \in Depot : Base(p, i, t) >= 0
  BY <1>1, <1>6 DEF AllExplained, NothingLacks
<1>8. PaperInv'
  BY <1>2, <1>3, <1>5, <1>7, PostedKeeps
<1>9. ASSUME PapersAlone PROVE PapersAlone'
  <2>1. \A t \in Depot : Lots(batch, t) = Base(p, Fresh, t) + Wasted(t)
    BY <1>6, <1>9, LotsAre DEF PapersAlone, Ware
  <2> QED
    BY <1>2, <1>3, <1>5, <1>9, <2>1, PostedKeepsAlone
<1> QED
  BY <1>8, <1>9 DEF PaperKept

LEMMA UpdateKeeps ==
  ASSUME PaperInv, NEW p \in Permit, NEW s \in Depot, NEW L \in PermitLines, UpdatePermit(p, s, L)
  PROVE  PaperKept
<1>1. PaperTypeOK /\ AllExplained
  BY ExplainedIs DEF PaperInv
<1> DEFINE kind == permit[p].kind
           b == LotsWithout({p})
<1>2. /\ permit[p] # Null /\ permit[p].reverses = Null /\ ReversalOfPermit(p) = {}
      /\ PostLines(p, kind, s, L, RowsBut(p), MirroredBut(p), b, batchLog)
      /\ NotBelowZero(permitRows' \ mirroredRows', permit[p].store, DOMAIN permit[p].lines)
      /\ UNCHANGED <<otherwise, scrap, tally>>
  BY DEF UpdatePermit, RowsBut, MirroredBut
<1>3. b \in Lotted /\ kind \in {"receipt", "issue"}
      /\ \A t \in Depot : Lots(b, t) = Lots(batch, t) - Lots(batchLog[p], t)
  BY <1>1, <1>2, LotsWithoutOne, PermitParts
<1> HIDE DEF kind, b
<1>4. PICK K : PostedAs(p, kind, s, K, RowsBut(p), MirroredBut(p), b)
  BY <1>1, <1>2, <1>3, LinesPosted
<1>5. \A i \in Ware, t \in Depot : Base(p, i, t) >= 0 \/ Stock(i, t)' >= 0
  BY <1>2, LookedAt
<1>6. PaperInv'
  BY <1>2, <1>4, <1>5, PostedKeeps
<1>7. ASSUME PapersAlone PROVE PapersAlone'
  <2>1. RowsOf(p) \cap mirroredRows = {}
    BY <1>2, <1>7 DEF PapersAlone, MirroredByLiving, RowsOf
  <2>2. RowsOf(p) \ mirroredRows = RowsOf(p)
    BY <2>1
  <2>3. ASSUME NEW t \in Depot PROVE Lots(b, t) = Base(p, Fresh, t) + Wasted(t)
    <3>1. Base(p, Fresh, t) = Stock(Fresh, t) - Net(RowsOf(p), Fresh, t)
          /\ Base(p, Fresh, t) \in Int /\ Net(RowsOf(p), Fresh, t) \in Int
      BY <1>1, <2>2, BaseIs DEF Ware
    <3>2. Lots(batch, t) = Stock(Fresh, t) + Wasted(t) /\ Wasted(t) \in Int /\ Stock(Fresh, t) \in Int
      BY <1>1, <1>7, LotsAre, WastedInt, PaperTypes DEF PapersAlone, Ware
    <3>3. Lots(batchLog[p], t) = Net(RowsOf(p), Fresh, t)
      BY <1>2, <1>7 DEF PapersAlone, LogSays
    <3> QED
      BY <1>3, <3>1, <3>2, <3>3
  <2> QED
    BY <1>2, <1>4, <1>7, <2>3, PostedKeepsAlone
<1> QED
  BY <1>6, <1>7 DEF PaperKept

(* A permit and what reverses it are dropped.                               *)
LEMMA VictimsOf ==
  ASSUME PaperInv, NEW p \in Permit, permit[p] # Null,
         NEW V, V = {p} \cup ReversalOfPermit(p)
  PROVE  /\ V \subseteq Permit /\ p \in V
         /\ UNION {RowsOf(v) : v \in V} = RowsOf(p)
         /\ \A v \in V \ {p} : RowsOf(v) = {} /\ ReversalOfPermit(v) = {} /\ permit[v] # Null
                               /\ permit[v].reverses = p
         /\ permit[p].reverses # Null => RowsOf(p) = {} /\ V = {p}
<1>1. PaperTypeOK /\ AllExplained
  BY ExplainedIs DEF PaperInv
<1>2. \A v \in V \ {p} : v \in Permit /\ permit[v] # Null /\ permit[v].reverses = p
  BY DEF ReversalOfPermit
<1>3. \A v \in V \ {p} : RowsOf(v) = {}
  BY <1>1, <1>2, PaperAssumption DEF AllExplained, Explained, ExpectedRows
<1>4. \A v \in V \ {p} : ReversalOfPermit(v) = {}
  BY <1>1, <1>2, <1>3 DEF AllExplained, Explained
<1>5. UNION {RowsOf(v) : v \in V} = RowsOf(p)
  BY <1>3
<1>6. permit[p].reverses # Null => RowsOf(p) = {} /\ ReversalOfPermit(p) = {}
  BY <1>1 DEF AllExplained, Explained, ExpectedRows
<1> QED
  BY <1>2, <1>3, <1>4, <1>5, <1>6

LEMMA DeleteRows ==
  ASSUME PaperInv, NEW p \in Permit, DeletePermit(p),
         NEW V, V = {p} \cup ReversalOfPermit(p)
  PROVE  /\ permit[p] # Null /\ UNCHANGED <<otherwise, scrap, tally>>
         /\ permit' = [v \in Permit |-> IF v \in V THEN Null ELSE permit[v]]
         /\ permitRows' = RowsBut(p) /\ mirroredRows' = MirroredBut(p)
         /\ batch' = LotsWithout(V)
         /\ batchLog' = [v \in Permit |-> IF v \in V THEN NoBatch ELSE batchLog[v]]
         /\ RowsOf(p)' = {} /\ (\A q \in Permit \ {p} : RowsOf(q)' = RowsOf(q))
         /\ (\A q \in Permit : ReversalOfPermit(q)' = ReversalOfPermit(q) \ V)
         /\ \A i \in Ware, t \in Depot : Stock(i, t)' = Base(p, i, t) /\ Base(p, i, t) >= 0
<1>1. permit[p] # Null /\ UNCHANGED <<otherwise, scrap, tally>>
  BY DEF DeletePermit
<1>2. UNION {RowsOf(v) : v \in V} = RowsOf(p) /\ V \subseteq Permit
  BY <1>1, VictimsOf
<1>3. /\ permit' = [v \in Permit |-> IF v \in V THEN Null ELSE permit[v]]
      /\ permitRows' = RowsBut(p) /\ mirroredRows' = MirroredBut(p)
      /\ batch' = LotsWithout(V)
      /\ batchLog' = [v \in Permit |-> IF v \in V THEN NoBatch ELSE batchLog[v]]
      /\ NotBelowZero(permitRows' \ mirroredRows', permit[p].store, DOMAIN permit[p].lines)
  BY <1>2 DEF DeletePermit, RowsBut, MirroredBut
<1>4. RowsOf(p)' = {} /\ (\A q \in Permit \ {p} : RowsOf(q)' = RowsOf(q))
  BY <1>3 DEF RowsOf, RowsBut
<1>5. \A q \in Permit : ReversalOfPermit(q)' = ReversalOfPermit(q) \ V
  BY <1>3 DEF ReversalOfPermit
<1>6. ASSUME NEW i \in Ware, NEW t \in Depot PROVE Stock(i, t)' = Base(p, i, t) /\ Base(p, i, t) >= 0
  <2>1. Stock(i, t)' = Base(p, i, t)
    BY <1>1, <1>3 DEF Stock, InStore, Net, Base
  <2>2. Base(p, i, t) >= 0 \/ Stock(i, t)' >= 0
    BY <1>1, <1>3, LookedAt
  <2> QED
    BY <2>1, <2>2
<1> QED
  BY <1>1, <1>3, <1>4, <1>5, <1>6

LEMMA LotsWithoutVictims ==
  ASSUME PaperInv, NEW p \in Permit, NEW V, V = {p} \cup ReversalOfPermit(p)
  PROVE  /\ LotsWithout(V) \in Lotted
         /\ V = {p} \/ \E r \in ReversalOfPermit(p) : V = {p, r} /\ r # p
<1>1. PaperTypeOK /\ AllExplained
  BY ExplainedIs DEF PaperInv
<1>2. \A r1, r2 \in ReversalOfPermit(p) : r1 = r2
  BY <1>1 DEF AllExplained, Explained
<1>3. V = {p} \/ \E r \in ReversalOfPermit(p) : V = {p, r} /\ r # p
  BY <1>2
<1>4. CASE V = {p}
  BY <1>1, <1>3, <1>4, LotsWithoutOne
<1>5. ASSUME NEW r \in ReversalOfPermit(p), V = {p, r}, r # p PROVE LotsWithout(V) \in Lotted
  BY <1>1, <1>5, LotsWithoutTwo DEF ReversalOfPermit
<1> QED
  BY <1>3, <1>4, <1>5

LEMMA DeleteKeeps ==
  ASSUME PaperInv, NEW p \in Permit, DeletePermit(p)
  PROVE  PaperInv'
<1> DEFINE V == {p} \cup ReversalOfPermit(p)
<1>1. PaperTypeOK /\ AllExplained /\ ReversalsMirror
  BY ExplainedIs DEF PaperInv
<1>2. /\ permit[p] # Null /\ UNCHANGED <<otherwise, scrap, tally>>
      /\ permit' = [v \in Permit |-> IF v \in V THEN Null ELSE permit[v]]
      /\ permitRows' = RowsBut(p) /\ mirroredRows' = MirroredBut(p)
      /\ batch' = LotsWithout(V)
      /\ batchLog' = [v \in Permit |-> IF v \in V THEN NoBatch ELSE batchLog[v]]
      /\ RowsOf(p)' = {} /\ (\A q \in Permit \ {p} : RowsOf(q)' = RowsOf(q))
      /\ (\A q \in Permit : ReversalOfPermit(q)' = ReversalOfPermit(q) \ V)
      /\ \A i \in Ware, t \in Depot : Stock(i, t)' = Base(p, i, t) /\ Base(p, i, t) >= 0
  BY DeleteRows
<1>3. /\ V \subseteq Permit /\ p \in V
      /\ \A v \in V \ {p} : RowsOf(v) = {} /\ ReversalOfPermit(v) = {} /\ permit[v] # Null
  BY <1>2, VictimsOf
<1>4. LotsWithout(V) \in Lotted
  BY LotsWithoutVictims
<1>5. ReversalOfPermit(p) \subseteq V
  OBVIOUS
<1> HIDE DEF V
<1>6. PaperTypeOK'
  <2>1. permit' = [v \in Permit |-> permit'[v]] /\ \A v \in Permit : permit'[v] # Null => permit'[v] = permit[v]
    BY <1>2
  <2>2. AreMoves(RowsBut(p)) /\ MirroredBut(p) \subseteq RowsBut(p)
    <3>1. AreMoves(permitRows) /\ mirroredRows \subseteq permitRows /\ RowsBut(p) \subseteq permitRows
      BY <1>1, PaperTypes DEF RowsBut
    <3> QED
      BY <3>1, NetLess DEF RowsBut, MirroredBut
  <2>3. batchLog' \in [Permit -> [Depot -> [BestDay -> Int]]] /\ batch' \in [Depot -> [BestDay -> Int]]
    BY <1>1, <1>2, <1>4, LotsOfNothing DEF PaperTypeOK, Lotted
  <2>4. permitRows' \subseteq MovementRow /\ IsFiniteSet(permitRows') /\ mirroredRows' \subseteq permitRows'
    BY <1>2, <2>2 DEF AreMoves
  <2>5. \A v \in Permit : permit'[v] # Null => /\ permit'[v] \in PermitRow(DOMAIN permit'[v].lines)
                                               /\ AreLinesOf(permit'[v].lines, DOMAIN permit'[v].lines)
    BY <1>1, <2>1 DEF PaperTypeOK
  <2>6. /\ otherwise' \in [Depot -> [Ware -> Int]]
        /\ scrap' \in [Scrap -> ScrapRow \cup {Null}]
        /\ TallyTyped'
    BY <1>1, <1>2 DEF PaperTypeOK, TallyTyped
  <2> QED
    BY <2>1, <2>3, <2>4, <2>5, <2>6 DEF PaperTypeOK
<1>7. ASSUME NEW q \in Permit PROVE Explained(q)'
  <2>1. Explained(q)
    BY <1>1 DEF AllExplained
  <2>2. ReversalOfPermit(q)' \subseteq ReversalOfPermit(q)
    BY <1>2
  <2>3. CASE q \in V
    <3>1. permit'[q] = Null /\ RowsOf(q)' = {} /\ ReversalOfPermit(q)' = {}
      BY <1>2, <1>3, <1>5, <2>3
    <3> QED
      BY <3>1 DEF Explained, ExpectedRows
  <2>4. CASE q \notin V
    <3>1. permit'[q] = permit[q] /\ RowsOf(q)' = RowsOf(q)
      BY <1>2, <1>3, <2>4
    <3>2. RowsOf(q) \subseteq mirroredRows => RowsOf(q) \subseteq mirroredRows'
      BY <1>2, <1>3, <2>4 DEF MirroredBut, RowsOf
    <3> QED
      BY <2>1, <2>2, <3>1, <3>2 DEF Explained
  <2> QED
    BY <2>3, <2>4
<1>8. NothingLacks'
  BY <1>2 DEF NothingLacks
<1>9. ReversalsMirror'
  <2> SUFFICES ASSUME NEW r \in Permit, permit'[r] # Null, permit'[r].reverses # Null
               PROVE  LET x == permit'[permit'[r].reverses] IN
                      /\ x # Null /\ x.kind # permit'[r].kind /\ x.store = permit'[r].store
    BY DEF ReversalsMirror
  <2>1. r \notin V /\ permit'[r] = permit[r]
    BY <1>2
  <2>2. permit[r].reverses \in Permit /\ r \in ReversalOfPermit(permit[r].reverses)
    BY <1>1, <2>1, PermitParts DEF ReversalOfPermit
  <2>3. permit[r].reverses \notin V
    BY <1>3, <1>5, <2>1, <2>2
  <2>4. permit'[permit[r].reverses] = permit[permit[r].reverses]
    BY <1>2, <2>2, <2>3
  <2> QED
    BY <1>1, <2>1, <2>4 DEF ReversalsMirror
<1>10. AllExplained'
  BY <1>7, <1>8 DEF AllExplained
<1> QED
  BY <1>6, <1>9, <1>10, ExplainedIsNext DEF PaperInv

LEMMA DeleteKeepsAlone ==
  ASSUME PaperInv, PapersAlone, NEW p \in Permit, DeletePermit(p), UndoneInOrder
  PROVE  PapersAlone'
<1> DEFINE V == {p} \cup ReversalOfPermit(p)
<1>1. PaperTypeOK /\ AllExplained /\ ReversalsMirror /\ Fresh \in Ware
  BY ExplainedIs DEF PaperInv, Ware
<1>2. /\ permit[p] # Null /\ UNCHANGED <<otherwise, scrap, tally>>
      /\ permit' = [v \in Permit |-> IF v \in V THEN Null ELSE permit[v]]
      /\ mirroredRows' = MirroredBut(p)
      /\ batch' = LotsWithout(V)
      /\ batchLog' = [v \in Permit |-> IF v \in V THEN NoBatch ELSE batchLog[v]]
      /\ (\A q \in Permit \ {p} : RowsOf(q)' = RowsOf(q))
      /\ (\A q \in Permit : ReversalOfPermit(q)' = ReversalOfPermit(q) \ V)
      /\ \A i \in Ware, t \in Depot : Stock(i, t)' = Base(p, i, t)
  BY DeleteRows
<1>3. /\ V \subseteq Permit /\ p \in V
      /\ (\A v \in V \ {p} : RowsOf(v) = {} /\ permit[v].reverses = p /\ permit[v] # Null)
      /\ permit[p].reverses # Null => RowsOf(p) = {} /\ V = {p}
  BY SMTT(30), <1>2, VictimsOf
<1>4. V = {p} \/ \E r \in ReversalOfPermit(p) : V = {p, r} /\ r # p
  BY LotsWithoutVictims
<1>5. V = {p} => ReversalOfPermit(p) = {}
  <2>1. p \notin ReversalOfPermit(p)
    BY <1>1, PaperAssumption DEF ReversalsMirror, ReversalOfPermit
  <2> QED
    BY <2>1
<1> HIDE DEF V
<1>6. permit[p].reverses = Null
  <2> SUFFICES ASSUME NEW q, q = permit[p].reverses, q # Null PROVE FALSE
    OBVIOUS
  <2>1. q \in Permit /\ permit[q] # Null /\ p \in ReversalOfPermit(q)
    BY <1>1, <1>2, PermitParts DEF ReversalsMirror, ReversalOfPermit
  <2>2. permit'[p] = Null
    BY <1>2, <1>3
  <2>3. permit'[q] = Null
    BY <1>2, <2>2 DEF UndoneInOrder
  <2>4. q = p
    BY <1>2, <1>3, <2>1, <2>3
  <2>5. RowsOf(q) # {}
    BY <1>1, <2>1 DEF AllExplained, Explained
  <2> QED
    BY <1>3, <2>4, <2>5
<1>7. ASSUME NEW t \in Depot
      PROVE  Lots(batch', t) = Lots(batch, t) - Net(RowsOf(p) \ mirroredRows, Fresh, t)
  <2>1. /\ Lots(batchLog[p], t) = Net(RowsOf(p), Fresh, t) /\ Net(RowsOf(p), Fresh, t) \in Int
        /\ Lots(batch, t) \in Int
    <3>1. Net(RowsOf(p), Fresh, t) \in Int
      BY <1>1, PaperTypes, NetLess
    <3>2. Lots(batch, t) \in Int
      BY <1>1, PaperTypes, LotsAdded
    <3> QED
      BY <1>2, <1>6, <3>1, <3>2 DEF PapersAlone, LogSays
  <2>2. CASE V = {p}
    <3>1. Lots(batch', t) = Lots(batch, t) - Lots(batchLog[p], t)
      BY <1>1, <1>2, <2>2, LotsWithoutOne
    <3>2. RowsOf(p) \cap mirroredRows = {}
      BY <1>5, <2>2 DEF PapersAlone, MirroredByLiving, RowsOf
    <3>3. RowsOf(p) \ mirroredRows = RowsOf(p)
      BY <3>2
    <3> QED
      BY <2>1, <3>1, <3>3
  <2>3. ASSUME NEW r \in ReversalOfPermit(p), V = {p, r}, r # p
        PROVE  Lots(batch', t) = Lots(batch, t) - Net(RowsOf(p) \ mirroredRows, Fresh, t)
    <3>1. r \in Permit /\ permit[r] # Null /\ permit[r].reverses = p
      BY <2>3 DEF ReversalOfPermit
    <3>2. permit[p].kind = "receipt"
      <4>1. permit'[p] = Null
        BY <1>2, <1>3
      <4> QED
        BY <1>2, <2>3, <4>1 DEF UndoneInOrder
    <3>3. permit[r].kind = "issue"
      BY <1>1, <3>1, <3>2, PaperAssumption, PermitParts DEF ReversalsMirror
    <3>4. Lots(batchLog[r], t) = - Net(RowsOf(p), Fresh, t)
      BY <3>1, <3>3, PaperAssumption DEF PapersAlone, LogSays
    <3>5. Lots(batch', t) = Lots(batch, t) - Lots(batchLog[p], t) - Lots(batchLog[r], t)
      BY <1>1, <1>2, <2>3, <3>1, LotsWithoutTwo
    <3>6. RowsOf(p) \ mirroredRows = {}
      BY <1>1, <2>3 DEF AllExplained, Explained
    <3>7. Net(RowsOf(p) \ mirroredRows, Fresh, t) = 0
      BY <3>6, NetOfNone
    <3> QED
      BY <2>1, <3>4, <3>5, <3>7
  <2> QED
    BY <1>4, <2>2, <2>3
<1>8. LotsExplained'
  <2> SUFFICES ASSUME NEW t \in Depot PROVE Lots(batch', t) = Stock(Fresh, t)' + Wasted(t)'
    BY LotsAreNext
  <2>1. Wasted(t)' = Wasted(t)
    BY <1>2 DEF Wasted, WastedBy
  <2>2. Stock(Fresh, t)' = Stock(Fresh, t) - Net(RowsOf(p) \ mirroredRows, Fresh, t)
        /\ Net(RowsOf(p) \ mirroredRows, Fresh, t) \in Int
    BY <1>1, <1>2, BaseIs
  <2>3. Lots(batch, t) = Stock(Fresh, t) + Wasted(t) /\ Wasted(t) \in Int /\ Stock(Fresh, t) \in Int
    BY <1>1, LotsAre, WastedInt, PaperTypes DEF PapersAlone
  <2> QED
    <3>1. Lots(batch', t) = Lots(batch, t) - Net(RowsOf(p) \ mirroredRows, Fresh, t)
      BY <1>7
    <3> QED
      BY ONLY <2>1, <2>2, <2>3, <3>1
<1>9. MirroredByLiving'
  <2> SUFFICES ASSUME NEW m \in mirroredRows' PROVE ReversalOfPermit(m.paper)' # {}
    BY DEF MirroredByLiving
  <2>1. m \in mirroredRows /\ m \notin RowsOf(p) /\ m \in permitRows /\ m.paper \in Permit
    BY <1>1, <1>2 DEF MirroredBut, PaperTypeOK, MovementRow
  <2>2. m.paper # p /\ m \in RowsOf(m.paper)
    BY <2>1 DEF RowsOf
  <2>3. PICK r \in ReversalOfPermit(m.paper) : TRUE
    BY <2>1 DEF PapersAlone, MirroredByLiving
  <2>4. r \notin V
    BY <1>3, <1>6, <2>1, <2>2, <2>3, PaperAssumption DEF ReversalOfPermit
  <2> QED
    BY <1>2, <2>1, <2>3, <2>4
<1>10. LogSays'
  <2> SUFFICES ASSUME NEW q \in Permit, NEW t \in Depot, permit'[q] # Null
               PROVE  /\ permit'[q].reverses = Null => Lots(batchLog'[q], t) = Net(RowsOf(q)', Fresh, t)
                      /\ permit'[q].reverses # Null /\ permit'[q].kind = "issue" =>
                           Lots(batchLog'[q], t) = - Net(RowsIn(permitRows', permit'[q].reverses), Fresh, t)
    BY DEF LogSays, Lots, Net, RowsOf, RowsIn
  <2>1. q \notin V /\ q # p /\ permit'[q] = permit[q] /\ batchLog'[q] = batchLog[q] /\ RowsOf(q)' = RowsOf(q)
    BY <1>2, <1>3
  <2>2. permit[q].reverses # p
    BY <1>4, <1>5, <2>1 DEF ReversalOfPermit, V
  <2>3. permit[q].reverses # Null => RowsIn(permitRows', permit[q].reverses) = RowsOf(permit[q].reverses)
    <3> SUFFICES ASSUME NEW x, x = permit[q].reverses, x # Null PROVE RowsIn(permitRows', x) = RowsOf(x)
      OBVIOUS
    <3>1. x \in Permit \ {p}
      BY <1>1, <2>1, <2>2, PermitParts
    <3>2. RowsOf(x)' = RowsOf(x)
      BY <1>2, <3>1
    <3> QED
      BY <3>2 DEF RowsIn, RowsOf
  <2>4. /\ permit[q].reverses = Null => Lots(batchLog[q], t) = Net(RowsOf(q), Fresh, t)
        /\ permit[q].reverses # Null /\ permit[q].kind = "issue" =>
              Lots(batchLog[q], t) = - Net(RowsOf(permit[q].reverses), Fresh, t)
    BY <2>1 DEF PapersAlone, LogSays
  <2> QED
    BY <2>1, <2>3, <2>4
<1> QED
  BY <1>8, <1>9, <1>10 DEF PapersAlone

Mirror(kind) == IF kind = "receipt" THEN "issue" ELSE "receipt"

LEMMA MirrorDelta ==
  ASSUME NEW kind \in {"receipt", "issue"}, NEW s, NEW L, AreLinesOf(L, DOMAIN L), NEW i, NEW t
  PROVE  /\ Mirror(kind) \in {"receipt", "issue"} /\ Mirror(kind) # kind
         /\ Delta(Mirror(kind), s, L, i, t) = - Delta(kind, s, L, i, t)
         /\ Delta(kind, s, L, i, t) \in Int
<1>1. Mirror(kind) \in {"receipt", "issue"} /\ Mirror(kind) # kind
      /\ (kind = "receipt" <=> Mirror(kind) = "issue")
  BY DEF Mirror
<1>2. CASE t = s /\ i \in DOMAIN L
  BY <1>1, <1>2, SignedLine DEF Delta
<1>3. CASE ~ (t = s /\ i \in DOMAIN L)
  BY <1>1, <1>3 DEF Delta
<1> QED
  BY <1>1, <1>2, <1>3

(* What reversing permit p by permit r writes.                              *)
LEMMA ReverseRows ==
  ASSUME PaperInv, NEW p \in Permit, NEW r \in Permit, ReversePermit(p, r),
         NEW kind, kind = permit[p].kind, NEW s, s = permit[p].store, NEW L, L = permit[p].lines
  PROVE  /\ permit[p] # Null /\ permit[p].reverses = Null /\ ReversalOfPermit(p) = {}
         /\ permit[r] = Null /\ r # p /\ RowsOf(p) \cap mirroredRows = {}
         /\ RowsOf(p) = LineRows(p, kind, s, L)
         /\ kind \in {"receipt", "issue"} /\ s \in Depot /\ AreLinesOf(L, DOMAIN L)
         /\ permit' = [permit EXCEPT ![r] =
               [kind |-> Mirror(kind), store |-> s, lines |-> L, reverses |-> p]]
         /\ mirroredRows' = mirroredRows \cup RowsOf(p)
         /\ UNCHANGED <<permitRows, otherwise, scrap, tally>>
         /\ batch' \in Lotted /\ batchLog' = [q \in Permit |-> batchLog'[q]]
         /\ (\A q \in Permit : batchLog'[q] \in Lotted)
         /\ (\A q \in Permit \ {r} : batchLog'[q] = batchLog[q])
         /\ (\A t \in Depot : Lots(batch', t) = Lots(batch, t) - Delta(kind, s, L, Fresh, t))
         /\ (kind = "receipt" => \A t \in Depot : Lots(batchLog'[r], t) = - Delta(kind, s, L, Fresh, t))
         /\ (\A i \in Ware, t \in Depot : Stock(i, t)' = Stock(i, t) - Delta(kind, s, L, i, t))
         /\ kind = "receipt" => \A i \in DOMAIN L : L[i].n =< Stock(i, s)
<1> DEFINE mirror == Mirror(kind)
           change == BatchChange(batch, mirror, s, L)
<1>1. PaperTypeOK /\ AllExplained
  BY ExplainedIs DEF PaperInv
<1>2. /\ permit[p] # Null /\ permit[p].reverses = Null /\ ReversalOfPermit(p) = {}
      /\ permit[r] = Null /\ RowsOf(p) \cap mirroredRows = {}
      /\ (mirror = "issue" => Enough(permitRows \ mirroredRows, batch, s, L))
      /\ permit' = [permit EXCEPT ![r] = [kind |-> mirror, store |-> s, lines |-> L, reverses |-> p]]
      /\ mirroredRows' = mirroredRows \cup RowsOf(p)
      /\ batch' = Added(batch, change)
      /\ batchLog' = [batchLog EXCEPT ![r] = IF mirror = "issue" THEN change ELSE NoBatch]
      /\ UNCHANGED <<permitRows, otherwise, scrap, tally>>
  BY DEF ReversePermit, Mirror
<1>3. kind \in {"receipt", "issue"} /\ s \in Depot /\ AreLinesOf(L, DOMAIN L)
  BY <1>1, <1>2, PermitParts
<1>4. RowsOf(p) = LineRows(p, kind, s, L)
  <2> DEFINE x == [kind |-> kind, store |-> s, lines |-> L, reverses |-> Null]
  <2>1. ExpectedRows(p, permit[p]) = ExpectedRows(p, x)
    <3>1. x # Null
      BY <1>3, NewPermit
    <3>2. \A i : Signed(permit[p], i) = Signed(x, i)
      BY DEF Signed
    <3> QED
      BY <1>2, <3>1, <3>2 DEF ExpectedRows
  <2>2. ExpectedRows(p, x) = LineRows(p, kind, s, L)
    BY <1>3, NewPermit, ExpectedOfLines
  <2>3. RowsOf(p) = ExpectedRows(p, permit[p])
    BY <1>1 DEF AllExplained, Explained
  <2> QED
    BY <2>1, <2>2, <2>3
<1>5. /\ mirror \in {"receipt", "issue"} /\ (kind = "receipt" <=> mirror = "issue")
      /\ \A i, t : Delta(mirror, s, L, i, t) = - Delta(kind, s, L, i, t) /\ Delta(kind, s, L, i, t) \in Int
  <2>1. mirror \in {"receipt", "issue"} /\ (kind = "receipt" <=> mirror = "issue")
    BY <1>3 DEF Mirror
  <2> QED
    BY <1>3, <2>1, MirrorDelta
<1> HIDE DEF mirror
<1>6. change \in Lotted /\ \A t \in Depot : Lots(change, t) = Delta(mirror, s, L, Fresh, t)
  BY <1>1, <1>2, <1>3, <1>5, ChangeOfLots, PaperTypes DEF Enough
<1> HIDE DEF change
<1>7. batch' \in Lotted /\ \A t \in Depot : Lots(batch', t) = Lots(batch, t) - Delta(kind, s, L, Fresh, t)
  <2>1. /\ Added(batch, change) \in Lotted
        /\ \A t \in Depot : Lots(batch, t) \in Int /\ Lots(Added(batch, change), t) = Lots(batch, t) + Lots(change, t)
    BY <1>1, <1>6, LotsAdded, PaperTypes
  <2> QED
    BY <1>2, <1>5, <1>6, <2>1
<1>8. /\ batchLog' = [q \in Permit |-> batchLog'[q]]
      /\ (\A q \in Permit : batchLog'[q] \in Lotted)
      /\ (\A q \in Permit \ {r} : batchLog'[q] = batchLog[q])
      /\ (kind = "receipt" => \A t \in Depot : Lots(batchLog'[r], t) = - Delta(kind, s, L, Fresh, t))
  <2>1. batchLog \in [Permit -> Lotted]
    BY <1>1 DEF PaperTypeOK, Lotted
  <2> QED
    BY <1>2, <1>5, <1>6, <2>1, LotsOfNothing
<1>9. ASSUME NEW i \in Ware, NEW t \in Depot
      PROVE  Stock(i, t)' = Stock(i, t) - Delta(kind, s, L, i, t)
  <2>1. permitRows' \ mirroredRows' = (permitRows \ mirroredRows) \ RowsOf(p)
    BY <1>2
  <2>2. AreMoves(permitRows \ mirroredRows) /\ RowsOf(p) \subseteq permitRows \ mirroredRows
    BY <1>1, <1>2, PaperTypes
  <2>3. Net((permitRows \ mirroredRows) \ RowsOf(p), i, t) = Net(permitRows \ mirroredRows, i, t) - Net(RowsOf(p), i, t)
        /\ Net(permitRows \ mirroredRows, i, t) \in Int /\ Net(RowsOf(p), i, t) \in Int
    <3>1. PICK A : A = permitRows \ mirroredRows
      OBVIOUS
    <3>2. PICK B : B = RowsOf(p)
      OBVIOUS
    <3>3. AreMoves(A) /\ B \subseteq A
      BY <2>2, <3>1, <3>2
    <3>4. PICK C : C = A \ B
      OBVIOUS
    <3>5. C \cup B = A /\ C \cap B = {} /\ AreMoves(C) /\ AreMoves(B)
      BY <3>3, <3>4, NetLess
    <3>6. C \cap B = {} /\ AreMoves(C) /\ AreMoves(B)
      BY <3>5
    <3>7. Net(C \cup B, i, t) = Net(C, i, t) + Net(B, i, t) /\ Net(C, i, t) \in Int /\ Net(B, i, t) \in Int
      BY ONLY <3>6, NetJoin
    <3>8. C \cup B = A
      BY <3>5
    <3>9. Net(A, i, t) = Net(C \cup B, i, t)
      BY ONLY <3>8, Zenon
    <3>10. Net(C, i, t) = Net(A, i, t) - Net(B, i, t) /\ Net(A, i, t) \in Int
      BY ONLY <3>7, <3>9
    <3> QED
      BY <3>1, <3>2, <3>4, <3>7, <3>10
  <2>4. Net(RowsOf(p), i, t) = Delta(kind, s, L, i, t)
    BY <1>3, <1>4, NetOfLines
  <2>5. Stock(i, t)' = otherwise[t][i] + Net((permitRows \ mirroredRows) \ RowsOf(p), i, t)
    BY <1>2, <2>1 DEF Stock, InStore, Net
  <2>6. Stock(i, t) = otherwise[t][i] + Net(permitRows \ mirroredRows, i, t) /\ otherwise[t][i] \in Int
    BY <1>1, PaperTypes DEF Stock, InStore
  <2> QED
    BY ONLY <2>3, <2>4, <2>5, <2>6
<1>10. kind = "receipt" => \A i \in DOMAIN L : L[i].n =< Stock(i, s)
  BY <1>2, <1>5 DEF Enough, Stock
<1>11. r # p
  BY <1>2
<1>12. permit' = [permit EXCEPT ![r] = [kind |-> Mirror(kind), store |-> s, lines |-> L, reverses |-> p]]
  BY <1>2 DEF mirror
<1> QED
  BY <1>2, <1>3, <1>4, <1>7, <1>8, <1>9, <1>10, <1>11, <1>12

LEMMA ReverseKeeps ==
  ASSUME PaperInv, NEW p \in Permit, NEW r \in Permit, ReversePermit(p, r)
  PROVE  PaperKept
<1>1. PaperTypeOK /\ AllExplained /\ ReversalsMirror /\ Fresh \in Ware
  BY ExplainedIs DEF PaperInv, Ware
<1>2. PICK kind, s, L : kind = permit[p].kind /\ s = permit[p].store /\ L = permit[p].lines
  OBVIOUS
<1>3. /\ permit[p] # Null /\ permit[p].reverses = Null /\ ReversalOfPermit(p) = {}
      /\ permit[r] = Null /\ r # p /\ RowsOf(p) \cap mirroredRows = {}
      /\ RowsOf(p) = LineRows(p, kind, s, L)
      /\ kind \in {"receipt", "issue"} /\ s \in Depot /\ AreLinesOf(L, DOMAIN L)
      /\ permit' = [permit EXCEPT ![r] =
               [kind |-> Mirror(kind), store |-> s, lines |-> L, reverses |-> p]]
      /\ mirroredRows' = mirroredRows \cup RowsOf(p)
      /\ UNCHANGED <<permitRows, otherwise, scrap, tally>>
      /\ batch' \in Lotted /\ batchLog' = [q \in Permit |-> batchLog'[q]]
      /\ (\A q \in Permit : batchLog'[q] \in Lotted)
      /\ (\A q \in Permit \ {r} : batchLog'[q] = batchLog[q])
      /\ (\A t \in Depot : Lots(batch', t) = Lots(batch, t) - Delta(kind, s, L, Fresh, t))
      /\ (kind = "receipt" => \A t \in Depot : Lots(batchLog'[r], t) = - Delta(kind, s, L, Fresh, t))
      /\ (\A i \in Ware, t \in Depot : Stock(i, t)' = Stock(i, t) - Delta(kind, s, L, i, t))
      /\ kind = "receipt" => \A i \in DOMAIN L : L[i].n =< Stock(i, s)
  BY <1>2, ReverseRows
<1>4. PICK x : x = [kind |-> Mirror(kind), store |-> s, lines |-> L, reverses |-> p]
  OBVIOUS
<1>5. /\ Mirror(kind) \in {"receipt", "issue"} /\ Mirror(kind) # kind
      /\ \A i, t : Delta(kind, s, L, i, t) \in Int
  BY <1>3, MirrorDelta
<1>6. /\ x \in PermitRow(DOMAIN x.lines) /\ x # Null /\ x.lines = L /\ x.reverses = p
      /\ x.kind = Mirror(kind) /\ x.store = s
  BY <1>3, <1>4, <1>5, NewPermit
<1> HIDE DEF AreLinesOf
<1>7. /\ permit'[r] = x /\ (\A q \in Permit \ {r} : permit'[q] = permit[q])
      /\ permit' = [q \in Permit |-> permit'[q]]
  BY <1>1, <1>3, <1>4 DEF PaperTypeOK
<1>8. \A q : RowsOf(q)' = RowsOf(q)
  BY <1>3 DEF RowsOf
<1>9. RowsOf(r) = {} /\ ReversalOfPermit(r) = {} /\ RowsOf(p) # {}
  <2>1. RowsOf(r) = {} /\ ReversalOfPermit(r) = {}
    BY <1>1, <1>3 DEF AllExplained, Explained, ExpectedRows
  <2> QED
    BY <1>3, <2>1, NetOfLines
<1>10. ReversalOfPermit(p)' = {r} /\ \A q \in Permit \ {p} : ReversalOfPermit(q)' = ReversalOfPermit(q)
  BY <1>3, <1>6, <1>7 DEF ReversalOfPermit
<1>11. PaperTypeOK'
  <2>1. \A v \in Permit : permit'[v] # Null => /\ permit'[v] \in PermitRow(DOMAIN permit'[v].lines)
                                               /\ AreLinesOf(permit'[v].lines, DOMAIN permit'[v].lines)
    BY <1>1, <1>3, <1>6, <1>7 DEF PaperTypeOK
  <2>2. permitRows' \subseteq MovementRow /\ IsFiniteSet(permitRows') /\ mirroredRows' \subseteq permitRows'
    BY <1>1, <1>3 DEF PaperTypeOK, RowsOf
  <2>3. batchLog' \in [Permit -> [Depot -> [BestDay -> Int]]] /\ batch' \in [Depot -> [BestDay -> Int]]
    BY <1>3 DEF Lotted
  <2>4. /\ otherwise' \in [Depot -> [Ware -> Int]]
        /\ scrap' \in [Scrap -> ScrapRow \cup {Null}]
        /\ TallyTyped'
    BY <1>1, <1>3 DEF PaperTypeOK, TallyTyped
  <2> QED
    BY <1>7, <2>1, <2>2, <2>3, <2>4 DEF PaperTypeOK
<1>12. ASSUME NEW q \in Permit PROVE Explained(q)'
  <2>1. Explained(q)
    BY <1>1 DEF AllExplained
  <2>2. CASE q = r
    BY <1>3, <1>6, <1>7, <1>8, <1>9, <1>10, <2>2, PaperAssumption DEF Explained, ExpectedRows
  <2>3. CASE q = p
    <3>1. permit'[q] = permit[q] /\ RowsOf(q)' = RowsOf(q) /\ ReversalOfPermit(q)' = {r}
          /\ RowsOf(q) # {} /\ RowsOf(q) \subseteq mirroredRows'
      BY <1>3, <1>7, <1>8, <1>9, <1>10, <2>3
    <3> QED
      BY <2>1, <3>1 DEF Explained
  <2>4. CASE q # p /\ q # r
    <3>1. permit'[q] = permit[q] /\ RowsOf(q)' = RowsOf(q) /\ ReversalOfPermit(q)' = ReversalOfPermit(q)
      BY <1>7, <1>8, <1>10, <2>4
    <3> QED
      BY <1>3, <2>1, <3>1 DEF Explained
  <2> QED
    BY <2>2, <2>3, <2>4
<1>13. NothingLacks'
  <2> SUFFICES ASSUME NEW i \in Ware, NEW t \in Depot PROVE Stock(i, t)' >= 0
    BY DEF NothingLacks
  <2>1. Stock(i, t)' = Stock(i, t) - Delta(kind, s, L, i, t) /\ Stock(i, t) \in Int /\ Stock(i, t) >= 0
    BY <1>1, <1>3, PaperTypes DEF AllExplained, NothingLacks
  <2>2. CASE t = s /\ i \in DOMAIN L
    <3>1. Delta(kind, s, L, i, t) = Sign(kind) * L[i].n
      BY <2>2 DEF Delta
    <3>2. /\ Sign(kind) * L[i].n \in Int /\ L[i].n \in Nat
          /\ kind = "receipt" => Sign(kind) * L[i].n = L[i].n
          /\ kind = "issue" => Sign(kind) * L[i].n = - L[i].n
      BY <1>3, <2>2, SignedLine
    <3>3. kind = "receipt" => L[i].n =< Stock(i, t)
      BY <1>3, <2>2
    <3>4. kind = "receipt" \/ kind = "issue"
      BY <1>3
    <3> QED
      BY ONLY <2>1, <3>1, <3>2, <3>3, <3>4
  <2>3. CASE ~ (t = s /\ i \in DOMAIN L)
    <3>1. Delta(kind, s, L, i, t) = 0
      BY <2>3 DEF Delta
    <3> QED
      BY <2>1, <3>1
  <2> QED
    BY <2>2, <2>3
<1>14. ReversalsMirror'
  <2> SUFFICES ASSUME NEW v \in Permit, permit'[v] # Null, permit'[v].reverses # Null
               PROVE  LET y == permit'[permit'[v].reverses] IN
                      /\ y # Null /\ y.kind # permit'[v].kind /\ y.store = permit'[v].store
    BY DEF ReversalsMirror
  <2>1. CASE v = r
    BY <1>2, <1>3, <1>5, <1>6, <1>7, <2>1
  <2>2. CASE v # r
    <3>1. permit'[v] = permit[v]
      BY <1>7, <2>2
    <3>2. permit[v].reverses \in Permit /\ permit[permit[v].reverses] # Null
      BY <1>1, <3>1, PermitParts DEF ReversalsMirror
    <3>3. permit'[permit[v].reverses] = permit[permit[v].reverses]
      BY <1>3, <1>7, <3>2
    <3> QED
      BY <1>1, <3>1, <3>3 DEF ReversalsMirror
  <2> QED
    BY <2>1, <2>2
<1>15. PaperInv'
  <2>1. AllExplained'
    BY <1>12, <1>13 DEF AllExplained
  <2> QED
    BY <1>11, <1>14, <2>1, ExplainedIsNext DEF PaperInv
<1>16. ASSUME PapersAlone PROVE PapersAlone'
  <2>1. MirroredByLiving'
    <3> SUFFICES ASSUME NEW m \in mirroredRows' PROVE ReversalOfPermit(m.paper)' # {}
      BY DEF MirroredByLiving
    <3>1. CASE m \in RowsOf(p)
      BY <1>10, <3>1 DEF RowsOf
    <3>2. CASE m \notin RowsOf(p)
      <4>1. m \in mirroredRows /\ m.paper \in Permit
        BY <1>1, <1>3, <3>2 DEF PaperTypeOK, MovementRow
      <4>2. ReversalOfPermit(m.paper) # {}
        BY <1>16, <4>1 DEF PapersAlone, MirroredByLiving
      <4> QED
        BY <1>10, <4>1, <4>2
    <3> QED
      BY <3>1, <3>2
  <2>2. LotsExplained'
    <3> SUFFICES ASSUME NEW t \in Depot PROVE Lots(batch', t) = Stock(Fresh, t)' + Wasted(t)'
      BY LotsAreNext
    <3>1. Wasted(t)' = Wasted(t)
      BY <1>3 DEF Wasted, WastedBy
    <3>2. /\ Stock(Fresh, t)' = Stock(Fresh, t) - Delta(kind, s, L, Fresh, t)
          /\ Lots(batch', t) = Lots(batch, t) - Delta(kind, s, L, Fresh, t)
          /\ Delta(kind, s, L, Fresh, t) \in Int
      BY <1>1, <1>3, <1>5
    <3>3. Lots(batch, t) = Stock(Fresh, t) + Wasted(t) /\ Wasted(t) \in Int /\ Stock(Fresh, t) \in Int
      BY <1>1, <1>16, LotsAre, WastedInt, PaperTypes DEF PapersAlone
    <3> QED
      BY ONLY <3>1, <3>2, <3>3
  <2>3. LogSays'
    <3> SUFFICES ASSUME NEW q \in Permit, NEW t \in Depot, permit'[q] # Null
                 PROVE  /\ permit'[q].reverses = Null => Lots(batchLog'[q], t) = Net(RowsOf(q)', Fresh, t)
                        /\ permit'[q].reverses # Null /\ permit'[q].kind = "issue" =>
                             Lots(batchLog'[q], t) = - Net(RowsIn(permitRows', permit'[q].reverses), Fresh, t)
      BY DEF LogSays, Lots, Net, RowsOf, RowsIn
    <3>1. RowsIn(permitRows', permit'[q].reverses) = RowsOf(permit'[q].reverses)
      BY <1>3 DEF RowsIn, RowsOf
    <3>2. CASE q = r
      <4>1. Net(RowsOf(p), Fresh, t) = Delta(kind, s, L, Fresh, t)
        BY <1>1, <1>3, NetOfLines
      <4>2. kind = "receipt" <=> Mirror(kind) = "issue"
        BY DEF Mirror
      <4> QED
        BY <1>3, <1>6, <1>7, <3>1, <3>2, <4>1, <4>2, PaperAssumption
    <3>3. CASE q # r
      <4>1. permit'[q] = permit[q] /\ batchLog'[q] = batchLog[q] /\ RowsOf(q)' = RowsOf(q)
        BY <1>3, <1>7, <1>8, <3>3
      <4>2. /\ permit[q].reverses = Null => Lots(batchLog[q], t) = Net(RowsOf(q), Fresh, t)
            /\ permit[q].reverses # Null /\ permit[q].kind = "issue" =>
                  Lots(batchLog[q], t) = - Net(RowsOf(permit[q].reverses), Fresh, t)
        BY <1>16, <4>1 DEF PapersAlone, LogSays
      <4> QED
        BY <3>1, <4>1, <4>2
    <3> QED
      BY <3>2, <3>3
  <2> QED
    BY <2>1, <2>2, <2>3 DEF PapersAlone
<1> QED
  BY <1>15, <1>16 DEF PaperKept

(* The other papers leave permits alone.                                    *)
LEMMA OthersKeep ==
  ASSUME PaperInv, UNCHANGED permitVars,
         batch' \in Lotted, otherwise' \in [Depot -> [Ware -> Int]],
         scrap' \in [Scrap -> ScrapRow \cup {Null}],
         TallyTyped',
         \A i \in Ware, s \in Depot : Stock(i, s)' >= 0,
         PapersAlone => \A s \in Depot : Lots(batch', s) = Stock(Fresh, s)' + Wasted(s)'
  PROVE  PaperKept
<1>1. PaperTypeOK /\ AllExplained /\ ReversalsMirror
  BY ExplainedIs DEF PaperInv
<1>2. permit' = permit /\ permitRows' = permitRows /\ mirroredRows' = mirroredRows /\ batchLog' = batchLog
  BY DEF permitVars
<1>3. PaperTypeOK'
  BY <1>1, <1>2 DEF PaperTypeOK, Lotted
<1>4. AllExplained'
  <2>1. \A p \in Permit : Explained(p)' <=> Explained(p)
    BY <1>2 DEF Explained, RowsOf, ReversalOfPermit
  <2>2. NothingLacks'
    BY DEF NothingLacks
  <2> QED
    BY <1>1, <2>1, <2>2 DEF AllExplained
<1>5. ReversalsMirror'
  BY <1>1, <1>2 DEF ReversalsMirror
<1>6. ASSUME PapersAlone PROVE PapersAlone'
  <2>1. MirroredByLiving'
    BY <1>2, <1>6 DEF PapersAlone, MirroredByLiving, ReversalOfPermit
  <2>2. LogSays' <=> LogSays
    BY <1>2 DEF LogSays, RowsOf, Lots, Net
  <2>3. LotsExplained'
    BY <1>6, LotsAreNext
  <2> QED
    BY <1>6, <2>1, <2>2, <2>3 DEF PapersAlone
<1> QED
  BY <1>3, <1>4, <1>5, <1>6, ExplainedIsNext DEF PaperInv, PaperKept

LEMMA Shifted ==
  ASSUME PaperTypeOK, UNCHANGED permitVars, NEW i \in Ware, NEW s \in Depot, NEW n \in Int, Shift(i, s, n)
  PROVE  /\ otherwise' \in [Depot -> [Ware -> Int]]
         /\ Stock(i, s)' = Stock(i, s) + n
         /\ \A j \in Ware, t \in Depot : ~ (j = i /\ t = s) => Stock(j, t)' = Stock(j, t)
<1>1. otherwise' = [otherwise EXCEPT ![s][i] = @ + n] /\ otherwise \in [Depot -> [Ware -> Int]]
  BY DEF Shift, PaperTypeOK
<1>2. otherwise' \in [Depot -> [Ware -> Int]] /\ otherwise'[s][i] = otherwise[s][i] + n
      /\ \A j \in Ware, t \in Depot : ~ (j = i /\ t = s) => otherwise'[t][j] = otherwise[t][j]
  BY <1>1
<1>3. \A j \in Ware, t \in Depot :
         /\ Stock(j, t) = otherwise[t][j] + Net(permitRows \ mirroredRows, j, t)
         /\ Stock(j, t)' = otherwise'[t][j] + Net(permitRows \ mirroredRows, j, t)
         /\ Net(permitRows \ mirroredRows, j, t) \in Int /\ otherwise[t][j] \in Int
  <2>1. \A j, t : Net(permitRows \ mirroredRows, j, t) \in Int
    BY PaperTypes, NetLess
  <2>2. permitRows' = permitRows /\ mirroredRows' = mirroredRows
    BY DEF permitVars
  <2>3. \A j, t : /\ Stock(j, t) = otherwise[t][j] + Net(permitRows \ mirroredRows, j, t)
                 /\ Stock(j, t)' = otherwise'[t][j] + Net(permitRows \ mirroredRows, j, t)
    BY <2>2 DEF Stock, InStore, Net
  <2> QED
    BY <1>1, <2>1, <2>3
<1> QED
  BY <1>2, <1>3

LEMMA TypesKept ==
  ASSUME PaperTypeOK
  PROVE  /\ batch \in Lotted /\ scrap \in [Scrap -> ScrapRow \cup {Null}]
         /\ (UNCHANGED tally => TallyTyped')
         /\ UNCHANGED scrap => (\A s : Wasted(s)' = Wasted(s))
         /\ UNCHANGED <<permitVars, otherwise>> => \A i, s : Stock(i, s)' = Stock(i, s)
  BY DEF PaperTypeOK, TallyTyped, Lotted, Wasted, WastedBy, Stock, InStore, Net, permitVars

(* One scrap's part of what was wasted changes.                             *)
LEMMA WastedChanged ==
  ASSUME PaperTypeOK, NEW w \in Scrap, NEW x \in ScrapRow, scrap' = [scrap EXCEPT ![w] = x], NEW s
  PROVE  Wasted(s)' = Wasted(s) - WastedBy(w, s)
                        + (IF ~ x.undone /\ x.item = Fresh /\ x.store = s THEN x.n ELSE 0)
<1> DEFINE f == [v \in Scrap |-> WastedBy(v, s)]
           g == [v \in Scrap |-> WastedBy(v, s)']
           n == IF ~ x.undone /\ x.item = Fresh /\ x.store = s THEN x.n ELSE 0
<1>1. scrap \in [Scrap -> ScrapRow \cup {Null}] /\ x # Null /\ x.n \in Nat
  BY PaperNull DEF PaperTypeOK, ScrapRow
<1>2. \A v \in Scrap : f[v] \in Int
  BY <1>1 DEF WastedBy, ScrapRow
<1>3. g[w] = n /\ n \in Int
  BY <1>1 DEF WastedBy
<1>4. \A v \in Scrap \ {w} : g[v] = f[v]
  BY <1>1 DEF WastedBy
<1>5. Wasted(s) = SumFunctionOnSet(f, Scrap) /\ Wasted(s)' = SumFunctionOnSet(g, Scrap) /\ f[w] = WastedBy(w, s)
  BY DEF Wasted
<1> HIDE DEF f, g, n
<1>6. SumFunctionOnSet(g, Scrap) = SumFunctionOnSet(f, Scrap) + g[w] - f[w]
  BY <1>2, <1>3, <1>4, SumChange, PaperAssumption
<1>7. SumFunctionOnSet(f, Scrap) \in Int /\ f[w] \in Int
  BY <1>2, SumInt, PaperAssumption
<1> QED
  BY <1>3, <1>5, <1>6, <1>7 DEF n

LEMMA WasteKeeps ==
  ASSUME PaperInv, NEW w \in Scrap, NEW i \in Ware, NEW s \in Depot, Waste(w, i, s, 1)
  PROVE  PaperKept
<1>1. PaperTypeOK /\ AllExplained
  BY ExplainedIs DEF PaperInv
<1>2. PICK x : x = [item |-> i, store |-> s, n |-> 1, undone |-> FALSE]
  OBVIOUS
<1>3. /\ scrap[w] = Null /\ Stock(i, s) >= 1 /\ Shift(i, s, -1)
      /\ scrap' = [scrap EXCEPT ![w] = x] /\ UNCHANGED <<permitVars, batch, tally>>
  BY <1>2 DEF Waste
<1>4. x \in ScrapRow /\ x.item = i /\ x.store = s /\ x.n = 1 /\ x.undone = FALSE
  BY <1>2 DEF ScrapRow, Ware
<1>5. /\ otherwise' \in [Depot -> [Ware -> Int]] /\ Stock(i, s)' = Stock(i, s) - 1
      /\ \A j \in Ware, t \in Depot : ~ (j = i /\ t = s) => Stock(j, t)' = Stock(j, t)
  <2>1. -1 \in Int /\ UNCHANGED permitVars
    BY <1>3
  <2>2. /\ otherwise' \in [Depot -> [Ware -> Int]] /\ Stock(i, s)' = Stock(i, s) + (-1)
        /\ \A j \in Ware, t \in Depot : ~ (j = i /\ t = s) => Stock(j, t)' = Stock(j, t)
    BY <1>1, <1>3, <2>1, Shifted
  <2>3. Stock(i, s) \in Int
    BY <1>1, PaperTypes
  <2> QED
    BY <2>2, <2>3
<1>6. scrap' \in [Scrap -> ScrapRow \cup {Null}]
  BY <1>1, <1>3, <1>4, TypesKept
<1>7. \A j \in Ware, t \in Depot : Stock(j, t)' >= 0
  BY <1>1, <1>3, <1>5, PaperTypes DEF AllExplained, NothingLacks
<1>8. ASSUME PapersAlone, NEW t \in Depot PROVE Lots(batch', t) = Stock(Fresh, t)' + Wasted(t)'
  <2>1. Wasted(t)' = Wasted(t) - WastedBy(w, t) + (IF ~ x.undone /\ x.item = Fresh /\ x.store = t THEN x.n ELSE 0)
    BY <1>1, <1>3, <1>4, WastedChanged
  <2>2. WastedBy(w, t) = 0
    BY <1>3 DEF WastedBy
  <2>3. Lots(batch, t) = Stock(Fresh, t) + Wasted(t) /\ Wasted(t) \in Int /\ Stock(Fresh, t) \in Int
    BY <1>1, <1>8, LotsAre, WastedInt, PaperTypes DEF PapersAlone, Ware
  <2>4. Stock(Fresh, t)' = Stock(Fresh, t) - IF i = Fresh /\ s = t THEN 1 ELSE 0
    BY <1>5, <2>3 DEF Ware
  <2>5. Lots(batch', t) = Lots(batch, t)
    BY <1>3
  <2> QED
    BY <1>4, <2>1, <2>2, <2>3, <2>4, <2>5
<1> QED
  BY <1>1, <1>3, <1>5, <1>6, <1>7, <1>8, OthersKeep, TypesKept

LEMMA ReverseWastageKeeps ==
  ASSUME PaperInv, NEW w \in Scrap, ReverseWastage(w)
  PROVE  PaperKept
<1>1. PaperTypeOK /\ AllExplained
  BY ExplainedIs DEF PaperInv
<1>2. PICK i, s, n : i = scrap[w].item /\ s = scrap[w].store /\ n = scrap[w].n
  OBVIOUS
<1>3. PICK x : x = [scrap[w] EXCEPT !.undone = TRUE]
  OBVIOUS
<1>4. /\ scrap[w] # Null /\ ~ scrap[w].undone /\ Shift(i, s, n)
      /\ scrap' = [scrap EXCEPT ![w] = x] /\ UNCHANGED <<permitVars, batch, tally>>
  BY <1>2, <1>3 DEF ReverseWastage
<1>5. scrap[w] \in ScrapRow
  BY <1>1, <1>4 DEF PaperTypeOK
<1>6. x \in ScrapRow /\ x.undone = TRUE /\ i \in Ware /\ s \in Depot /\ n \in Nat
  BY <1>2, <1>3, <1>5 DEF ScrapRow, Ware
<1>7. /\ otherwise' \in [Depot -> [Ware -> Int]] /\ Stock(i, s)' = Stock(i, s) + n
      /\ \A j \in Ware, t \in Depot : ~ (j = i /\ t = s) => Stock(j, t)' = Stock(j, t)
  <2>1. n \in Int /\ UNCHANGED permitVars
    BY <1>4, <1>6
  <2> QED
    BY <1>1, <1>4, <1>6, <2>1, Shifted
<1>8. scrap' \in [Scrap -> ScrapRow \cup {Null}]
  BY <1>1, <1>4, <1>6, TypesKept
<1>9. \A j \in Ware, t \in Depot : Stock(j, t)' >= 0
  BY <1>1, <1>6, <1>7, PaperTypes DEF AllExplained, NothingLacks
<1>10. ASSUME PapersAlone, NEW t \in Depot PROVE Lots(batch', t) = Stock(Fresh, t)' + Wasted(t)'
  <2>1. Wasted(t)' = Wasted(t) - WastedBy(w, t) + (IF ~ x.undone /\ x.item = Fresh /\ x.store = t THEN x.n ELSE 0)
    BY <1>1, <1>4, <1>6, WastedChanged
  <2>2. WastedBy(w, t) = IF i = Fresh /\ s = t THEN n ELSE 0
    BY <1>2, <1>4 DEF WastedBy
  <2>3. Lots(batch, t) = Stock(Fresh, t) + Wasted(t) /\ Wasted(t) \in Int /\ Stock(Fresh, t) \in Int
    BY <1>1, <1>10, LotsAre, WastedInt, PaperTypes DEF PapersAlone, Ware
  <2>4. Stock(Fresh, t)' = Stock(Fresh, t) + IF i = Fresh /\ s = t THEN n ELSE 0
    BY <1>6, <1>7, <2>3 DEF Ware
  <2>5. Lots(batch', t) = Lots(batch, t)
    BY <1>4
  <2> QED
    BY <1>6, <2>1, <2>2, <2>3, <2>4, <2>5
<1> QED
  BY <1>1, <1>4, <1>7, <1>8, <1>9, <1>10, OthersKeep, TypesKept

LEMMA SellOneKeeps ==
  ASSUME PaperInv, NEW i \in Ware, NEW s \in Depot, SellOne(i, s)
  PROVE  PaperKept
<1>1. PaperTypeOK /\ AllExplained
  BY ExplainedIs DEF PaperInv
<1> DEFINE g == FirstOut(batch, s, 1)
<1>2. /\ Stock(i, s) >= 1 /\ Shift(i, s, -1) /\ UNCHANGED <<permitVars, scrap, tally>>
      /\ (i = Fresh => InBatches(batch, s) >= 1)
      /\ batch' = IF i = Fresh THEN Removed(batch, At(s, g)) ELSE batch
  BY DEF SellOne
<1>3. /\ otherwise' \in [Depot -> [Ware -> Int]] /\ Stock(i, s)' = Stock(i, s) - 1
      /\ \A j \in Ware, t \in Depot : ~ (j = i /\ t = s) => Stock(j, t)' = Stock(j, t)
  <2>1. -1 \in Int /\ UNCHANGED permitVars
    BY <1>2
  <2>2. /\ otherwise' \in [Depot -> [Ware -> Int]] /\ Stock(i, s)' = Stock(i, s) + (-1)
        /\ \A j \in Ware, t \in Depot : ~ (j = i /\ t = s) => Stock(j, t)' = Stock(j, t)
    BY <1>1, <1>2, <2>1, Shifted
  <2>3. Stock(i, s) \in Int
    BY <1>1, PaperTypes
  <2> QED
    BY <2>2, <2>3
<1>4. batch \in Lotted
  BY <1>1, PaperTypes
<1>5. /\ batch' \in Lotted
      /\ \A t \in Depot : Lots(batch', t) = Lots(batch, t) - IF i = Fresh /\ t = s THEN 1 ELSE 0
  <2>1. CASE i = Fresh
    <3>1. InBatches(batch, s) >= 1
      BY <1>2, <2>1
    <3>2. InBatches(batch, s) \in Int => 1 =< InBatches(batch, s)
      BY <3>1
    <3>3. InBatches(batch, s) \in Int
      <4>1. \A d \in BestDay : Usable(batch, s)[d] \in Int
        BY <1>4 DEF Usable, Lotted
      <4> QED
        BY <4>1, SumInt, BestDayAssumption DEF InBatches
    <3>4. g \in [BestDay -> Nat] /\ SumFunctionOnSet(g, BestDay) = 1
      BY <1>4, <3>2, <3>3, FirstOutSum
    <3> HIDE DEF g
    <3>5. g \in [BestDay -> Int]
      BY <3>4
    <3>6. /\ At(s, g) \in Lotted
          /\ \A t \in Depot : Lots(At(s, g), t) = IF t = s THEN 1 ELSE 0
      BY <3>4, <3>5, LotsAt
    <3>7. PICK c : c = At(s, g)
      OBVIOUS
    <3>8. Removed(batch, c) \in Lotted /\ \A t \in Depot : Lots(Removed(batch, c), t) = Lots(batch, t) - Lots(c, t)
      BY <1>4, <3>6, <3>7, LotsRemoved
    <3> QED
      BY <1>2, <2>1, <3>6, <3>7, <3>8
  <2>2. CASE i # Fresh
    <3>1. \A t \in Depot : Lots(batch, t) \in Int
      BY <1>4, LotsAdded
    <3> QED
      BY <1>2, <1>4, <2>2, <3>1
  <2> QED
    BY <2>1, <2>2
<1>6. \A j \in Ware, t \in Depot : Stock(j, t)' >= 0
  BY <1>1, <1>2, <1>3, PaperTypes DEF AllExplained, NothingLacks
<1>7. ASSUME PapersAlone, NEW t \in Depot PROVE Lots(batch', t) = Stock(Fresh, t)' + Wasted(t)'
  <2>1. Wasted(t)' = Wasted(t)
    BY <1>1, <1>2, TypesKept
  <2>2. Lots(batch, t) = Stock(Fresh, t) + Wasted(t) /\ Wasted(t) \in Int /\ Stock(Fresh, t) \in Int
    BY <1>1, <1>7, LotsAre, WastedInt, PaperTypes DEF PapersAlone, Ware
  <2>3. Stock(Fresh, t)' = Stock(Fresh, t) - IF i = Fresh /\ t = s THEN 1 ELSE 0
    BY <1>3, <2>2 DEF Ware
  <2>4. Lots(batch', t) = Lots(batch, t) - IF i = Fresh /\ t = s THEN 1 ELSE 0
    BY <1>5
  <2> QED
    BY ONLY <2>1, <2>2, <2>3, <2>4
<1>8. scrap' \in [Scrap -> ScrapRow \cup {Null}]
      /\ TallyTyped'
  BY <1>1, <1>2, TypesKept
<1> QED
  BY <1>2, <1>3, <1>5, <1>6, <1>7, <1>8, OthersKeep

(* A sheet that is not posted moves nothing.                                *)
LEMMA SheetsKeep ==
  ASSUME PaperInv, UNCHANGED <<permitVars, batch, otherwise, scrap>>, TallyTyped'
  PROVE  PaperKept
<1>1. PaperTypeOK /\ AllExplained
  BY ExplainedIs DEF PaperInv
<1>2. \A i, s : Stock(i, s)' = Stock(i, s) /\ Wasted(s)' = Wasted(s)
  BY <1>1, TypesKept
<1>3. otherwise' \in [Depot -> [Ware -> Int]] /\ batch' \in Lotted /\ scrap' \in [Scrap -> ScrapRow \cup {Null}]
  BY <1>1, TypesKept DEF PaperTypeOK
<1>4. \A i \in Ware, s \in Depot : Stock(i, s)' >= 0
  BY <1>1, <1>2 DEF AllExplained, NothingLacks
<1>5. ASSUME PapersAlone, NEW s \in Depot PROVE Lots(batch', s) = Stock(Fresh, s)' + Wasted(s)'
  BY <1>2, <1>5, LotsAre DEF PapersAlone
<1> QED
  BY <1>3, <1>4, <1>5, OthersKeep

LEMMA SheetKeeps ==
  ASSUME PaperInv, NEW c \in CountSheet, NEW f, f \in [DOMAIN f -> Nat],
         OpenSheet(c, DOMAIN f) \/ EnterCounts(c, f) \/ SaveSheet(c, f) \/ CancelSheet(c) \/ DeleteSheet(c)
  PROVE  PaperKept
<1>1. PaperTypeOK
  BY DEF PaperInv
<1>2. UNCHANGED <<permitVars, batch, otherwise, scrap>>
  BY DEF OpenSheet, EnterCounts, SaveSheet, CancelSheet, DeleteSheet
<1>3. TallyTyped
  BY <1>1 DEF PaperTypeOK
<1>4. f \in [DOMAIN f -> Nat]
  OBVIOUS
<1>5. ASSUME NEW d \in CountSheet, tally'[d] # Null
      PROVE  tally'[d] \in SheetRow(DOMAIN tally'[d].counted)
  <2> DEFINE Good(x) == x # Null => x \in SheetRow(DOMAIN x.counted)
  <2>1. tally = [e \in CountSheet |-> tally[e]] /\ Good(tally[c]) /\ Good(tally[d])
    BY <1>3 DEF TallyTyped
  <2>2. CASE d # c
    <3>1. tally'[d] = tally[d]
      BY <2>1, <2>2 DEF OpenSheet, EnterCounts, SaveSheet, CancelSheet, DeleteSheet
    <3> QED
      BY <1>5, <2>1, <3>1
  <2>3. CASE d = c
    <3>1. CASE OpenSheet(c, DOMAIN f)
      <4>1. tally'[c] = [status |-> "draft", typed |-> FALSE, counted |-> [y \in DOMAIN f |-> Null]]
        BY <2>1, <3>1 DEF OpenSheet
      <4> QED
        BY <2>3, <4>1 DEF SheetRow
    <3>2. CASE SaveSheet(c, f)
      <4>1. tally'[c] = [status |-> "draft", typed |-> TRUE, counted |-> f]
        BY <2>1, <3>2 DEF SaveSheet
      <4>2. f \in [DOMAIN f -> Nat \cup {Null}]
        BY <1>4
      <4> QED
        BY <2>3, <4>1, <4>2 DEF SheetRow
    <3>3. CASE DeleteSheet(c)
      BY <1>5, <2>1, <2>3, <3>3 DEF DeleteSheet
    <3>4. CASE CancelSheet(c)
      <4>1. tally[c] # Null /\ tally'[c] = [tally[c] EXCEPT !.status = "cancelled"]
        BY <2>1, <3>4 DEF CancelSheet
      <4> QED
        BY <2>1, <2>3, <4>1 DEF SheetRow
    <3>5. CASE EnterCounts(c, f)
      <4>1. PICK h : h = tally[c].counted
        OBVIOUS
      <4>2. PICK g : g = [y \in DOMAIN h |-> IF y \in DOMAIN f THEN f[y] ELSE h[y]]
        OBVIOUS
      <4>3. tally[c] # Null /\ tally'[c] = [tally[c] EXCEPT !.counted = g]
        BY <2>1, <3>5, <4>1, <4>2 DEF EnterCounts, Draft
      <4>4. tally[c] \in SheetRow(DOMAIN h) /\ h \in [DOMAIN h -> Nat \cup {Null}]
        BY <2>1, <4>1, <4>3 DEF SheetRow
      <4>5. g \in [DOMAIN h -> Nat \cup {Null}] /\ DOMAIN g = DOMAIN h
        BY <1>4, <4>2, <4>4
      <4> QED
        BY <2>3, <4>3, <4>4, <4>5 DEF SheetRow
    <3> QED
      BY <3>1, <3>2, <3>3, <3>4, <3>5
  <2> QED
    BY <2>2, <2>3
<1>6. tally' = [d \in CountSheet |-> tally'[d]]
  BY <1>3 DEF TallyTyped, OpenSheet, EnterCounts, SaveSheet, CancelSheet, DeleteSheet
<1>7. TallyTyped'
  BY <1>5, <1>6 DEF TallyTyped
<1> QED
  BY <1>2, <1>7, SheetsKeep

(* What is counted becomes the stock; what perishes had it already.         *)
LEMMA PostSheetKeeps ==
  ASSUME PaperInv, NEW c \in CountSheet, PostSheet(c)
  PROVE  PaperKept
<1>1. PaperTypeOK /\ AllExplained /\ TallyTyped
  BY ExplainedIs DEF PaperInv, PaperTypeOK
<1>2. PICK f : f = tally[c].counted
  OBVIOUS
<1>3. PICK done : done = {x \in DOMAIN f : f[x] # Null}
  OBVIOUS
<1> DEFINE more(i, s) == IF <<s, i>> \in done THEN f[<<s, i>>] - Stock(i, s) ELSE 0
<1>4. /\ tally[c] # Null
      /\ \A x \in done : x[2] = Fresh => f[x] = Stock(x[2], x[1])
      /\ otherwise' = [s \in Depot |-> [i \in Ware |-> otherwise[s][i] + more(i, s)]]
      /\ tally' = [tally EXCEPT ![c].status = "posted"]
      /\ UNCHANGED <<permitVars, batch, scrap>>
  BY <1>2, <1>3 DEF PostSheet, Draft
<1>5. \A x \in done : f[x] \in Nat
  <2>1. tally[c] \in SheetRow(DOMAIN f)
    BY <1>1, <1>2, <1>4 DEF TallyTyped
  <2>2. f \in [DOMAIN f -> Nat \cup {Null}]
    BY <1>2, <2>1 DEF SheetRow
  <2> QED
    BY <1>3, <2>2
<1>6. \A i \in Ware, s \in Depot : Stock(i, s) \in Int /\ Stock(i, s) >= 0 /\ otherwise[s][i] \in Int
  BY <1>1, PaperTypes DEF AllExplained, NothingLacks
<1>7. \A i \in Ware, s \in Depot : more(i, s) \in Int
  BY <1>5, <1>6
<1>8. ASSUME NEW i \in Ware, NEW s \in Depot
      PROVE  Stock(i, s)' = IF <<s, i>> \in done THEN f[<<s, i>>] ELSE Stock(i, s)
  <2>1. permitRows' = permitRows /\ mirroredRows' = mirroredRows
    BY <1>4 DEF permitVars
  <2>2. PICK n : n = Net(permitRows \ mirroredRows, i, s)
    OBVIOUS
  <2>3. Stock(i, s) = otherwise[s][i] + n /\ Stock(i, s)' = otherwise'[s][i] + n
    BY <2>1, <2>2 DEF Stock, InStore, Net
  <2>4. n \in Int
    <3>1. \A j, t : Net(permitRows \ mirroredRows, j, t) \in Int
      BY <1>1, PaperTypes, NetLess
    <3> QED
      BY <2>2, <3>1
  <2> HIDE DEF more
  <2>5. otherwise'[s][i] = otherwise[s][i] + more(i, s)
    BY <1>4
  <2>6. more(i, s) = IF <<s, i>> \in done THEN f[<<s, i>>] - Stock(i, s) ELSE 0
    BY DEF more
  <2>7. more(i, s) \in Int /\ otherwise[s][i] \in Int
    BY <1>6, <1>7
  <2>8. Stock(i, s)' = Stock(i, s) + more(i, s)
    BY <2>3, <2>4, <2>5, <2>7
  <2> QED
    BY <1>5, <1>6, <2>6, <2>8
<1>9. ASSUME NEW i \in Ware, NEW s \in Depot PROVE Stock(i, s)' >= 0
  <2>1. Stock(i, s)' = IF <<s, i>> \in done THEN f[<<s, i>>] ELSE Stock(i, s)
    BY <1>8
  <2>2. Stock(i, s) \in Int /\ Stock(i, s) >= 0
    BY <1>6
  <2>3. <<s, i>> \in done => f[<<s, i>>] \in Nat
    BY <1>5
  <2> QED
    BY ONLY <2>1, <2>2, <2>3
<1>10. ASSUME PapersAlone, NEW s \in Depot PROVE Lots(batch', s) = Stock(Fresh, s)' + Wasted(s)'
  <2>1. Stock(Fresh, s)' = Stock(Fresh, s)
    <3>1. <<s, Fresh>>[2] = Fresh /\ <<s, Fresh>>[1] = s /\ Fresh \in Ware
      BY DEF Ware
    <3>2. <<s, Fresh>> \in done => f[<<s, Fresh>>] = Stock(Fresh, s)
      BY <1>4, <3>1
    <3> QED
      BY <1>8, <3>1, <3>2
  <2>2. Wasted(s)' = Wasted(s) /\ Lots(batch', s) = Lots(batch, s)
    BY <1>1, <1>4, TypesKept
  <2> QED
    BY <1>10, <2>1, <2>2, LotsAre DEF PapersAlone
<1>11. otherwise' \in [Depot -> [Ware -> Int]]
  <2>1. \A i \in Ware, s \in Depot : otherwise[s][i] + more(i, s) \in Int
    <3> HIDE DEF more
    <3> QED
      BY ONLY <1>6, <1>7
  <2> QED
    BY <1>4, <2>1
<1>12. TallyTyped'
  <2>1. tally = [e \in CountSheet |-> tally[e]]
        /\ \A e \in CountSheet : tally[e] # Null => tally[e] \in SheetRow(DOMAIN tally[e].counted)
    BY <1>1 DEF TallyTyped
  <2>2. tally' = [e \in CountSheet |-> tally'[e]]
        /\ (\A e \in CountSheet \ {c} : tally'[e] = tally[e])
        /\ tally'[c] = [tally[c] EXCEPT !.status = "posted"]
    BY <1>4, <2>1
  <2>3. tally'[c] \in SheetRow(DOMAIN tally'[c].counted)
    BY <1>4, <2>1, <2>2 DEF SheetRow
  <2> QED
    BY <2>1, <2>2, <2>3 DEF TallyTyped
<1>13. scrap' \in [Scrap -> ScrapRow \cup {Null}] /\ batch' \in Lotted
  BY <1>1, <1>4, TypesKept
<1> QED
  BY <1>4, <1>9, <1>10, <1>11, <1>12, <1>13, OthersKeep

(* Every step keeps them, and where papers are undone in order, what holds  *)
(* there besides.                                                           *)
LEMMA PaperStepKeeps ==
  ASSUME PaperInv, PaperNext
  PROVE  PaperInv' /\ (PapersAlone /\ UndoneInOrder => PapersAlone')
<1>1. ASSUME NEW p \in Permit, NEW kind \in {"receipt", "issue"}, NEW s \in Depot, NEW L \in PermitLines,
             CreatePermit(p, kind, s, L)
      PROVE  PaperKept
  BY <1>1, CreateKeeps
<1>2. ASSUME NEW p \in Permit, NEW s \in Depot, NEW L \in PermitLines, UpdatePermit(p, s, L)
      PROVE  PaperKept
  BY <1>2, UpdateKeeps
<1>3. ASSUME NEW p \in Permit, DeletePermit(p)
      PROVE  PaperInv' /\ (PapersAlone /\ UndoneInOrder => PapersAlone')
  BY <1>3, DeleteKeeps, DeleteKeepsAlone
<1>4. ASSUME NEW p \in Permit, NEW r \in Permit, ReversePermit(p, r) PROVE PaperKept
  BY <1>4, ReverseKeeps
<1>5. ASSUME WasteNext PROVE PaperKept
  BY <1>5, WasteKeeps, ReverseWastageKeeps DEF WasteNext
<1>6. ASSUME CountNext PROVE PaperKept
  <2>1. PICK c \in CountSheet :
            \/ \E f \in Counts : OpenSheet(c, DOMAIN f) \/ EnterCounts(c, f) \/ SaveSheet(c, f)
            \/ PostSheet(c) \/ CancelSheet(c) \/ DeleteSheet(c)
    BY <1>6 DEF CountNext
  <2>2. CASE \E f \in Counts : OpenSheet(c, DOMAIN f) \/ EnterCounts(c, f) \/ SaveSheet(c, f)
    BY <2>2, SheetKeeps, PaperAssumption
  <2>3. CASE CancelSheet(c) \/ DeleteSheet(c)
    <3>1. PICK f : f = [x \in {} |-> 0]
      OBVIOUS
    <3>2. f \in [DOMAIN f -> Nat]
      BY <3>1
    <3> QED
      BY <2>3, <3>2, SheetKeeps
  <2> QED
    BY <2>1, <2>2, <2>3, PostSheetKeeps
<1>7. ASSUME NEW i \in Ware, NEW s \in Depot, SellOne(i, s) PROVE PaperKept
  BY <1>7, SellOneKeeps
<1> QED
  BY <1>1, <1>2, <1>3, <1>4, <1>5, <1>6, <1>7 DEF PaperNext, PermitNext, PaperKept

LEMMA PaperStart ==
  ASSUME PaperInit
  PROVE  PaperInv /\ PapersAlone
<1>1. /\ permit = [p \in Permit |-> Null] /\ permitRows = {} /\ mirroredRows = {}
      /\ batch = NoBatch /\ batchLog = [p \in Permit |-> NoBatch]
      /\ otherwise = [s \in Depot |-> [i \in Ware |-> 0]]
      /\ scrap = [w \in Scrap |-> Null] /\ tally = [c \in CountSheet |-> Null]
  BY DEF PaperInit
<1>2. PaperTypeOK
  <2>1. TallyTyped
    BY <1>1 DEF TallyTyped
  <2>2. batch \in [Depot -> [BestDay -> Int]] /\ batchLog \in [Permit -> [Depot -> [BestDay -> Int]]]
    BY <1>1, LotsOfNothing DEF Lotted
  <2>3. IsFiniteSet(permitRows)
    BY <1>1, FS_EmptySet
  <2> QED
    BY <1>1, <2>1, <2>2, <2>3 DEF PaperTypeOK
<1>3. \A i \in Ware, s \in Depot : Stock(i, s) = 0
  <2>1. permitRows \ mirroredRows = {}
    BY <1>1
  <2>2. \A i, s : Net({}, i, s) = 0
    BY NetOfNone
  <2> QED
    BY <1>1, <2>1, <2>2 DEF Stock, InStore
<1>4. \A p \in Permit : RowsOf(p) = {} /\ ReversalOfPermit(p) = {}
  BY <1>1 DEF RowsOf, ReversalOfPermit
<1>5. AllExplained
  BY <1>1, <1>3, <1>4 DEF AllExplained, Explained, ExpectedRows, NothingLacks
<1>6. ReversalsMirror /\ MirroredByLiving /\ LogSays
  BY <1>1 DEF ReversalsMirror, MirroredByLiving, LogSays
<1>7. LotsExplained
  <2> SUFFICES ASSUME NEW s \in Depot PROVE Lots(batch, s) = Stock(Fresh, s) + Wasted(s)
    BY LotsAre
  <2>1. Lots(batch, s) = 0 /\ Stock(Fresh, s) = 0
    BY <1>1, <1>3, LotsOfNothing DEF Ware
  <2>2. Wasted(s) = 0
    <3> DEFINE f == [w \in Scrap |-> WastedBy(w, s)]
    <3>1. \A w \in Scrap : f[w] = 0
      BY <1>1 DEF WastedBy
    <3> HIDE DEF f
    <3>2. SumFunctionOnSet(f, Scrap) = 0
      <4>1. {} \in SUBSET Scrap /\ \A w \in Scrap : f[w] \in Int
        BY <3>1
      <4> QED
        BY <3>1, <4>1, SumSupport, SumEmpty, PaperAssumption
    <3> QED
      BY <3>2 DEF Wasted, f
  <2> QED
    BY <2>1, <2>2
<1> QED
  BY <1>2, <1>5, <1>6, <1>7, ExplainedIs DEF PaperInv, PapersAlone

(* What holds of the papers, in every world and where they are undone in    *)
(* order.                                                                   *)
PaperWorld == PaperInv /\ (world = "papers" => PapersAlone)

(* However permits are made, changed, reversed and deleted beside sales,    *)
(* wastage and counts (stock_permit_service.py, wastage_service.py,         *)
(* stock_count_service.py), what is moved is what the permits say, what is  *)
(* reversed is reversed whole and once and no store lacks goods; undone in  *)
(* order, lots add up to stock (batch_service.py: consume_fefo).            *)
THEOREM StoresAddUp == Spec => []PermitsAddUp
<1>1. Init => PaperWorld
  BY PaperStart DEF Init, PaperWorld
<1>2. PaperWorld /\ [Next]_vars => PaperWorld'
  <2> SUFFICES ASSUME PaperWorld, [Next]_vars PROVE PaperWorld'
    OBVIOUS
  <2>1. CASE world' = world /\ UNCHANGED paperVars
    <3>1. /\ permit' = permit /\ permitRows' = permitRows /\ mirroredRows' = mirroredRows
          /\ batchLog' = batchLog /\ batch' = batch /\ otherwise' = otherwise
          /\ scrap' = scrap /\ tally' = tally
      BY <2>1 DEF paperVars, permitVars
    <3>2. PaperTypeOK' <=> PaperTypeOK
      BY <3>1 DEF PaperTypeOK, TallyTyped
    <3>3. PermitsExplained' <=> PermitsExplained
      BY <3>1 DEF PermitsExplained, RowsOf, ReversalOfPermit, Stock, InStore, Net
    <3>4. ReversalsMirror' <=> ReversalsMirror
      BY <3>1 DEF ReversalsMirror
    <3>5. MirroredByLiving' <=> MirroredByLiving
      BY <3>1 DEF MirroredByLiving, ReversalOfPermit
    <3>6. LotsExplained' <=> LotsExplained
      BY <3>1 DEF LotsExplained, Stock, InStore, Net, WastedBy
    <3>7. LogSays' <=> LogSays
      BY <3>1 DEF LogSays, RowsOf, Net, Lots
    <3> QED
      BY <2>1, <3>2, <3>3, <3>4, <3>5, <3>6, <3>7 DEF PaperWorld, PaperInv, PapersAlone
  <2>2. CASE world' = world /\ world \in {"permits", "papers"} /\ PapersStep
    BY <2>2, PaperStepKeeps DEF PaperWorld, PapersStep
  <2> QED
    BY <2>1, <2>2 DEF Next, In, vars
<1>3. PaperWorld => PermitsAddUp
  BY DEF PaperWorld, PaperInv, PapersAlone, PermitsAddUp
<1> QED
  BY <1>1, <1>2, <1>3, PTL DEF Spec

-----------------------------------------------------------------------------
(* Matching of ledger lines: what links take of a line.                     *)

(* Links by id, each from a debit line to a credit line.                    *)
AreLinks(ks) ==
    /\ IsFiniteSet(DOMAIN ks)
    /\ \A i \in DOMAIN ks : /\ ks[i] \in Link
                            /\ Amount[ks[i].debit] > 0 /\ Amount[ks[i].credit] < 0

LEMMA LinkParts ==
  ASSUME NEW ks, AreLinks(ks), NEW i \in DOMAIN ks
  PROVE  /\ ks[i].debit \in Line /\ ks[i].credit \in Line /\ ks[i].debit # ks[i].credit
         /\ ks[i].amount \in Nat /\ ks[i].amount > 0
         /\ Amount[ks[i].debit] > 0 /\ Amount[ks[i].credit] < 0
         /\ Ends(ks[i]) \subseteq Line
<1>1. ks[i] \in Link /\ Amount[ks[i].debit] > 0 /\ Amount[ks[i].credit] < 0
  BY DEF AreLinks
<1>2. ks[i].debit \in Line /\ ks[i].credit \in Line /\ ks[i].amount \in Nat \ {0}
  BY <1>1 DEF Link
<1>3. Amount[ks[i].debit] \in Int /\ Amount[ks[i].credit] \in Int
  BY <1>2, AmountAssumption
<1> QED
  BY <1>1, <1>2, <1>3 DEF Ends

LEMMA ShareParts ==
  ASSUME NEW ks, AreLinks(ks), NEW i \in DOMAIN ks, NEW l \in Line
  PROVE  /\ Share(ks[i], l) \in Int
         /\ Amount[l] > 0 => Share(ks[i], l) >= 0
         /\ Amount[l] < 0 => Share(ks[i], l) =< 0
         /\ l \notin Ends(ks[i]) => Share(ks[i], l) = 0
<1>1. Amount[l] \in Int
  BY AmountAssumption
<1> QED
  BY <1>1, LinkParts DEF Share, Ends

LEMMA TakenSum ==
  ASSUME NEW ks, AreLinks(ks), NEW l \in Line, NEW f, \A i \in DOMAIN ks : f[i] = Share(ks[i], l)
  PROVE  /\ Taken(ks, l) = SumFunctionOnSet(f, DOMAIN ks)
         /\ Taken(ks, l) \in Int
         /\ \A i \in DOMAIN ks : f[i] \in Int
<1> DEFINE g == [i \in DOMAIN ks |-> Share(ks[i], l)]
<1>1. IsFiniteSet(DOMAIN ks)
  BY DEF AreLinks
<1>2. \A i \in DOMAIN ks : g[i] = f[i] /\ g[i] \in Int
  BY ShareParts
<1>3. Taken(ks, l) = SumFunctionOnSet(g, DOMAIN ks)
  BY DEF Taken
<1> HIDE DEF g
<1>4. SumFunctionOnSet(g, DOMAIN ks) = SumFunctionOnSet(f, DOMAIN ks)
      /\ SumFunctionOnSet(g, DOMAIN ks) \in Int
  BY <1>1, <1>2, SumSame, SumInt
<1> QED
  BY <1>2, <1>3, <1>4

(* Links undone.                                                            *)
LEMMA TakenWithout ==
  ASSUME NEW ks, AreLinks(ks), NEW gone, NEW rest,
         DOMAIN gone \subseteq DOMAIN ks, \A i \in DOMAIN gone : gone[i] = ks[i],
         DOMAIN rest = DOMAIN ks \ DOMAIN gone, \A i \in DOMAIN rest : rest[i] = ks[i],
         NEW l \in Line
  PROVE  /\ AreLinks(gone) /\ AreLinks(rest)
         /\ Taken(rest, l) = Taken(ks, l) - Taken(gone, l)
         /\ Taken(ks, l) \in Int /\ Taken(gone, l) \in Int
<1>1. AreLinks(gone) /\ AreLinks(rest)
  BY FS_Subset, FS_Difference DEF AreLinks
<1>2. PICK f : f = [i \in DOMAIN ks |-> Share(ks[i], l)]
  OBVIOUS
<1>3. \A i \in DOMAIN ks : f[i] = Share(ks[i], l)
  BY <1>2
<1>4. \A i \in DOMAIN gone : f[i] = Share(gone[i], l)
  BY <1>3
<1>5. \A i \in DOMAIN rest : f[i] = Share(rest[i], l)
  BY <1>3
<1>6. Taken(ks, l) = SumFunctionOnSet(f, DOMAIN ks) /\ \A i \in DOMAIN ks : f[i] \in Int
  BY <1>3, TakenSum
<1>7. Taken(gone, l) = SumFunctionOnSet(f, DOMAIN gone) /\ Taken(gone, l) \in Int
  BY <1>1, <1>4, TakenSum
<1>8. Taken(rest, l) = SumFunctionOnSet(f, DOMAIN rest) /\ Taken(rest, l) \in Int
  BY <1>1, <1>5, TakenSum
<1>9. PICK A, B : A = DOMAIN ks /\ B = DOMAIN gone
  OBVIOUS
<1>10. IsFiniteSet(A) /\ B \in SUBSET A /\ A \ B = DOMAIN rest /\ \A i \in A : f[i] \in Int
  BY <1>6, <1>9 DEF AreLinks
<1>11. SumFunctionOnSet(f, A) = SumFunctionOnSet(f, B) + SumFunctionOnSet(f, A \ B)
  BY ONLY <1>10, SumSplit
<1> QED
  BY <1>1, <1>6, <1>7, <1>8, <1>9, <1>10, <1>11

(* A link made.                                                             *)
LEMMA TakenMore ==
  ASSUME NEW ks, AreLinks(ks), NEW x, x \notin DOMAIN ks, NEW more,
         DOMAIN more = DOMAIN ks \cup {x}, \A i \in DOMAIN ks : more[i] = ks[i],
         more[x] \in Link, Amount[more[x].debit] > 0, Amount[more[x].credit] < 0,
         NEW l \in Line
  PROVE  /\ AreLinks(more)
         /\ Taken(more, l) = Taken(ks, l) + Share(more[x], l)
         /\ Taken(ks, l) \in Int
<1>1. AreLinks(more)
  BY FS_AddElement DEF AreLinks
<1>2. DOMAIN ks = DOMAIN more \ {x} /\ x \in DOMAIN more
  OBVIOUS
<1>3. PICK f : f = [i \in DOMAIN more |-> Share(more[i], l)]
  OBVIOUS
<1>4. \A i \in DOMAIN more : f[i] = Share(more[i], l)
  BY <1>3
<1>5. \A i \in DOMAIN ks : f[i] = Share(ks[i], l)
  BY <1>3
<1>6. Taken(more, l) = SumFunctionOnSet(f, DOMAIN more) /\ \A i \in DOMAIN more : f[i] \in Int
  BY <1>1, <1>4, TakenSum
<1>7. Taken(ks, l) = SumFunctionOnSet(f, DOMAIN ks) /\ Taken(ks, l) \in Int
  BY <1>5, TakenSum
<1>8. PICK A : A = DOMAIN more
  OBVIOUS
<1>9. IsFiniteSet(A) /\ x \in A /\ (\A i \in A : f[i] \in Int) /\ A \ {x} = DOMAIN ks
  BY <1>1, <1>2, <1>6, <1>8 DEF AreLinks
<1>10. SumFunctionOnSet(f, A) = f[x] + SumFunctionOnSet(f, A \ {x})
  BY ONLY <1>9, SumRemove
<1>11. f[x] = Share(more[x], l) /\ f[x] \in Int
  BY <1>4, <1>8, <1>9
<1> QED
  BY <1>1, <1>6, <1>7, <1>8, <1>9, <1>10, <1>11

(* Links that only change their group.                                      *)
LEMMA TakenSame ==
  ASSUME NEW ks, AreLinks(ks), NEW js, AreLinks(js), DOMAIN js = DOMAIN ks,
         \A i \in DOMAIN ks : js[i].debit = ks[i].debit /\ js[i].credit = ks[i].credit
                              /\ js[i].amount = ks[i].amount,
         NEW l \in Line
  PROVE  Taken(js, l) = Taken(ks, l)
<1>1. PICK f : f = [i \in DOMAIN ks |-> Share(ks[i], l)]
  OBVIOUS
<1>2. \A i \in DOMAIN ks : f[i] = Share(ks[i], l)
  BY <1>1
<1>3. \A i \in DOMAIN js : f[i] = Share(js[i], l)
  BY <1>2 DEF Share
<1> QED
  BY <1>2, <1>3, TakenSum

(* Links take of a line on its own side, and of a line that none touches    *)
(* nothing.                                                                 *)
LEMMA TakenSide ==
  ASSUME NEW ks, AreLinks(ks), NEW l \in Line
  PROVE  /\ Taken(ks, l) \in Int
         /\ Amount[l] > 0 => Taken(ks, l) >= 0
         /\ Amount[l] < 0 => Taken(ks, l) =< 0
         /\ (\A i \in DOMAIN ks : l \notin Ends(ks[i])) => Taken(ks, l) = 0
<1>1. PICK f : f = [i \in DOMAIN ks |-> Share(ks[i], l)]
  OBVIOUS
<1>2. \A i \in DOMAIN ks : f[i] = Share(ks[i], l)
  BY <1>1
<1>3. Taken(ks, l) = SumFunctionOnSet(f, DOMAIN ks) /\ Taken(ks, l) \in Int
      /\ \A i \in DOMAIN ks : f[i] \in Int
  BY <1>2, TakenSum
<1>4. PICK A : A = DOMAIN ks
  OBVIOUS
<1>5. IsFiniteSet(A) /\ \A i \in A : f[i] \in Int
  BY <1>3, <1>4 DEF AreLinks
<1>6. ASSUME Amount[l] > 0 PROVE Taken(ks, l) >= 0
  <2>1. \A i \in A : f[i] \in Nat
    <3>1. \A i \in A : f[i] >= 0
      BY <1>2, <1>4, <1>6, ShareParts
    <3> QED
      BY <1>5, <3>1
  <2>2. SumFunctionOnSet(f, A) \in Nat
    BY ONLY <1>5, <2>1, SumBounds
  <2> QED
    BY <1>3, <1>4, <2>2
<1>7. ASSUME Amount[l] < 0 PROVE Taken(ks, l) =< 0
  <2>1. \A i \in A : f[i] \in Int /\ f[i] =< 0
    BY <1>2, <1>4, <1>5, <1>7, ShareParts
  <2>2. SumFunctionOnSet(f, A) =< 0
    BY ONLY <1>5, <2>1, SumNotPositive
  <2> QED
    BY <1>3, <1>4, <2>2
<1>8. ASSUME \A i \in DOMAIN ks : l \notin Ends(ks[i]) PROVE Taken(ks, l) = 0
  <2>1. \A i \in A : f[i] = 0
    BY <1>2, <1>4, <1>8, ShareParts
  <2>2. SumFunctionOnSet(f, A) = SumFunctionOnSet(f, {})
    <3>1. {} \in SUBSET A /\ \A i \in A \ {} : f[i] = 0
      BY <2>1
    <3> QED
      BY ONLY <1>5, <3>1, SumSupport
  <2> QED
    BY <1>3, <1>4, <2>2, SumEmpty
<1> QED
  BY <1>3, <1>6, <1>7, <1>8

-----------------------------------------------------------------------------
(* The rounds of a matching.                                                *)

(* The first of some lines is one of them, and none matures before it.      *)
LEMMA EarliestIs ==
  ASSUME NEW S \in SUBSET Line, S # {}
  PROVE  /\ EarliestOf(S) \in S
         /\ \A b \in S : Due[EarliestOf(S)] < Due[b] \/ (Due[EarliestOf(S)] = Due[b] /\ EarliestOf(S) =< b)
<1>1. Line \subseteq Nat /\ \A l \in S : l \in Nat /\ Due[l] \in Nat
  BY LineAssumption, EntryAssumption
<1>2. PICK D : D = {Due[l] : l \in S}
  OBVIOUS
<1>3. PICK m \in D : \A k \in D : m =< k
  <2>1. D \in SUBSET Nat /\ D # {}
    BY <1>1, <1>2
  <2> QED
    BY <2>1, LeastNat
<1>4. PICK T : T = {l \in S : Due[l] = m}
  OBVIOUS
<1>5. PICK a \in T : \A b \in T : a =< b
  <2>1. T \in SUBSET Nat /\ T # {}
    BY <1>1, <1>2, <1>3, <1>4
  <2> QED
    BY <2>1, LeastNat
<1>6. a \in S /\ Due[a] = m
  BY <1>4, <1>5
<1>7. \A b \in S : Due[a] < Due[b] \/ (Due[a] = Due[b] /\ a =< b)
  <2> SUFFICES ASSUME NEW b \in S, ~ (Due[a] < Due[b])
               PROVE  Due[a] = Due[b] /\ a =< b
    OBVIOUS
  <2>1. Due[b] \in D /\ m =< Due[b] /\ m \in Nat /\ Due[b] \in Nat
    BY <1>1, <1>2, <1>3
  <2>2. Due[b] = m
    BY <1>6, <2>1
  <2> QED
    BY <1>4, <1>5, <1>6, <2>2
<1> QED
  BY <1>6, <1>7 DEF EarliestOf

(* The rounds of a matching follow one another.                             *)
RoundTable(f, w, n) == f = [i \in 0..n |-> IF i = 0 THEN w ELSE Pair(f[i - 1])]

LEMMA RoundTableExists ==
  ASSUME NEW w, NEW N \in Nat
  PROVE  \E f : RoundTable(f, w, N)
<1>1. \E f : RoundTable(f, w, 0)
  <2>1. PICK f : f = [i \in 0..0 |-> w]
    OBVIOUS
  <2>2. \A i \in 0..0 : i = 0
    OBVIOUS
  <2>3. f = [i \in 0..0 |-> IF i = 0 THEN w ELSE Pair(f[i - 1])]
    BY <2>1, <2>2
  <2> QED
    BY <2>3 DEF RoundTable
<1>2. ASSUME NEW n \in Nat, NEW f, RoundTable(f, w, n)
      PROVE  \E g : RoundTable(g, w, n + 1)
  <2>1. DOMAIN f = 0..n /\ \A i \in 0..n : f[i] = IF i = 0 THEN w ELSE Pair(f[i - 1])
    BY <1>2 DEF RoundTable
  <2>2. PICK g : g = [i \in 0..(n + 1) |-> IF i = n + 1 THEN Pair(f[n]) ELSE f[i]]
    OBVIOUS
  <2>3. \A i \in 0..(n + 1) : g[i] = IF i = 0 THEN w ELSE Pair(g[i - 1])
    <3> SUFFICES ASSUME NEW i \in 0..(n + 1)
                 PROVE  g[i] = IF i = 0 THEN w ELSE Pair(g[i - 1])
      OBVIOUS
    <3>1. ASSUME i = n + 1 PROVE g[i] = Pair(g[i - 1]) /\ i # 0
      <4>1. i - 1 = n /\ n \in 0..(n + 1) /\ n # n + 1 /\ i # 0
        BY <3>1
      <4>2. g[i - 1] = f[n]
        BY <2>2, <4>1
      <4> QED
        BY <2>2, <3>1, <4>1, <4>2
    <3>2. ASSUME i # n + 1 PROVE g[i] = IF i = 0 THEN w ELSE Pair(g[i - 1])
      <4>1. i \in 0..n /\ g[i] = f[i]
        BY <2>2, <3>2
      <4>2. ASSUME i # 0 PROVE g[i - 1] = f[i - 1]
        <5>1. i - 1 \in 0..(n + 1) /\ i - 1 # n + 1
          BY <4>1, <4>2
        <5> QED
          BY <2>2, <5>1
      <4> QED
        BY <2>1, <4>1, <4>2
    <3> QED
      BY <3>1, <3>2
  <2>4. g = [i \in 0..(n + 1) |-> g[i]]
    BY <2>2
  <2> QED
    BY <2>3, <2>4 DEF RoundTable
<1> DEFINE Missing == {n \in Nat : ~ \E f : RoundTable(f, w, n)}
<1>3. SUFFICES ASSUME Missing # {} PROVE FALSE
  OBVIOUS
<1>4. PICK m \in Missing : \A k \in Missing : m =< k
  BY <1>3, LeastNat
<1>5. m \in Nat /\ m # 0
  BY <1>1, <1>4
<1>6. m - 1 \in Nat /\ ~ (m =< m - 1) /\ (m - 1) + 1 = m
  BY <1>5
<1>7. PICK f : RoundTable(f, w, m - 1)
  BY <1>4, <1>6
<1>8. \E g : RoundTable(g, w, (m - 1) + 1)
  BY <1>2, <1>6, <1>7
<1> QED
  BY <1>4, <1>6, <1>8

LEMMA RoundsAre ==
  ASSUME NEW w, NEW N \in Nat
  PROVE  /\ Rounds(w, N)[0] = w
         /\ \A i \in 0..N : i + 1 =< N => Rounds(w, N)[i + 1] = Pair(Rounds(w, N)[i])
<1>1. Rounds(w, N) = CHOOSE f : RoundTable(f, w, N)
  BY DEF Rounds, RoundTable
<1>2. RoundTable(Rounds(w, N), w, N)
  BY <1>1, RoundTableExists
<1>3. PICK f : f = Rounds(w, N)
  OBVIOUS
<1>4. \A i \in 0..N : f[i] = IF i = 0 THEN w ELSE Pair(f[i - 1])
  BY <1>2, <1>3 DEF RoundTable
<1>5. \A i \in 0..N : i + 1 =< N => i + 1 \in 0..N /\ i + 1 # 0 /\ (i + 1) - 1 = i
  OBVIOUS
<1> QED
  BY <1>3, <1>4, <1>5

(* Induction over the rounds: those of which a property holds are collected *)
(* in Good.                                                                 *)
LEMMA RoundInduction ==
  ASSUME NEW N \in Nat, NEW Good \in SUBSET (0..N), 0 \in Good,
         \A i \in Good : i < N => i + 1 \in Good
  PROVE  N \in Good
<1> DEFINE Bad == (0..N) \ Good
<1>1. SUFFICES ASSUME Bad # {} PROVE FALSE
  OBVIOUS
<1>2. PICK m \in Bad : \A k \in Bad : m =< k
  <2>1. Bad \in SUBSET Nat
    OBVIOUS
  <2> QED
    BY <1>1, <2>1, LeastNat
<1>3. m - 1 \in 0..N /\ ~ (m =< m - 1) /\ m - 1 < N /\ (m - 1) + 1 = m
  BY <1>2
<1> QED
  BY <1>2, <1>3

OnSide(l, v) == IF Amount[l] > 0 THEN v >= 0 ELSE v =< 0

(* Lines as a request read them.                                            *)
AreRead(S, r) ==
    /\ S \in SUBSET Line /\ r \in [S -> Int]
    /\ \A l \in S : OnSide(l, r[l])

(* Where a matching of S has come to, that began with r left, the links ks  *)
(* and the last number m.                                                   *)
WalkedLines(w, S, r) ==
    /\ w.left \in [S -> Int]
    /\ \A l \in S : OnSide(l, w.left[l]) /\ (r[l] = 0 => w.left[l] = 0)
WalkedLinks(w, S, ks, m) ==
    /\ w.made \in Nat /\ m =< w.made /\ DOMAIN w.links \subseteq 1..w.made
    /\ AreLinks(w.links)
    /\ DOMAIN ks \subseteq DOMAIN w.links /\ \A i \in DOMAIN ks : w.links[i] = ks[i]
    /\ \A i \in DOMAIN w.links \ DOMAIN ks : Ends(w.links[i]) \subseteq S /\ w.links[i].group = Null
WalkedSums(w, S, r, ks) ==
    /\ \A l \in S : Taken(w.links, l) = Taken(ks, l) + r[l] - w.left[l]
    /\ \A l \in Line \ S : Taken(w.links, l) = Taken(ks, l)
Walked(w, S, r, ks, m) == WalkedLines(w, S, r) /\ WalkedLinks(w, S, ks, m) /\ WalkedSums(w, S, r, ks)

(* A payment of n from c to d, both of which have that much left.           *)
Payable(w, S, d, c, n) ==
    /\ d \in S /\ c \in S /\ n \in Nat /\ n > 0
    /\ w.left[d] >= n /\ - w.left[c] >= n

LEMMA PayableParts ==
  ASSUME NEW w, NEW S, NEW r, NEW d, NEW c, NEW n, AreRead(S, r), WalkedLines(w, S, r), Payable(w, S, d, c, n)
  PROVE  /\ d \in Line /\ c \in Line /\ d # c
         /\ w.left[d] \in Int /\ w.left[c] \in Int
         /\ Amount[d] > 0 /\ Amount[c] < 0 /\ r[d] # 0 /\ r[c] # 0
<1>1. d \in Line /\ c \in Line /\ w.left[d] \in Int /\ w.left[c] \in Int
  BY DEF AreRead, WalkedLines, Payable
<1>2. Amount[d] \in Int /\ Amount[c] \in Int /\ Amount[c] # 0
  BY <1>1, AmountAssumption
<1>3. OnSide(d, w.left[d]) /\ OnSide(c, w.left[c]) /\ (r[d] = 0 => w.left[d] = 0) /\ (r[c] = 0 => w.left[c] = 0)
  BY DEF WalkedLines, Payable
<1>4. w.left[d] >= n /\ - w.left[c] >= n /\ n \in Nat /\ n > 0
  BY DEF Payable
<1> QED
  BY <1>1, <1>2, <1>3, <1>4 DEF OnSide

LEMMA LinkedParts ==
  ASSUME NEW w, NEW S, NEW d \in S, NEW c \in S, d # c, w.left \in [S -> Int], w.made \in Nat,
         DOMAIN w.links \subseteq 1..w.made,
         NEW n, NEW v, v = Linked(w, d, c, n), NEW x, x = w.made + 1
  PROVE  /\ DOMAIN v.left = S /\ v.left[d] = w.left[d] - n /\ v.left[c] = w.left[c] + n
         /\ \A l \in S \ {d, c} : v.left[l] = w.left[l]
         /\ v.left = [l \in S |-> v.left[l]]
         /\ v.made = x /\ x \notin DOMAIN w.links /\ DOMAIN v.links = DOMAIN w.links \cup {x}
         /\ \A i \in DOMAIN w.links : v.links[i] = w.links[i]
         /\ v.links[x] = [debit |-> d, credit |-> c, amount |-> n, group |-> Null]
<1>1. v.left = [w.left EXCEPT ![d] = @ - n, ![c] = @ + n]
  BY DEF Linked
<1>2. v.made = x /\ v.links = [i \in DOMAIN w.links \cup {x} |->
                  IF i = x THEN [debit |-> d, credit |-> c, amount |-> n, group |-> Null]
                  ELSE w.links[i]]
  BY DEF Linked
<1>3. x \notin DOMAIN w.links
  <2>1. x \notin 1..w.made
    OBVIOUS
  <2> QED
    BY <2>1
<1>4. /\ DOMAIN v.left = S /\ v.left[d] = w.left[d] - n /\ v.left[c] = w.left[c] + n
      /\ \A l \in S \ {d, c} : v.left[l] = w.left[l]
      /\ v.left = [l \in S |-> v.left[l]]
  BY <1>1
<1> QED
  BY <1>2, <1>3, <1>4

LEMMA LinkedKeeps ==
  ASSUME NEW w, NEW S, NEW r, NEW ks, NEW m \in Nat, NEW d, NEW c, NEW n,
         AreRead(S, r), AreLinks(ks), Walked(w, S, r, ks, m), Payable(w, S, d, c, n)
  PROVE  Walked(Linked(w, d, c, n), S, r, ks, m)
<1>1. WalkedLines(w, S, r) /\ WalkedLinks(w, S, ks, m) /\ WalkedSums(w, S, r, ks)
  BY DEF Walked
<1>2. /\ d \in Line /\ c \in Line /\ d # c /\ d \in S /\ c \in S /\ n \in Nat /\ n > 0
      /\ w.left[d] \in Int /\ w.left[c] \in Int /\ w.left[d] >= n /\ - w.left[c] >= n
      /\ Amount[d] > 0 /\ Amount[c] < 0 /\ r[d] # 0 /\ r[c] # 0
  BY <1>1, PayableParts DEF Payable
<1>3. PICK v : v = Linked(w, d, c, n)
  OBVIOUS
<1>4. PICK x : x = w.made + 1
  OBVIOUS
<1>5. w.left \in [S -> Int] /\ w.made \in Nat /\ DOMAIN w.links \subseteq 1..w.made
  BY <1>1 DEF WalkedLines, WalkedLinks
<1>6. /\ DOMAIN v.left = S /\ v.left[d] = w.left[d] - n /\ v.left[c] = w.left[c] + n
      /\ \A l \in S \ {d, c} : v.left[l] = w.left[l]
      /\ v.left = [l \in S |-> v.left[l]]
      /\ v.made = x /\ x \notin DOMAIN w.links /\ DOMAIN v.links = DOMAIN w.links \cup {x}
      /\ \A i \in DOMAIN w.links : v.links[i] = w.links[i]
      /\ v.links[x] = [debit |-> d, credit |-> c, amount |-> n, group |-> Null]
  BY <1>2, <1>3, <1>4, <1>5, LinkedParts
<1>7. WalkedLines(v, S, r)
  <2>1. \A l \in S : v.left[l] \in Int
    BY <1>2, <1>5, <1>6
  <2>2. v.left \in [S -> Int]
    BY <1>6, <2>1
  <2>3. \A l \in S : OnSide(l, v.left[l]) /\ (r[l] = 0 => v.left[l] = 0)
    <3> SUFFICES ASSUME NEW l \in S PROVE OnSide(l, v.left[l]) /\ (r[l] = 0 => v.left[l] = 0)
      OBVIOUS
    <3>1. OnSide(l, w.left[l]) /\ (r[l] = 0 => w.left[l] = 0)
      BY <1>1 DEF WalkedLines
    <3>2. ASSUME l = d PROVE OnSide(l, v.left[l]) /\ r[l] # 0
      BY <1>2, <1>6, <3>2 DEF OnSide
    <3>3. ASSUME l = c PROVE OnSide(l, v.left[l]) /\ r[l] # 0
      <4>1. Amount[c] \in Int
        BY <1>2, AmountAssumption
      <4> QED
        BY <1>2, <1>6, <3>3, <4>1 DEF OnSide
    <3>4. l \notin {d, c} => v.left[l] = w.left[l]
      BY <1>6
    <3> QED
      BY <3>1, <3>2, <3>3, <3>4
  <2> QED
    BY <2>2, <2>3 DEF WalkedLines
<1>8. /\ v.links[x] \in Link /\ v.links[x].debit = d /\ v.links[x].credit = c /\ v.links[x].amount = n
      /\ Ends(v.links[x]) = {d, c} /\ v.links[x].group = Null
  BY <1>2, <1>6 DEF Link, Ends
<1>9. AreLinks(w.links)
  BY <1>1 DEF WalkedLinks
<1>10. ASSUME NEW l \in Line
       PROVE  /\ AreLinks(v.links) /\ Taken(v.links, l) = Taken(w.links, l) + Share(v.links[x], l)
              /\ Taken(w.links, l) \in Int
  BY <1>2, <1>6, <1>8, <1>9, TakenMore
<1>11. WalkedLinks(v, S, ks, m)
  <2>1. /\ m =< w.made /\ DOMAIN ks \subseteq DOMAIN w.links /\ \A i \in DOMAIN ks : w.links[i] = ks[i]
        /\ \A i \in DOMAIN w.links \ DOMAIN ks : Ends(w.links[i]) \subseteq S /\ w.links[i].group = Null
    BY <1>1 DEF WalkedLinks
  <2>2. v.made \in Nat /\ m =< v.made /\ w.made < v.made /\ v.made = x
    BY <1>4, <1>5, <1>6, <2>1
  <2>3. DOMAIN v.links \subseteq 1..v.made
    <3>1. 1..w.made \subseteq 1..v.made /\ x \in 1..v.made
      BY <1>5, <2>2, <1>4
    <3> QED
      BY <1>5, <1>6, <3>1
  <2>4. DOMAIN ks \subseteq DOMAIN v.links /\ \A i \in DOMAIN ks : v.links[i] = ks[i]
    BY <1>6, <2>1
  <2>5. \A i \in DOMAIN v.links \ DOMAIN ks : Ends(v.links[i]) \subseteq S /\ v.links[i].group = Null
    BY <1>2, <1>6, <1>8, <2>1
  <2> QED
    BY <1>2, <1>10, <2>2, <2>3, <2>4, <2>5 DEF WalkedLinks
<1>12. WalkedSums(v, S, r, ks)
  <2>1. ASSUME NEW l \in Line
        PROVE  Share(v.links[x], l) = IF l = d THEN n ELSE IF l = c THEN - n ELSE 0
    BY <1>2, <1>8 DEF Share
  <2>2. ASSUME NEW l \in S PROVE Taken(v.links, l) = Taken(ks, l) + r[l] - v.left[l]
    <3>1. l \in Line /\ r[l] \in Int /\ w.left[l] \in Int
      BY <1>5 DEF AreRead
    <3>2. Taken(w.links, l) = Taken(ks, l) + r[l] - w.left[l] /\ Taken(ks, l) \in Int
      BY <1>1, <3>1, TakenSide DEF WalkedSums
    <3>3. v.left[l] = w.left[l] - Share(v.links[x], l) /\ Share(v.links[x], l) \in Int
      BY <1>2, <1>6, <2>1, <3>1
    <3>4. Taken(v.links, l) = Taken(w.links, l) + Share(v.links[x], l)
      BY <1>10, <3>1
    <3> QED
      BY <3>1, <3>2, <3>3, <3>4
  <2>3. ASSUME NEW l \in Line \ S PROVE Taken(v.links, l) = Taken(ks, l)
    <3>1. Share(v.links[x], l) = 0
      BY <1>2, <2>1
    <3>2. Taken(w.links, l) = Taken(ks, l)
      BY <1>1 DEF WalkedSums
    <3> QED
      BY <1>10, <3>1, <3>2
  <2> QED
    BY <2>2, <2>3 DEF WalkedSums
<1> QED
  BY <1>3, <1>7, <1>11, <1>12 DEF Walked

(* A round either finds one side used up, or pays the first open debit from *)
(* the first open credit until one of them has nothing left.                *)
Used(w) == Debits(w.left) = {} \/ Credits(w.left) = {}

LEMMA PairIs ==
  ASSUME NEW w, NEW S, NEW r, AreRead(S, r), WalkedLines(w, S, r), ~ Used(w),
         NEW d, d = EarliestOf(Debits(w.left)), NEW c, c = EarliestOf(Credits(w.left))
  PROVE  \E n \in Nat : /\ Pair(w) = Linked(w, d, c, n) /\ Payable(w, S, d, c, n)
                        /\ n = w.left[d] \/ n = - w.left[c]
<1>1. DOMAIN w.left = S /\ S \subseteq Line /\ \A l \in S : w.left[l] \in Int
  BY DEF AreRead, WalkedLines
<1>2. Debits(w.left) # {} /\ Credits(w.left) # {} /\ Debits(w.left) \subseteq S /\ Credits(w.left) \subseteq S
  BY <1>1 DEF Used, Debits, Credits
<1>3. d \in Debits(w.left) /\ c \in Credits(w.left)
  <2>1. Debits(w.left) \in SUBSET Line /\ Credits(w.left) \in SUBSET Line
    BY <1>1, <1>2
  <2> QED
    BY <1>2, <2>1, EarliestIs
<1>4. d \in S /\ c \in S /\ w.left[d] > 0 /\ w.left[c] < 0 /\ w.left[d] \in Int /\ w.left[c] \in Int
  BY <1>1, <1>2, <1>3 DEF Debits, Credits
<1>5. PICK n : n = IF w.left[d] < - w.left[c] THEN w.left[d] ELSE - w.left[c]
  OBVIOUS
<1>6. n \in Nat /\ n > 0 /\ w.left[d] >= n /\ - w.left[c] >= n /\ (n = w.left[d] \/ n = - w.left[c])
  BY <1>4, <1>5
<1>7. Pair(w) = Linked(w, d, c, n)
  BY <1>2, <1>5 DEF Pair
<1> QED
  BY <1>4, <1>6, <1>7 DEF Payable

LEMMA PairKeeps ==
  ASSUME NEW w, NEW S, NEW r, NEW ks, NEW m \in Nat,
         AreRead(S, r), AreLinks(ks), Walked(w, S, r, ks, m)
  PROVE  Walked(Pair(w), S, r, ks, m)
<1>1. CASE Used(w)
  BY <1>1 DEF Used, Pair
<1>2. CASE ~ Used(w)
  <2>1. PICK d, c : d = EarliestOf(Debits(w.left)) /\ c = EarliestOf(Credits(w.left))
    OBVIOUS
  <2>2. PICK n \in Nat : Pair(w) = Linked(w, d, c, n) /\ Payable(w, S, d, c, n)
    BY <1>2, <2>1, PairIs DEF Walked
  <2> QED
    BY <2>2, LinkedKeeps
<1> QED
  BY <1>1, <1>2

LEMMA WalkBegins ==
  ASSUME NEW S, NEW r, AreRead(S, r), NEW ks, AreLinks(ks), NEW m \in Nat,
         DOMAIN ks \subseteq 1..m, NEW w, w = [left |-> r, links |-> ks, made |-> m]
  PROVE  Walked(w, S, r, ks, m)
<1>1. w.left = r /\ w.links = ks /\ w.made = m
  OBVIOUS
<1>2. WalkedLines(w, S, r)
  BY <1>1 DEF WalkedLines, AreRead
<1>3. WalkedLinks(w, S, ks, m)
  BY <1>1 DEF WalkedLinks
<1>4. WalkedSums(w, S, r, ks)
  <2>1. \A l \in S : l \in Line /\ r[l] \in Int
    BY DEF AreRead
  <2>2. \A l \in S : Taken(ks, l) \in Int
    BY <2>1, TakenSide
  <2>3. \A l \in S : Taken(ks, l) = Taken(ks, l) + r[l] - r[l]
    BY <2>1, <2>2
  <2> QED
    BY <1>1, <2>3 DEF WalkedSums
<1> QED
  BY <1>2, <1>3, <1>4 DEF Walked

(* What a matching comes to.                                                *)
LEMMA MatchedWalked ==
  ASSUME NEW S, NEW r, AreRead(S, r), AreLinks(links), made.links \in Nat,
         DOMAIN links \subseteq 1..made.links
  PROVE  Walked(Matched(S, r), S, r, links, made.links)
<1>1. IsFiniteSet(S) /\ Cardinality(S) \in Nat
  BY LineAssumption, FS_Subset, FS_CardinalityType DEF AreRead
<1>2. PICK N : N = Cardinality(S)
  OBVIOUS
<1>3. PICK w : w = [left |-> r, links |-> links, made |-> made.links]
  OBVIOUS
<1>4. PICK m : m = made.links
  OBVIOUS
<1>5. PICK ks : ks = links
  OBVIOUS
<1>6. Walked(w, S, r, ks, m)
  BY <1>3, <1>4, <1>5, WalkBegins
<1>7. PICK f : f = Rounds(w, N)
  OBVIOUS
<1>8. f[0] = w /\ \A i \in 0..N : i + 1 =< N => f[i + 1] = Pair(f[i])
  BY <1>1, <1>2, <1>7, RoundsAre
<1>9. Matched(S, r) = f[N]
  BY <1>2, <1>3, <1>7 DEF Matched
<1> DEFINE Good == {i \in 0..N : Walked(f[i], S, r, ks, m)}
<1>10. 0 \in Good
  BY <1>1, <1>2, <1>6, <1>8
<1>11. ASSUME NEW i \in Good, i < N PROVE i + 1 \in Good
  <2>1. i \in 0..N /\ i + 1 \in 0..N /\ i + 1 =< N /\ N \in Nat
    BY <1>1, <1>2, <1>11
  <2>2. f[i + 1] = Pair(f[i]) /\ Walked(f[i], S, r, ks, m)
    BY <1>8, <2>1
  <2>3. Walked(Pair(f[i]), S, r, ks, m)
    BY <2>2, PairKeeps, <1>4, <1>5
  <2> QED
    BY <2>1, <2>2, <2>3
<1>12. N \in Good
  <2>1. Good \in SUBSET (0..N)
    OBVIOUS
  <2> HIDE DEF Good
  <2> QED
    BY <1>1, <1>2, <1>10, <1>11, <2>1, RoundInduction
<1> QED
  BY <1>4, <1>5, <1>9, <1>12

-----------------------------------------------------------------------------
(* Ledger lines and the requests about them, however these race and where   *)
(* one at a time is served.                                                 *)

(* What a request holds while it is served: the lines it read, and, where   *)
(* it undoes, the links.                                                    *)
JobTyped(j) ==
    /\ j.lines \in SUBSET Line
    /\ j.residual \in [j.lines -> Int \cup {Null}]
    /\ \A l \in j.lines : j.residual[l] # Null => OnSide(l, j.residual[l])
    /\ j.op = "reconcile" => \A l \in j.lines : j.residual[l] # Null
    /\ j.op \in {"post", "reset", "cancel"} => j.entry \in Entry /\ j.lines = LinesOf(j.entry)
    /\ AreLinks(j.links)
JobsTyped == \A t \in Txn : job[t] # Null => JobTyped(job[t])

(* What holds however requests race.                                        *)
ClaimsInv == ReconcileTypeOK /\ ResidualOnItsSide /\ AreLinks(links) /\ JobsTyped

(* One request at a time: exactly the lines of posted entries have an       *)
(* amount left, the ends of links among them, and of a closed line nothing  *)
(* is left.                                                                 *)
Stamped == \A l \in Line : residual[l] # Null <=> state[EntryOf[l]] = "posted"
LinkedStamped == \A i \in DOMAIN links : \A l \in Ends(links[i]) : residual[l] # Null
ClosedStamped == \A l \in Line : closed[l] # Null => residual[l] = 0
ClaimsRows ==
    /\ Stamped /\ LinkedStamped /\ ClosedStamped
    /\ ResidualIsWhatIsLeft /\ PaymentStateFollows

(* One request at a time: what the request has read is still so.            *)
FreshRead(j) ==
    /\ \A l \in j.lines : j.residual[l] = residual[l] /\ j.closed[l] = closed[l]
    /\ \A e \in EntriesOf(j.lines) : j.paid[e] = paid[e] /\ j.state[e] = state[e]
    /\ DOMAIN j.links \subseteq DOMAIN links /\ \A i \in DOMAIN j.links : j.links[i] = links[i]
    /\ j.op = "undo" => j.lines = EndsOf(DOMAIN j.links)
    /\ j.op \in {"reset", "cancel"} => Unlinked(j.entry)
    /\ j.op = "post" => state[j.entry] = "draft"
FreshJobs == \A t \in Txn : job[t] # Null => FreshRead(job[t])

LEMMA ClaimsParts ==
  ASSUME ClaimsInv
  PROVE  /\ state \in [Entry -> {"draft", "posted", "cancelled"}]
         /\ residual \in [Line -> Int \cup {Null}]
         /\ closed \in [Line -> groups \cup {Null}]
         /\ paid \in [Entry -> {"not_paid", "partial", "paid", Null}]
         /\ DOMAIN links \subseteq 1..made.links
         /\ \A i \in DOMAIN links : links[i] \in Link /\ links[i].group \in groups \cup {Null}
         /\ made.links \in Nat /\ made.groups \in Nat /\ groups \subseteq Nat
         /\ job = [t \in Txn |-> job[t]]
         /\ \A l \in Line : residual[l] # Null => OnSide(l, residual[l])
         /\ AreLinks(links) /\ JobsTyped
BY DEF ClaimsInv, ReconcileTypeOK, ResidualOnItsSide, OnSide

LEMMA LineParts ==
  ASSUME NEW l \in Line
  PROVE  /\ Amount[l] \in Int /\ Amount[l] # 0 /\ OnSide(l, Amount[l])
         /\ EntryOf[l] \in Entry /\ l \in LinesOf(EntryOf[l])
         /\ Null \notin Int
BY AmountAssumption, EntryAssumption, LineAssumption DEF OnSide, LinesOf

LEMMA EntryParts ==
  ASSUME NEW e \in Entry
  PROVE  /\ LinesOf(e) \subseteq Line /\ IsFiniteSet(LinesOf(e)) /\ EntriesOf(LinesOf(e)) = {e}
<1>1. LinesOf(e) \subseteq Line /\ \E l \in Line : EntryOf[l] = e
  BY EntryAssumption DEF LinesOf
<1>2. IsFiniteSet(LinesOf(e))
  BY <1>1, LineAssumption, FS_Subset
<1>3. EntriesOf(LinesOf(e)) = {e}
  BY <1>1 DEF EntriesOf, LinesOf
<1> QED
  BY <1>1, <1>2, <1>3

(* The state of payment of an entry is a matter of its own lines.           *)
LEMMA PaidTyped ==
  ASSUME NEW e, NEW r
  PROVE  PaymentStateOf(e, r) \in {"not_paid", "partial", "paid", Null}
BY DEF PaymentStateOf

LEMMA PaidSame ==
  ASSUME NEW e \in Entry, NEW r, NEW q, \A l \in LinesOf(e) : r[l] = q[l]
  PROVE  PaymentStateOf(e, r) = PaymentStateOf(e, q)
<1>1. IsFiniteSet(LinesOf(e))
  BY EntryParts
<1>2. PICK K : K = {l \in LinesOf(e) : r[l] # Null}
  OBVIOUS
<1>3. K = {l \in LinesOf(e) : q[l] # Null} /\ K \subseteq LinesOf(e) /\ \A l \in K : r[l] = q[l]
  BY <1>2
<1>4. PICK D : D = {l \in K : r[l] > 0}
  OBVIOUS
<1>5. PICK C : C = {l \in K : r[l] < 0}
  OBVIOUS
<1>6. D = {l \in K : q[l] > 0} /\ C = {l \in K : q[l] < 0}
  BY <1>3, <1>4, <1>5
<1>7. SumFunctionOnSet(r, D) = SumFunctionOnSet(q, D)
  <2>1. IsFiniteSet(D) /\ \A l \in D : r[l] = q[l]
    BY <1>1, <1>3, <1>4, FS_Subset
  <2> QED
    BY ONLY <2>1, SumSame
<1>8. SumFunctionOnSet(r, C) = SumFunctionOnSet(q, C)
  <2>1. IsFiniteSet(C) /\ \A l \in C : r[l] = q[l]
    BY <1>1, <1>3, <1>5, FS_Subset
  <2> QED
    BY ONLY <2>1, SumSame
<1> DEFINE debits == {l \in K : Amount[l] > 0}
           debitTotal == SumFunctionOnSet(Amount, debits)
           creditTotal == - SumFunctionOnSet(Amount, K \ debits)
           onDebit == \/ e \in DebitMove
                      \/ /\ e \notin CreditMove
                         /\ debitTotal >= creditTotal
           total == IF onDebit THEN debitTotal ELSE creditTotal
           Says(open) == IF K = {} THEN Null
                         ELSE IF open =< 0 THEN "paid"
                         ELSE IF total = 0 \/ open >= total THEN "not_paid" ELSE "partial"
<1>9. PaymentStateOf(e, r) = Says(IF onDebit THEN SumFunctionOnSet(r, D) ELSE - SumFunctionOnSet(r, C))
  BY <1>2, <1>4, <1>5 DEF PaymentStateOf
<1>10. PaymentStateOf(e, q) = Says(IF onDebit THEN SumFunctionOnSet(q, D) ELSE - SumFunctionOnSet(q, C))
  BY <1>3, <1>6 DEF PaymentStateOf
<1> QED
  BY <1>7, <1>8, <1>9, <1>10

(* A component holds the lines it starts from, and ends of links.           *)
LEMMA ComponentIs ==
  ASSUME NEW S \in SUBSET Line, NEW ks, AreLinks(ks)
  PROVE  /\ Component(S, ks) \subseteq Line
         /\ \A l \in Component(S, ks) : l \in S \/ \E i \in DOMAIN ks : l \in Ends(ks[i])
<1>1. PICK T : T = S \cup UNION {Ends(ks[i]) : i \in DOMAIN ks}
  OBVIOUS
<1>2. T \in SUBSET Line /\ S \subseteq T /\ \A i \in DOMAIN ks : Ends(ks[i]) \subseteq T
  BY <1>1, LinkParts
<1>3. Component(S, ks) \subseteq T
  BY <1>2 DEF Component
<1>4. Component(S, ks) \subseteq Line
  BY DEF Component
<1> QED
  BY <1>1, <1>3, <1>4

(* What is written over what was read, and where that is still so.          *)
LEMMA WrittenIs ==
  ASSUME NEW column, NEW read, NEW new, NEW S, NEW D, column = [x \in D |-> column[x]],
         NEW next, next = Written(column, read, new, S)
  PROVE  /\ next = [x \in D |-> next[x]]
         /\ \A x \in D : next[x] = column[x] \/ (x \in S /\ next[x] = new[x])
         /\ \A x \in D \ S : next[x] = column[x]
         /\ \A x \in D \cap S : read[x] = column[x] => next[x] = new[x]
BY DEF Written

LEMMA EndJobKeeps ==
  ASSUME ClaimsInv, NEW t \in Txn, EndJob(t)
  PROVE  JobsTyped' /\ job' = [u \in Txn |-> job'[u]] /\ \A u \in Txn : job'[u] = IF u = t THEN Null ELSE job[u]
<1>1. job = [u \in Txn |-> job[u]] /\ JobsTyped
  BY ClaimsParts
<1>2. job' = [u \in Txn |-> job'[u]] /\ \A u \in Txn : job'[u] = IF u = t THEN Null ELSE job[u]
  BY <1>1 DEF EndJob
<1>3. \A u \in Txn : job'[u] # Null => job'[u] = job[u] /\ JobTyped(job[u])
  BY <1>1, <1>2 DEF JobsTyped
<1>4. \A u \in Txn : job'[u] # Null => JobTyped(job'[u])
  BY <1>3
<1> QED
  BY <1>2, <1>4 DEF JobsTyped, JobTyped, AreLinks

(* What a request may read.                                                 *)
MayRead(op, S, e, I) ==
    /\ S \in SUBSET Line /\ I \subseteq DOMAIN links
    /\ op = "reconcile" => \A l \in S : residual[l] # Null
    /\ op \in {"post", "reset", "cancel"} => e \in Entry /\ S = LinesOf(e)
    /\ op = "undo" => S = EndsOf(I)
    /\ op \in {"reset", "cancel"} => Unlinked(e)
    /\ op = "post" => state[e] = "draft"

LEMMA ReadKeeps ==
  ASSUME ClaimsInv, NEW t \in Txn, NEW op, NEW S, NEW e, NEW I, Read(t, op, S, e, I), MayRead(op, S, e, I)
  PROVE  /\ UNCHANGED rows
         /\ job' = [u \in Txn |-> job'[u]]
         /\ \A u \in Txn : u # t => job'[u] = job[u]
         /\ JobTyped(job'[t]) /\ FreshRead(job'[t])
<1>1. UNCHANGED rows /\ job = [u \in Txn |-> job[u]]
  BY ClaimsParts DEF Read
<1>2. PICK j : j = [op |-> op, lines |-> S, entry |-> e,
                    links |-> [i \in I |-> links[i]],
                    residual |-> [l \in S |-> residual[l]],
                    closed |-> [l \in S |-> closed[l]],
                    paid |-> [x \in EntriesOf(S) |-> paid[x]],
                    state |-> [x \in EntriesOf(S) |-> state[x]]]
  OBVIOUS
<1>3. job' = [job EXCEPT ![t] = j]
  BY <1>2 DEF Read
<1>4. job'[t] = j /\ job' = [u \in Txn |-> job'[u]] /\ \A u \in Txn : u # t => job'[u] = job[u]
  BY <1>1, <1>3
<1>5. /\ j.op = op /\ j.lines = S /\ j.entry = e
      /\ j.links = [i \in I |-> links[i]] /\ j.residual = [l \in S |-> residual[l]]
      /\ j.closed = [l \in S |-> closed[l]] /\ j.paid = [x \in EntriesOf(S) |-> paid[x]]
      /\ j.state = [x \in EntriesOf(S) |-> state[x]]
  BY <1>2
<1>6. JobTyped(j)
  <2>1. S \in SUBSET Line /\ j.residual \in [S -> Int \cup {Null}]
        /\ \A l \in S : j.residual[l] # Null => OnSide(l, j.residual[l])
    BY <1>5, ClaimsParts DEF MayRead
  <2>2. AreLinks(j.links)
    <3>1. I \subseteq DOMAIN links /\ AreLinks(links)
      BY ClaimsParts DEF MayRead
    <3>2. DOMAIN j.links = I /\ \A i \in I : j.links[i] = links[i]
      BY <1>5
    <3> QED
      BY <3>1, <3>2, FS_Subset DEF AreLinks
  <2> QED
    BY <1>5, <2>1, <2>2 DEF JobTyped, MayRead
<1>7. FreshRead(j)
  BY <1>5 DEF FreshRead, MayRead
<1> QED
  BY <1>1, <1>4, <1>6, <1>7

(* Every request begins with what it may read.                              *)
LEMMA StartMayRead ==
  ASSUME ClaimsInv, NEW t \in Txn, Start(t)
  PROVE  \E op, S, e, I : Read(t, op, S, e, I) /\ MayRead(op, S, e, I)
<1>1. AreLinks(links)
  BY ClaimsParts
<1>2. ASSUME NEW S \in SUBSET Line, StartReconcile(t, S) PROVE MayRead("reconcile", S, Null, {})
  BY <1>2 DEF StartReconcile, Matchable, MayRead
<1>3. ASSUME NEW I \in SUBSET DOMAIN links PROVE MayRead("undo", EndsOf(I), Null, I)
  <2>1. EndsOf(I) \in SUBSET Line
    BY <1>1, LinkParts DEF EndsOf
  <2> QED
    BY <2>1 DEF MayRead
<1>4. ASSUME NEW S \in SUBSET Line, StartUndoLines(t, S)
      PROVE  Read(t, "undo", EndsOf(Touching(S)), Null, Touching(S)) /\ MayRead("undo", EndsOf(Touching(S)), Null, Touching(S))
  <2>1. Touching(S) \in SUBSET DOMAIN links
    BY DEF Touching
  <2> QED
    BY <1>3, <1>4, <2>1 DEF StartUndoLines
<1>5. ASSUME StartAutoReconcile(t)
      PROVE  Read(t, "reconcile", OpenLines, Null, {}) /\ MayRead("reconcile", OpenLines, Null, {})
  <2>1. OpenLines \in SUBSET Line
    BY DEF OpenLines
  <2>2. StartReconcile(t, OpenLines)
    BY <1>5 DEF StartAutoReconcile
  <2> QED
    BY <1>2, <2>1, <2>2 DEF StartReconcile
<1>6. ASSUME NEW g \in groups, StartUndoGroup(t, g)
      PROVE  \E I : Read(t, "undo", EndsOf(I), Null, I) /\ MayRead("undo", EndsOf(I), Null, I)
  <2>1. PICK I : I = {i \in DOMAIN links : links[i].group = g}
    OBVIOUS
  <2>2. Read(t, "undo", EndsOf(I), Null, I) /\ I \in SUBSET DOMAIN links
    BY <1>6, <2>1 DEF StartUndoGroup
  <2> QED
    BY <1>3, <2>2
<1>7. ASSUME NEW e \in Entry, StartPost(t, e)
      PROVE  Read(t, "post", LinesOf(e), e, {}) /\ MayRead("post", LinesOf(e), e, {})
  BY <1>7, EntryParts DEF StartPost, MayRead
<1>8. ASSUME NEW e \in Entry, StartReset(t, e)
      PROVE  Read(t, "reset", LinesOf(e), e, {}) /\ MayRead("reset", LinesOf(e), e, {})
  BY <1>8, EntryParts DEF StartReset, MayRead
<1>9. ASSUME NEW e \in Entry, StartCancelEntry(t, e)
      PROVE  Read(t, "cancel", LinesOf(e), e, {}) /\ MayRead("cancel", LinesOf(e), e, {})
  BY <1>9, EntryParts DEF StartCancelEntry, MayRead
<1>10. ASSUME NEW S \in SUBSET Line, StartReconcile(t, S)
       PROVE  Read(t, "reconcile", S, Null, {}) /\ MayRead("reconcile", S, Null, {})
  BY <1>2, <1>10 DEF StartReconcile
<1> QED
  BY <1>4, <1>5, <1>6, <1>7, <1>8, <1>9, <1>10 DEF Start

(* A step that leaves the rows as they are.                                 *)
LEMMA RowsKept ==
  ASSUME UNCHANGED rows
  PROVE  /\ state' = state /\ residual' = residual /\ closed' = closed /\ paid' = paid
         /\ links' = links /\ groups' = groups /\ made' = made
         /\ ResidualOnItsSide' <=> ResidualOnItsSide
         /\ AreLinks(links)' <=> AreLinks(links)
         /\ ClaimsRows' <=> ClaimsRows
         /\ \A j : FreshRead(j)' <=> FreshRead(j)
<1>1. /\ state' = state /\ residual' = residual /\ closed' = closed /\ paid' = paid
      /\ links' = links /\ groups' = groups /\ made' = made
  BY DEF rows
<1>2. ResidualOnItsSide' <=> ResidualOnItsSide
  BY <1>1 DEF ResidualOnItsSide
<1>3. AreLinks(links)' <=> AreLinks(links)
  BY <1>1 DEF AreLinks
<1>4. Stamped' <=> Stamped
  BY <1>1 DEF Stamped
<1>5. LinkedStamped' <=> LinkedStamped
  BY <1>1 DEF LinkedStamped
<1>6. ClosedStamped' <=> ClosedStamped
  BY <1>1 DEF ClosedStamped
<1>7. ResidualIsWhatIsLeft' <=> ResidualIsWhatIsLeft
  BY <1>1 DEF ResidualIsWhatIsLeft
<1>8. PaymentStateFollows' <=> PaymentStateFollows
  BY <1>1 DEF PaymentStateFollows
<1>9. \A j : FreshRead(j)' <=> FreshRead(j)
  BY <1>1 DEF FreshRead, Unlinked, Touching, EndsOf
<1> QED
  BY <1>1, <1>2, <1>3, <1>4, <1>5, <1>6, <1>7, <1>8, <1>9 DEF ClaimsRows

(* The rows are as they were: what is served may have changed.              *)
LEMMA RowsKeptInv ==
  ASSUME ClaimsInv, UNCHANGED rows, job' = [u \in Txn |-> job'[u]], JobsTyped'
  PROVE  ClaimsInv'
<1>1. ReconcileTypeOK'
  BY RowsKept DEF ClaimsInv, ReconcileTypeOK
<1> QED
  BY <1>1, RowsKept DEF ClaimsInv

LEMMA StartKeeps ==
  ASSUME ClaimsInv, NEW t \in Txn, Start(t)
  PROVE  /\ ClaimsInv'
         /\ ClaimsRows /\ FreshJobs => ClaimsRows' /\ FreshJobs'
<1>1. PICK op, S, e, I : Read(t, op, S, e, I) /\ MayRead(op, S, e, I)
  BY StartMayRead
<1>2. /\ UNCHANGED rows
      /\ job' = [u \in Txn |-> job'[u]]
      /\ \A u \in Txn : u # t => job'[u] = job[u]
      /\ JobTyped(job'[t]) /\ FreshRead(job'[t])
  BY <1>1, ReadKeeps
<1>3. JobsTyped'
  <2>1. \A u \in Txn : job'[u] # Null => JobTyped(job'[u])
    BY <1>2, ClaimsParts DEF JobsTyped
  <2> QED
    BY <2>1 DEF JobsTyped, JobTyped, AreLinks
<1>4. ClaimsInv'
  BY <1>2, <1>3, RowsKeptInv
<1>5. ASSUME ClaimsRows, FreshJobs PROVE ClaimsRows' /\ FreshJobs'
  <2>1. \A u \in Txn : job'[u] # Null => FreshRead(job'[u])
    BY <1>2, <1>5 DEF FreshJobs
  <2>2. FreshJobs'
    <3>1. /\ state' = state /\ residual' = residual /\ closed' = closed /\ paid' = paid
          /\ links' = links
      BY <1>2, RowsKept
    <3> QED
      BY <2>1, <3>1 DEF FreshJobs, FreshRead, Unlinked, Touching, EndsOf
  <2> QED
    BY <1>2, <1>5, <2>2, RowsKept
<1> QED
  BY <1>4, <1>5

(* A step that ends a request keeps the invariant when it keeps the rows    *)
(* well formed.                                                             *)
RowsTyped ==
    /\ state \in [Entry -> {"draft", "posted", "cancelled"}]
    /\ residual = [l \in Line |-> residual[l]]
    /\ \A l \in Line : residual[l] # Null => residual[l] \in Int /\ OnSide(l, residual[l])
    /\ closed \in [Line -> groups \cup {Null}]
    /\ paid \in [Entry -> {"not_paid", "partial", "paid", Null}]
    /\ DOMAIN links \subseteq 1..made.links
    /\ \A i \in DOMAIN links : links[i] \in Link /\ links[i].group \in groups \cup {Null}
    /\ made \in [links : Nat, groups : Nat] /\ groups \subseteq Nat
    /\ AreLinks(links)

LEMMA EndKeeps ==
  ASSUME ClaimsInv, NEW t \in Txn, EndJob(t), RowsTyped'
  PROVE  ClaimsInv'
<1>1. JobsTyped' /\ job' = [u \in Txn |-> job'[u]]
  BY EndJobKeeps
<1>2. \A l \in Line : residual'[l] \in Int \cup {Null}
  BY DEF RowsTyped
<1>3. residual' \in [Line -> Int \cup {Null}]
  BY <1>2 DEF RowsTyped
<1>4. ReconcileTypeOK'
  BY <1>1, <1>3 DEF RowsTyped, ReconcileTypeOK
<1>5. ResidualOnItsSide'
  BY DEF RowsTyped, ResidualOnItsSide, OnSide
<1> QED
  BY <1>1, <1>4, <1>5 DEF RowsTyped, ClaimsInv

LEMMA NoneServed ==
  ASSUME ClaimsInv, NEW t \in Txn, EndJob(t), \A u \in Txn \ {t} : job[u] = Null
  PROVE  FreshJobs'
<1>1. \A u \in Txn : job'[u] = IF u = t THEN Null ELSE job[u]
  BY EndJobKeeps
<1>2. \A u \in Txn : job'[u] = Null
  BY <1>1
<1> QED
  BY <1>2 DEF FreshJobs

LEMMA FailKeeps ==
  ASSUME ClaimsInv, NEW t \in Txn, Fail(t)
  PROVE  ClaimsInv' /\ (ClaimsRows => ClaimsRows')
BY EndJobKeeps, RowsKeptInv, RowsKept DEF Fail

(* Posting.                                                                 *)
LEMMA PostKeeps ==
  ASSUME ClaimsInv, NEW t \in Txn, FinishPost(t)
  PROVE  ClaimsInv' /\ (ClaimsRows /\ FreshRead(job[t]) => ClaimsRows')
<1>1. PICK j : j = job[t]
  OBVIOUS
<1>2. PICK e : e = j.entry
  OBVIOUS
<1>3. PICK S : S = j.lines
  OBVIOUS
<1>4. PICK read : read = j.residual
  OBVIOUS
<1>5. PICK new : new = [l \in S |-> IF read[l] = Null THEN Amount[l] ELSE read[l]]
  OBVIOUS
<1>6. /\ j # Null /\ j.op = "post"
      /\ state' = [state EXCEPT ![e] = "posted"]
      /\ residual' = Written(residual, read, new, S)
      /\ paid' = Written(paid, j.paid, [x \in Entry |-> PaymentStateOf(x, new)], {e})
      /\ EndJob(t)
      /\ closed' = closed /\ links' = links /\ groups' = groups /\ made' = made
  BY <1>1, <1>2, <1>3, <1>4, <1>5 DEF FinishPost
<1>7. JobTyped(j)
  BY <1>1, <1>6, ClaimsParts DEF JobsTyped
<1>8. /\ S \in SUBSET Line /\ read \in [S -> Int \cup {Null}]
      /\ \A l \in S : read[l] # Null => OnSide(l, read[l])
      /\ e \in Entry /\ S = LinesOf(e)
  BY <1>2, <1>3, <1>4, <1>6, <1>7 DEF JobTyped
<1>9. \A l \in S : new[l] \in Int /\ OnSide(l, new[l]) /\ (read[l] = Null => new[l] = Amount[l])
  BY <1>5, <1>8, LineParts
<1>10. /\ residual = [l \in Line |-> residual[l]] /\ paid = [x \in Entry |-> paid[x]]
       /\ state = [x \in Entry |-> state[x]]
  BY ClaimsParts
<1>11. /\ residual' = [l \in Line |-> residual'[l]]
       /\ \A l \in Line : residual'[l] = residual[l] \/ (l \in S /\ residual'[l] = new[l])
       /\ \A l \in Line \ S : residual'[l] = residual[l]
       /\ \A l \in Line \cap S : read[l] = residual[l] => residual'[l] = new[l]
  <2>1. PICK next : next = residual'
    OBVIOUS
  <2> QED
    BY <1>6, <1>10, <2>1, WrittenIs
<1>12. PICK due : due = [x \in Entry |-> PaymentStateOf(x, new)]
  OBVIOUS
<1>13. /\ paid' = [x \in Entry |-> paid'[x]]
       /\ \A x \in Entry : paid'[x] = paid[x] \/ (x \in {e} /\ paid'[x] = due[x])
       /\ \A x \in Entry \ {e} : paid'[x] = paid[x]
       /\ \A x \in Entry \cap {e} : j.paid[x] = paid[x] => paid'[x] = due[x]
  <2>1. PICK next : next = paid'
    OBVIOUS
  <2>2. PICK was, one : was = j.paid /\ one = {e}
    OBVIOUS
  <2>3. paid = [x \in Entry |-> paid[x]] /\ next = Written(paid, was, due, one)
    BY <1>6, <1>10, <1>12, <2>1, <2>2
  <2>4. /\ next = [x \in Entry |-> next[x]]
        /\ \A x \in Entry : next[x] = paid[x] \/ (x \in one /\ next[x] = due[x])
        /\ \A x \in Entry \ one : next[x] = paid[x]
        /\ \A x \in Entry \cap one : was[x] = paid[x] => next[x] = due[x]
    BY ONLY <2>3, WrittenIs
  <2> QED
    BY <2>1, <2>2, <2>4
<1>14. state'[e] = "posted" /\ (\A x \in Entry \ {e} : state'[x] = state[x])
       /\ state' = [x \in Entry |-> state'[x]]
  BY <1>6, <1>8, <1>10
<1>15. ClaimsInv'
  <2>1. \A x \in Entry : paid'[x] \in {"not_paid", "partial", "paid", Null}
    BY <1>12, <1>13, PaidTyped, ClaimsParts
  <2>2. \A l \in Line : residual'[l] # Null => residual'[l] \in Int /\ OnSide(l, residual'[l])
    BY <1>9, <1>11, ClaimsParts
  <2>3. state' \in [Entry -> {"draft", "posted", "cancelled"}]
    BY <1>14, ClaimsParts
  <2>4. paid' \in [Entry -> {"not_paid", "partial", "paid", Null}]
    BY <1>13, <2>1
  <2>5. (AreLinks(links))'
    BY <1>6, ClaimsParts DEF AreLinks
  <2>6. made' \in [links : Nat, groups : Nat]
    BY <1>6 DEF ClaimsInv, ReconcileTypeOK
  <2>7. RowsTyped'
    BY <1>6, <1>11, <2>2, <2>3, <2>4, <2>5, <2>6, ClaimsParts DEF RowsTyped, OnSide
  <2> QED
    BY <1>6, <2>7, EndKeeps
<1>16. ASSUME ClaimsRows, FreshRead(j) PROVE ClaimsRows'
  <2>1. /\ \A l \in S : read[l] = residual[l]
        /\ j.paid[e] = paid[e] /\ state[e] = "draft"
    BY <1>2, <1>3, <1>4, <1>6, <1>8, <1>16, EntryParts DEF FreshRead
  <2>2. /\ Stamped /\ LinkedStamped /\ ClosedStamped /\ ResidualIsWhatIsLeft /\ PaymentStateFollows
    BY <1>16 DEF ClaimsRows
  <2>3. \A l \in S : EntryOf[l] = e /\ l \in Line
    BY <1>8 DEF LinesOf
  <2>4. \A l \in Line \ S : EntryOf[l] # e /\ EntryOf[l] \in Entry
    BY <1>8, LineParts DEF LinesOf
  <2>5. \A l \in S : residual[l] = Null /\ residual'[l] = Amount[l] /\ residual'[l] = new[l] /\ residual'[l] # Null
    BY <1>9, <1>11, <2>1, <2>2, <2>3, LineParts DEF Stamped
  <2>6. Stamped'
    BY <1>11, <1>14, <2>2, <2>3, <2>4, <2>5 DEF Stamped
  <2>7. LinkedStamped'
    <3>1. \A i \in DOMAIN links : \A l \in Ends(links[i]) : l \in Line /\ residual[l] # Null
      BY <2>2, LinkParts, ClaimsParts DEF LinkedStamped
    <3>2. \A i \in DOMAIN links : \A l \in Ends(links[i]) : residual'[l] # Null
      BY <1>11, <2>5, <3>1
    <3> QED
      BY <1>6, <3>2 DEF LinkedStamped
  <2>8. ClosedStamped'
    <3>1. \A l \in Line : closed[l] # Null => l \notin S
      BY <2>2, <2>5, LineParts DEF ClosedStamped
    <3> QED
      BY <1>6, <1>11, <2>2, <3>1 DEF ClosedStamped
  <2>9. ResidualIsWhatIsLeft'
    <3>1. ASSUME NEW l \in S PROVE Taken(links, l) = 0
      <4>1. \A i \in DOMAIN links : l \notin Ends(links[i])
        BY <2>2, <2>5 DEF LinkedStamped
      <4> QED
        BY <2>3, <4>1, TakenSide, ClaimsParts
    <3>2. \A l \in Line : residual'[l] # Null => residual'[l] = Amount[l] - Taken(links, l)
      <4>1. \A l \in S : residual'[l] = Amount[l] - Taken(links, l)
        BY <2>3, <2>5, <3>1, LineParts
      <4> QED
        BY <1>11, <2>2, <4>1 DEF ResidualIsWhatIsLeft
    <3>3. \A l : (Taken(links, l))' = Taken(links, l)
      BY <1>6 DEF Taken, Share
    <3> QED
      BY <3>2, <3>3 DEF ResidualIsWhatIsLeft
  <2>10. \A x \in Entry : state'[x] = "posted" => paid'[x] = PaymentStateOf(x, residual')
    <3>1. paid'[e] = PaymentStateOf(e, residual')
      <4>1. paid'[e] = PaymentStateOf(e, new)
        BY <1>8, <1>12, <1>13, <2>1
      <4>2. \A l \in LinesOf(e) : new[l] = residual'[l]
        BY <1>8, <2>5
      <4> QED
        BY <1>8, <4>1, <4>2, PaidSame
    <3>2. ASSUME NEW x \in Entry, x # e, state'[x] = "posted" PROVE paid'[x] = PaymentStateOf(x, residual')
      <4>1. paid'[x] = paid[x] /\ paid[x] = PaymentStateOf(x, residual)
        BY <1>13, <1>14, <2>2, <3>2 DEF PaymentStateFollows
      <4>2. \A l \in LinesOf(x) : residual[l] = residual'[l]
        BY <1>11, <2>3, <3>2 DEF LinesOf
      <4> QED
        BY <4>1, <4>2, PaidSame
    <3> QED
      BY <3>1, <3>2
  <2>11. PaymentStateFollows'
    BY <2>10 DEF PaymentStateFollows
  <2> QED
    BY <2>6, <2>7, <2>8, <2>9, <2>11 DEF ClaimsRows
<1> QED
  BY <1>1, <1>15, <1>16

(* Resetting to draft and cancelling.                                       *)
LEMMA ReleaseKeeps ==
  ASSUME ClaimsInv, NEW t \in Txn, NEW op \in {"reset", "cancel"}, NEW st \in {"draft", "cancelled"},
         FinishRelease(t, op, st)
  PROVE  ClaimsInv' /\ (ClaimsRows /\ FreshRead(job[t]) => ClaimsRows')
<1>1. PICK j : j = job[t]
  OBVIOUS
<1>2. PICK e, one : e = j.entry /\ one = {e}
  OBVIOUS
<1>3. PICK S : S = j.lines
  OBVIOUS
<1>4. PICK read, was, stood : read = j.residual /\ was = j.paid /\ stood = j.state
  OBVIOUS
<1>5. PICK new, due, now : /\ new = [l \in S |-> Null] /\ due = [x \in Entry |-> Null]
                           /\ now = [x \in one |-> st]
  OBVIOUS
<1>6. /\ j # Null /\ j.op = op
      /\ state' = Written(state, stood, now, one)
      /\ residual' = Written(residual, read, new, S)
      /\ paid' = Written(paid, was, due, one)
      /\ EndJob(t)
      /\ closed' = closed /\ links' = links /\ groups' = groups /\ made' = made
  BY <1>1, <1>2, <1>3, <1>4, <1>5 DEF FinishRelease
<1>7. JobTyped(j)
  BY <1>1, <1>6, ClaimsParts DEF JobsTyped
<1>8. S \in SUBSET Line /\ e \in Entry /\ S = LinesOf(e)
  BY <1>2, <1>3, <1>6, <1>7 DEF JobTyped
<1>9. PICK residuals, pays, states : residuals = residual' /\ pays = paid' /\ states = state'
  OBVIOUS
<1>10. /\ residual = [l \in Line |-> residual[l]] /\ paid = [x \in Entry |-> paid[x]]
       /\ state = [x \in Entry |-> state[x]]
       /\ residuals = Written(residual, read, new, S) /\ pays = Written(paid, was, due, one)
       /\ states = Written(state, stood, now, one)
  BY <1>6, <1>9, ClaimsParts
<1>11. /\ residuals = [l \in Line |-> residuals[l]]
       /\ \A l \in Line : residuals[l] = residual[l] \/ (l \in S /\ residuals[l] = new[l])
       /\ \A l \in Line \ S : residuals[l] = residual[l]
       /\ \A l \in Line \cap S : read[l] = residual[l] => residuals[l] = new[l]
  BY ONLY <1>10, WrittenIs
<1>12. /\ pays = [x \in Entry |-> pays[x]]
       /\ \A x \in Entry : pays[x] = paid[x] \/ (x \in one /\ pays[x] = due[x])
       /\ \A x \in Entry \ one : pays[x] = paid[x]
       /\ \A x \in Entry \cap one : was[x] = paid[x] => pays[x] = due[x]
  BY ONLY <1>10, WrittenIs
<1>13. /\ states = [x \in Entry |-> states[x]]
       /\ \A x \in Entry : states[x] = state[x] \/ (x \in one /\ states[x] = now[x])
       /\ \A x \in Entry \ one : states[x] = state[x]
       /\ \A x \in Entry \cap one : stood[x] = state[x] => states[x] = now[x]
  BY ONLY <1>10, WrittenIs
<1>14. ClaimsInv'
  <2>1. \A l \in Line : residual'[l] # Null => residual'[l] \in Int /\ OnSide(l, residual'[l])
    BY <1>5, <1>9, <1>11, ClaimsParts
  <2>2. state' \in [Entry -> {"draft", "posted", "cancelled"}]
    <3>1. \A x \in Entry : states[x] \in {"draft", "posted", "cancelled"}
      BY <1>5, <1>13, ClaimsParts
    <3> QED
      BY <1>9, <1>13, <3>1
  <2>3. paid' \in [Entry -> {"not_paid", "partial", "paid", Null}]
    <3>1. \A x \in Entry : pays[x] \in {"not_paid", "partial", "paid", Null}
      BY <1>5, <1>12, ClaimsParts
    <3> QED
      BY <1>9, <1>12, <3>1
  <2>4. (AreLinks(links))'
    BY <1>6, ClaimsParts DEF AreLinks
  <2>5. made' \in [links : Nat, groups : Nat]
    BY <1>6 DEF ClaimsInv, ReconcileTypeOK
  <2>6. residual' = [l \in Line |-> residual'[l]]
    BY <1>9, <1>11
  <2>7. RowsTyped'
    BY <1>6, <2>1, <2>2, <2>3, <2>4, <2>5, <2>6, ClaimsParts DEF RowsTyped, OnSide
  <2> QED
    BY <1>6, <2>7, EndKeeps
<1>15. ASSUME ClaimsRows, FreshRead(j) PROVE ClaimsRows'
  <2>1. /\ \A l \in S : read[l] = residual[l]
        /\ stood[e] = state[e] /\ was[e] = paid[e] /\ Unlinked(e)
    BY <1>2, <1>3, <1>4, <1>6, <1>8, <1>15, EntryParts DEF FreshRead
  <2>2. /\ Stamped /\ LinkedStamped /\ ClosedStamped /\ ResidualIsWhatIsLeft /\ PaymentStateFollows
    BY <1>15 DEF ClaimsRows
  <2>3. \A l \in S : EntryOf[l] = e /\ l \in Line
    BY <1>8 DEF LinesOf
  <2>4. \A l \in Line \ S : EntryOf[l] # e /\ EntryOf[l] \in Entry
    BY <1>8, LineParts DEF LinesOf
  <2>5. \A l \in S : residual'[l] = Null
    BY <1>5, <1>9, <1>11, <2>1, <2>3
  <2>6. \A l \in Line \ S : residual'[l] = residual[l]
    BY <1>9, <1>11
  <2>7. state'[e] = st /\ state'[e] # "posted" /\ \A x \in Entry \ {e} : state'[x] = state[x]
    BY <1>2, <1>5, <1>8, <1>9, <1>13, <2>1
  <2>8. \A x \in Entry \ {e} : paid'[x] = paid[x]
    BY <1>2, <1>9, <1>12
  <2>9. \A i \in DOMAIN links : \A l \in Ends(links[i]) : l \in Line /\ l \notin S
    BY <1>8, <2>1, LinkParts, ClaimsParts DEF Unlinked, Touching
  <2>10. Stamped'
    BY <2>2, <2>3, <2>4, <2>5, <2>6, <2>7 DEF Stamped
  <2>11. LinkedStamped'
    <3>1. \A i \in DOMAIN links : \A l \in Ends(links[i]) : residual'[l] # Null
      BY <2>2, <2>6, <2>9 DEF LinkedStamped
    <3> QED
      BY <1>6, <3>1 DEF LinkedStamped
  <2>12. ClosedStamped'
    <3>1. ASSUME NEW l \in S PROVE closed[l] = Null
      <4>1. Taken(links, l) = 0
        BY <2>3, <2>9, TakenSide, ClaimsParts
      <4>2. l \in Line /\ Amount[l] \in Int /\ Amount[l] # 0 /\ Null \notin Int
        BY <2>3, LineParts
      <4>3. SUFFICES ASSUME closed[l] # Null PROVE FALSE
        OBVIOUS
      <4>4. residual[l] = 0 /\ residual[l] # Null
        BY <2>2, <4>2, <4>3 DEF ClosedStamped
      <4>5. residual[l] = Amount[l] - Taken(links, l)
        BY <2>2, <4>2, <4>4 DEF ResidualIsWhatIsLeft
      <4> QED
        BY <4>1, <4>2, <4>4, <4>5
    <3> QED
      BY <1>6, <2>2, <2>6, <3>1 DEF ClosedStamped
  <2>13. ResidualIsWhatIsLeft'
    <3>1. \A l \in Line : residual'[l] # Null => residual'[l] = Amount[l] - Taken(links, l)
      BY <2>2, <2>5, <2>6 DEF ResidualIsWhatIsLeft
    <3>2. \A l : (Taken(links, l))' = Taken(links, l)
      BY <1>6 DEF Taken, Share
    <3> QED
      BY <3>1, <3>2 DEF ResidualIsWhatIsLeft
  <2>14. \A x \in Entry : state'[x] = "posted" => paid'[x] = PaymentStateOf(x, residual')
    <3> SUFFICES ASSUME NEW x \in Entry, state'[x] = "posted" PROVE paid'[x] = PaymentStateOf(x, residual')
      OBVIOUS
    <3>1. x # e /\ paid'[x] = paid[x] /\ paid[x] = PaymentStateOf(x, residual)
      BY <2>2, <2>7, <2>8 DEF PaymentStateFollows
    <3>2. \A l \in LinesOf(x) : residual[l] = residual'[l]
      BY <2>3, <2>6, <3>1 DEF LinesOf
    <3> QED
      BY <3>1, <3>2, PaidSame
  <2>15. PaymentStateFollows'
    BY <2>14 DEF PaymentStateFollows
  <2> QED
    BY <2>10, <2>11, <2>12, <2>13, <2>15 DEF ClaimsRows
<1> QED
  BY <1>1, <1>14, <1>15

(* The states of payment after the lines S changed, when they follow what   *)
(* the session sees.                                                        *)
LEMMA PaymentsFollow ==
  ASSUME NEW S \in SUBSET Line, NEW r, \A l \in Line \ S : r[l] = residual[l],
         PaymentStateFollows, NEW x \in Entry, state[x] = "posted"
  PROVE  PaymentStates(S, r)[x] = PaymentStateOf(x, r)
<1>1. PaymentStates(S, r)[x] = IF x \in EntriesOf(S) THEN PaymentStateOf(x, r) ELSE paid[x]
  BY DEF PaymentStates
<1>2. ASSUME x \notin EntriesOf(S) PROVE paid[x] = PaymentStateOf(x, r)
  <2>1. \A l \in LinesOf(x) : residual[l] = r[l]
    BY <1>2 DEF LinesOf, EntriesOf
  <2>2. paid[x] = PaymentStateOf(x, residual)
    BY DEF PaymentStateFollows
  <2> QED
    BY <2>1, <2>2, PaidSame
<1> QED
  BY <1>1, <1>2

LEMMA PaymentsTyped ==
  ASSUME ClaimsInv, NEW S, NEW r
  PROVE  PaymentStates(S, r) \in [Entry -> {"not_paid", "partial", "paid", Null}]
<1>1. \A x \in Entry : PaymentStateOf(x, r) \in {"not_paid", "partial", "paid", Null}
      /\ paid[x] \in {"not_paid", "partial", "paid", Null}
  BY PaidTyped, ClaimsParts
<1> QED
  BY <1>1 DEF PaymentStates

(* Undoing.                                                                 *)
LEMMA UndoKeeps ==
  ASSUME ClaimsInv, NEW t \in Txn, FinishUndo(t)
  PROVE  ClaimsInv' /\ (ClaimsRows /\ FreshRead(job[t]) => ClaimsRows')
<1>1. PICK j : j = job[t]
  OBVIOUS
<1>2. PICK S, ks : S = j.lines /\ ks = j.links
  OBVIOUS
<1>3. PICK read, was : read = j.residual /\ was = j.closed
  OBVIOUS
<1>4. PICK new, none : new = [l \in S |-> GivenBack(ks, read, l)] /\ none = [l \in S |-> Null]
  OBVIOUS
<1>5. PICK residuals, closeds, seen : residuals = residual' /\ closeds = closed' /\ seen = Seen(new, S)
  OBVIOUS
<1>6. PICK gone : /\ groups' = groups \ gone
                  /\ \A i \in DOMAIN links' : links'[i].group \notin gone
                  /\ \A l \in Line : closeds[l] \notin gone
  <2>1. PICK gone : gone = {g \in groups \cap ({job[t].closed[l] : l \in job[t].lines}
                                               \cup {job[t].links[i].group : i \in DOMAIN job[t].links}) :
                              \A l \in Line : closed'[l] # g}
    OBVIOUS
  <2>2. groups' = groups \ gone /\ \A i \in DOMAIN links' : links'[i].group \notin gone
    BY <2>1 DEF FinishUndo
  <2>3. \A l \in Line : closed'[l] \notin gone
    BY <2>1
  <2> QED
    BY <1>5, <2>2, <2>3
<1>7. /\ j # Null /\ j.op = "undo"
      /\ residuals = Written(residual, read, new, S)
      /\ closeds = Written(closed, was, none, S)
      /\ links' = [i \in DOMAIN links \ DOMAIN ks |-> links[i]]
      /\ paid' = PaymentStates(S, seen)
      /\ EndJob(t)
      /\ state' = state /\ made' = made
  BY <1>1, <1>2, <1>3, <1>4, <1>5 DEF FinishUndo
<1>8. JobTyped(j)
  BY <1>1, <1>7, ClaimsParts DEF JobsTyped
<1>9. /\ S \in SUBSET Line /\ read \in [S -> Int \cup {Null}]
      /\ \A l \in S : read[l] # Null => OnSide(l, read[l])
      /\ AreLinks(ks)
  BY <1>2, <1>3, <1>8 DEF JobTyped
<1>10. /\ residual = [l \in Line |-> residual[l]] /\ closed = [l \in Line |-> closed[l]]
  BY ClaimsParts
<1>11. /\ residuals = [l \in Line |-> residuals[l]]
       /\ \A l \in Line : residuals[l] = residual[l] \/ (l \in S /\ residuals[l] = new[l])
       /\ \A l \in Line \ S : residuals[l] = residual[l]
       /\ \A l \in Line \cap S : read[l] = residual[l] => residuals[l] = new[l]
  BY ONLY <1>7, <1>10, WrittenIs
<1>12. /\ closeds = [l \in Line |-> closeds[l]]
       /\ \A l \in Line : closeds[l] = closed[l] \/ (l \in S /\ closeds[l] = none[l])
       /\ \A l \in Line \ S : closeds[l] = closed[l]
       /\ \A l \in Line \cap S : was[l] = closed[l] => closeds[l] = none[l]
  BY ONLY <1>7, <1>10, WrittenIs
<1>13. \A l \in S : new[l] = Left(read, l) + Taken(ks, l) /\ Left(read, l) \in Int /\ OnSide(l, Left(read, l))
  <2>1. \A l \in S : read[l] \in Int \cup {Null}
    BY <1>9
  <2> QED
    BY <1>4, <1>9, <2>1 DEF GivenBack, Left, OnSide
<1>14. \A l \in S : new[l] \in Int /\ OnSide(l, new[l])
  <2> SUFFICES ASSUME NEW l \in S PROVE new[l] \in Int /\ OnSide(l, new[l])
    OBVIOUS
  <2>1. /\ Taken(ks, l) \in Int /\ Amount[l] \in Int /\ Amount[l] # 0
        /\ (Amount[l] > 0 => Taken(ks, l) >= 0) /\ (Amount[l] < 0 => Taken(ks, l) =< 0)
    BY <1>9, TakenSide, LineParts
  <2> QED
    BY <1>13, <2>1 DEF OnSide
<1>15. DOMAIN links' = DOMAIN links \ DOMAIN ks /\ \A i \in DOMAIN links' : links'[i] = links[i]
  BY <1>7
<1>16. ClaimsInv'
  <2>1. \A l \in Line : residual'[l] # Null => residual'[l] \in Int /\ OnSide(l, residual'[l])
    BY <1>5, <1>11, <1>14, ClaimsParts
  <2>2. closed' \in [Line -> groups' \cup {Null}]
    <3>1. \A l \in Line : closeds[l] \in groups \cup {Null}
      BY <1>4, <1>12, ClaimsParts
    <3>2. \A l \in Line : closeds[l] \in groups' \cup {Null}
      BY <1>6, <3>1
    <3> QED
      BY <1>5, <1>12, <3>2
  <2>3. paid' \in [Entry -> {"not_paid", "partial", "paid", Null}]
    BY <1>7, PaymentsTyped
  <2>4. \A i \in DOMAIN links' : links'[i] \in Link /\ links'[i].group \in groups' \cup {Null}
    BY <1>6, <1>15, ClaimsParts
  <2>5. (AreLinks(links))'
    <3>1. IsFiniteSet(DOMAIN links')
      <4>1. IsFiniteSet(DOMAIN links) /\ DOMAIN links' \subseteq DOMAIN links
        BY <1>15, ClaimsParts DEF AreLinks
      <4> QED
        BY <4>1, FS_Subset
    <3>2. \A i \in DOMAIN links' : links'[i] \in Link /\ Amount[links'[i].debit] > 0 /\ Amount[links'[i].credit] < 0
      BY <1>15, ClaimsParts DEF AreLinks
    <3> QED
      BY <3>1, <3>2 DEF AreLinks
  <2>6. made' \in [links : Nat, groups : Nat] /\ groups' \subseteq Nat /\ DOMAIN links' \subseteq 1..made'.links
    BY <1>6, <1>7, <1>15, ClaimsParts DEF ClaimsInv, ReconcileTypeOK
  <2>7. residual' = [l \in Line |-> residual'[l]]
    BY <1>5, <1>11
  <2>8. state' \in [Entry -> {"draft", "posted", "cancelled"}]
    BY <1>7, ClaimsParts
  <2>9. RowsTyped'
    BY <2>1, <2>2, <2>3, <2>4, <2>5, <2>6, <2>7, <2>8 DEF RowsTyped, OnSide
  <2> QED
    BY <1>7, <2>9, EndKeeps
<1>17. ASSUME ClaimsRows, FreshRead(j) PROVE ClaimsRows'
  <2>1. /\ \A l \in S : read[l] = residual[l] /\ was[l] = closed[l]
        /\ S = EndsOf(DOMAIN ks)
        /\ DOMAIN ks \subseteq DOMAIN links /\ \A i \in DOMAIN ks : ks[i] = links[i]
    BY <1>2, <1>3, <1>7, <1>17 DEF FreshRead
  <2>2. /\ Stamped /\ LinkedStamped /\ ClosedStamped /\ ResidualIsWhatIsLeft /\ PaymentStateFollows
    BY <1>17 DEF ClaimsRows
  <2>3. \A i \in DOMAIN ks : Ends(ks[i]) \subseteq S
    BY <2>1 DEF EndsOf
  <2>4. \A l \in S : residual[l] # Null
    <3>1. \A l \in S : \E i \in DOMAIN ks : l \in Ends(links[i]) /\ i \in DOMAIN links
      BY <2>1 DEF EndsOf
    <3> QED
      BY <2>2, <3>1 DEF LinkedStamped
  <2>5. \A l \in S : residual'[l] = residual[l] + Taken(ks, l) /\ residual'[l] # Null /\ residual'[l] \in Int
    <3> SUFFICES ASSUME NEW l \in S
                 PROVE  residual'[l] = residual[l] + Taken(ks, l) /\ residual'[l] # Null /\ residual'[l] \in Int
      OBVIOUS
    <3>1. residual'[l] = new[l] /\ Left(read, l) = residual[l] /\ new[l] \in Int /\ Null \notin Int
      BY <1>5, <1>9, <1>11, <1>14, <2>1, <2>4, LineParts DEF Left
    <3> QED
      BY <1>13, <3>1
  <2>6. \A l \in Line \ S : residual'[l] = residual[l]
    BY <1>5, <1>11
  <2>7. \A l \in Line : residual'[l] # Null <=> residual[l] # Null
    BY <2>4, <2>5, <2>6
  <2>8. Stamped'
    BY <1>7, <2>2, <2>7 DEF Stamped
  <2>9. LinkedStamped'
    <3>1. \A i \in DOMAIN links' : \A l \in Ends(links'[i]) : residual'[l] # Null
      BY <1>15, <2>2, <2>7, LinkParts, ClaimsParts DEF LinkedStamped
    <3> QED
      BY <3>1 DEF LinkedStamped
  <2>10. ClosedStamped'
    <3>1. \A l \in Line : closed'[l] # Null => l \notin S /\ closed'[l] = closed[l]
      BY <1>4, <1>5, <1>12, <2>1
    <3> QED
      BY <2>2, <2>6, <3>1 DEF ClosedStamped
  <2>11. ResidualIsWhatIsLeft'
    <3>1. \A l \in Line : residual'[l] # Null => residual'[l] = Amount[l] - Taken(links', l)
      <4> SUFFICES ASSUME NEW l \in Line, residual'[l] # Null
                   PROVE  residual'[l] = Amount[l] - Taken(links', l)
        OBVIOUS
      <4>1. PICK rest : rest = links'
        OBVIOUS
      <4>2. /\ AreLinks(links) /\ DOMAIN ks \subseteq DOMAIN links /\ (\A i \in DOMAIN ks : ks[i] = links[i])
            /\ DOMAIN rest = DOMAIN links \ DOMAIN ks /\ (\A i \in DOMAIN rest : rest[i] = links[i])
        BY <1>15, <2>1, <4>1, ClaimsParts
      <4>3. /\ Taken(rest, l) = Taken(links, l) - Taken(ks, l)
            /\ Taken(links, l) \in Int /\ Taken(ks, l) \in Int
        BY <4>2, TakenWithout
      <4>4. residual[l] # Null /\ residual[l] = Amount[l] - Taken(links, l) /\ Amount[l] \in Int
        BY <2>2, <2>7, LineParts DEF ResidualIsWhatIsLeft
      <4>5. l \notin S => Taken(ks, l) = 0
        BY <1>9, <2>3, TakenSide
      <4>6. residual'[l] = residual[l] + Taken(ks, l)
        <5>1. l \in S => residual'[l] = residual[l] + Taken(ks, l)
          BY <2>5
        <5>2. l \notin S => residual'[l] = residual[l]
          BY <2>6
        <5>3. residual[l] \in Int
          BY <4>3, <4>4
        <5> QED
          BY <4>3, <4>5, <5>1, <5>2, <5>3
      <4>7. residual'[l] = Amount[l] - Taken(rest, l)
        BY <4>3, <4>4, <4>6
      <4> QED
        BY <4>1, <4>7
    <3> QED
      BY <3>1 DEF ResidualIsWhatIsLeft, Taken, Share
  <2>12. PaymentStateFollows'
    <3>1. \A l \in Line : seen[l] = residual'[l]
      BY <1>5, <1>11, <2>1 DEF Seen
    <3>2. \A l \in Line \ S : seen[l] = residual[l]
      BY <1>5 DEF Seen
    <3>3. \A x \in Entry : state'[x] = "posted" => paid'[x] = PaymentStateOf(x, residual')
      <4> SUFFICES ASSUME NEW x \in Entry, state'[x] = "posted" PROVE paid'[x] = PaymentStateOf(x, residual')
        OBVIOUS
      <4>1. paid'[x] = PaymentStateOf(x, seen)
        BY <1>7, <1>9, <2>2, <3>2, PaymentsFollow
      <4>2. \A l \in LinesOf(x) : seen[l] = residual'[l]
        BY <3>1 DEF LinesOf
      <4> QED
        BY <4>1, <4>2, PaidSame
    <3> QED
      BY <3>3 DEF PaymentStateFollows
  <2> QED
    BY <2>8, <2>9, <2>10, <2>11, <2>12 DEF ClaimsRows
<1> QED
  BY <1>1, <1>16, <1>17

(* A matching has read lines with something written on them.                *)
LEMMA ReadWhole ==
  ASSUME NEW j, JobTyped(j), j.op = "reconcile"
  PROVE  AreRead(j.lines, j.residual)
<1>1. PICK S, read : S = j.lines /\ read = j.residual
  OBVIOUS
<1>2. /\ S \in SUBSET Line /\ read \in [S -> Int \cup {Null}]
      /\ \A l \in S : read[l] # Null /\ OnSide(l, read[l])
  BY <1>1 DEF JobTyped
<1>3. \A l \in S : read[l] \in Int
  BY <1>2
<1>4. read = [l \in S |-> read[l]]
  BY <1>2
<1>5. AreRead(S, read)
  BY <1>2, <1>3, <1>4 DEF AreRead
<1> QED
  BY <1>1, <1>5

(* Matching.                                                                *)
LEMMA ReconcileKeeps ==
  ASSUME ClaimsInv, NEW t \in Txn, FinishReconcile(t)
  PROVE  ClaimsInv' /\ (ClaimsRows /\ FreshRead(job[t]) => ClaimsRows')
<1>1. PICK j : j = job[t]
  OBVIOUS
<1>2. PICK S, read, was : S = j.lines /\ read = j.residual /\ was = j.paid
  OBVIOUS
<1>3. PICK walk : walk = Matched(S, read)
  OBVIOUS
<1>4. PICK new, all : new = walk.left /\ all = walk.links
  OBVIOUS
<1>5. PICK seen, whole : seen = Seen(new, S) /\ whole = Component(S, all)
  OBVIOUS
<1>6. PICK done \in BOOLEAN : done <=> \A l \in whole : Left(seen, l) = 0
  OBVIOUS
<1>7. PICK g : g = made.groups + 1
  OBVIOUS
<1>8. PICK pays, due, owners : pays = paid' /\ due = PaymentStates(S, seen) /\ owners = EntriesOf(S)
  OBVIOUS
<1>9. PICK residuals : residuals = residual'
  OBVIOUS
<1>10. /\ j # Null /\ j.op = "reconcile"
       /\ residuals = Written(residual, read, new, S)
       /\ pays = Written(paid, was, due, owners)
       /\ EndJob(t)
       /\ state' = state
  BY <1>1, <1>2, <1>3, <1>4, <1>5, <1>8, <1>9 DEF FinishReconcile
<1>11. /\ made' = [links |-> walk.made, groups |-> IF done THEN g ELSE made.groups]
       /\ done => /\ closed' = [l \in Line |-> IF l \in whole THEN g ELSE closed[l]]
                  /\ links' = [i \in DOMAIN all |->
                        IF Ends(all[i]) \subseteq whole THEN [all[i] EXCEPT !.group = g] ELSE all[i]]
                  /\ groups' = groups \cup {g}
       /\ ~ done => links' = all /\ closed' = closed /\ groups' = groups
  BY <1>1, <1>2, <1>3, <1>4, <1>5, <1>6, <1>7 DEF FinishReconcile
<1>12. JobTyped(j)
  BY <1>1, <1>10, ClaimsParts DEF JobsTyped
<1>13. AreRead(S, read) /\ S \in SUBSET Line
  BY <1>2, <1>10, <1>12, ReadWhole DEF AreRead
<1>14. Walked(walk, S, read, links, made.links)
  BY <1>3, <1>13, MatchedWalked, ClaimsParts
<1>15. /\ new \in [S -> Int] /\ \A l \in S : OnSide(l, new[l]) /\ (read[l] = 0 => new[l] = 0)
  BY <1>4, <1>14 DEF Walked, WalkedLines
<1>16. /\ walk.made \in Nat /\ made.links =< walk.made /\ DOMAIN all \subseteq 1..walk.made /\ AreLinks(all)
       /\ DOMAIN links \subseteq DOMAIN all /\ \A i \in DOMAIN links : all[i] = links[i]
       /\ \A i \in DOMAIN all \ DOMAIN links : Ends(all[i]) \subseteq S /\ all[i].group = Null
  BY <1>4, <1>14 DEF Walked, WalkedLinks
<1>17. /\ \A l \in S : Taken(all, l) = Taken(links, l) + read[l] - new[l]
       /\ \A l \in Line \ S : Taken(all, l) = Taken(links, l)
  BY <1>4, <1>14 DEF Walked, WalkedSums
<1>18. whole \subseteq Line /\ \A l \in whole : l \in S \/ \E i \in DOMAIN all : l \in Ends(all[i])
  BY <1>5, <1>13, <1>16, ComponentIs
<1>19. /\ residual = [l \in Line |-> residual[l]] /\ paid = [x \in Entry |-> paid[x]]
       /\ closed = [l \in Line |-> closed[l]]
  BY ClaimsParts
<1>20. /\ residuals = [l \in Line |-> residuals[l]]
       /\ \A l \in Line : residuals[l] = residual[l] \/ (l \in S /\ residuals[l] = new[l])
       /\ \A l \in Line \ S : residuals[l] = residual[l]
       /\ \A l \in Line \cap S : read[l] = residual[l] => residuals[l] = new[l]
  BY ONLY <1>10, <1>19, WrittenIs
<1>21. /\ pays = [x \in Entry |-> pays[x]]
       /\ \A x \in Entry : pays[x] = paid[x] \/ (x \in owners /\ pays[x] = due[x])
       /\ \A x \in Entry \ owners : pays[x] = paid[x]
       /\ \A x \in Entry \cap owners : was[x] = paid[x] => pays[x] = due[x]
  BY ONLY <1>10, <1>19, WrittenIs
<1>22. g \in Nat /\ made.groups \in Nat /\ Null \notin Int
  BY <1>7, ClaimsParts, LineAssumption
<1>23. /\ closed' = [l \in Line |-> closed'[l]]
       /\ \A l \in Line : closed'[l] = closed[l] \/ (done /\ l \in whole /\ closed'[l] = g)
       /\ groups' = IF done THEN groups \cup {g} ELSE groups
  BY <1>11, <1>19
<1>24. /\ DOMAIN links' = DOMAIN all
       /\ \A i \in DOMAIN all : /\ links'[i] = all[i] \/ (done /\ links'[i] = [all[i] EXCEPT !.group = g])
  BY <1>11
<1>25. \A i \in DOMAIN all : all[i] \in Link /\ all[i].group \in groups \cup {Null}
  <2>1. \A i \in DOMAIN all : all[i] \in Link
    BY <1>16 DEF AreLinks
  <2> QED
    BY <1>16, <2>1, ClaimsParts
<1>26. \A i \in DOMAIN all : /\ links'[i] \in Link /\ links'[i].group \in groups' \cup {Null}
                             /\ links'[i].debit = all[i].debit /\ links'[i].credit = all[i].credit
                             /\ links'[i].amount = all[i].amount
  <2> SUFFICES ASSUME NEW i \in DOMAIN all
               PROVE  /\ links'[i] \in Link /\ links'[i].group \in groups' \cup {Null}
                      /\ links'[i].debit = all[i].debit /\ links'[i].credit = all[i].credit
                      /\ links'[i].amount = all[i].amount
    OBVIOUS
  <2>1. all[i] \in Link /\ all[i].group \in groups \cup {Null}
    BY <1>25
  <2>2. ASSUME links'[i] = all[i] PROVE links'[i].group \in groups' \cup {Null}
    BY <1>23, <2>1, <2>2
  <2>3. ASSUME done, links'[i] = [all[i] EXCEPT !.group = g]
        PROVE  /\ links'[i] \in Link /\ links'[i].group \in groups' \cup {Null}
               /\ links'[i].debit = all[i].debit /\ links'[i].credit = all[i].credit
               /\ links'[i].amount = all[i].amount
    <3>1. PICK k : k = [all[i] EXCEPT !.group = g]
      OBVIOUS
    <3>2. /\ k \in Link /\ k.group = g /\ k.debit = all[i].debit /\ k.credit = all[i].credit
          /\ k.amount = all[i].amount
      BY <1>22, <2>1, <3>1 DEF Link
    <3> QED
      BY <1>23, <2>3, <3>1, <3>2
  <2> QED
    BY <1>24, <2>1, <2>2, <2>3
<1>27. AreLinks(links')
  <2>1. IsFiniteSet(DOMAIN links')
    BY <1>16, <1>24 DEF AreLinks
  <2>2. \A i \in DOMAIN links' : links'[i] \in Link /\ Amount[links'[i].debit] > 0 /\ Amount[links'[i].credit] < 0
    BY <1>16, <1>24, <1>26 DEF AreLinks
  <2> QED
    BY <2>1, <2>2 DEF AreLinks
<1>28. ClaimsInv'
  <2>1. \A l \in Line : residual'[l] # Null => residual'[l] \in Int /\ OnSide(l, residual'[l])
    BY <1>9, <1>15, <1>20, ClaimsParts
  <2>2. closed' \in [Line -> groups' \cup {Null}]
    <3>1. \A l \in Line : closed'[l] \in groups' \cup {Null}
      BY <1>23, ClaimsParts
    <3> QED
      BY <1>23, <3>1
  <2>3. paid' \in [Entry -> {"not_paid", "partial", "paid", Null}]
    <3>1. due \in [Entry -> {"not_paid", "partial", "paid", Null}]
      BY <1>8, PaymentsTyped
    <3>2. \A x \in Entry : pays[x] \in {"not_paid", "partial", "paid", Null}
      BY <1>21, <3>1, ClaimsParts
    <3> QED
      BY <1>8, <1>21, <3>2
  <2>4. \A i \in DOMAIN links' : links'[i] \in Link /\ links'[i].group \in groups' \cup {Null}
    BY <1>24, <1>26
  <2>5. (AreLinks(links))'
    BY <1>27 DEF AreLinks
  <2>6. made' \in [links : Nat, groups : Nat] /\ groups' \subseteq Nat /\ DOMAIN links' \subseteq 1..made'.links
    BY <1>11, <1>16, <1>22, <1>23, <1>24, ClaimsParts
  <2>7. residual' = [l \in Line |-> residual'[l]]
    BY <1>9, <1>20
  <2>8. state' \in [Entry -> {"draft", "posted", "cancelled"}]
    BY <1>10, ClaimsParts
  <2>9. RowsTyped'
    BY <2>1, <2>2, <2>3, <2>4, <2>5, <2>6, <2>7, <2>8 DEF RowsTyped, OnSide
  <2> QED
    BY <1>10, <2>9, EndKeeps
<1>29. ASSUME ClaimsRows, FreshRead(j) PROVE ClaimsRows'
  <2>1. /\ \A l \in S : read[l] = residual[l]
        /\ \A x \in owners : was[x] = paid[x]
    BY <1>2, <1>8, <1>29 DEF FreshRead
  <2>2. /\ Stamped /\ LinkedStamped /\ ClosedStamped /\ ResidualIsWhatIsLeft /\ PaymentStateFollows
    BY <1>29 DEF ClaimsRows
  <2>3. \A l \in S : /\ l \in Line /\ residual[l] = read[l] /\ residual[l] \in Int /\ residual[l] # Null
                     /\ residual'[l] = new[l] /\ residual'[l] \in Int /\ residual'[l] # Null
    BY <1>9, <1>13, <1>15, <1>20, <1>22, <2>1 DEF AreRead
  <2>4. \A l \in Line \ S : residual'[l] = residual[l]
    BY <1>9, <1>20
  <2>5. \A l \in Line : residual'[l] # Null <=> residual[l] # Null
    BY <2>3, <2>4
  <2>6. \A l \in Line : seen[l] = residual'[l]
    BY <1>5, <2>3, <2>4 DEF Seen
  <2>7. Stamped'
    BY <1>10, <2>2, <2>5 DEF Stamped
  <2>8. \A i \in DOMAIN all : \A l \in Ends(all[i]) : l \in Line /\ residual'[l] # Null
    <3>1. \A i \in DOMAIN all : Ends(all[i]) \subseteq Line
      BY <1>16, LinkParts
    <3>2. \A i \in DOMAIN all \ DOMAIN links : \A l \in Ends(all[i]) : residual'[l] # Null
      BY <1>16, <2>3
    <3>3. \A i \in DOMAIN links : \A l \in Ends(all[i]) : residual[l] # Null
      BY <1>16, <2>2 DEF LinkedStamped
    <3> QED
      BY <2>5, <3>1, <3>2, <3>3
  <2>9. LinkedStamped'
    <3>1. \A i \in DOMAIN links' : Ends(links'[i]) = Ends(all[i])
      BY <1>24, <1>26 DEF Ends
    <3>2. \A i \in DOMAIN links' : \A l \in Ends(links'[i]) : residual'[l] # Null
      BY <1>24, <2>8, <3>1
    <3> QED
      BY <3>2 DEF LinkedStamped
  <2>10. ClosedStamped'
    <3>1. ASSUME NEW l \in Line, done, l \in whole PROVE residual'[l] = 0
      <4>1. residual'[l] # Null
        BY <1>18, <2>3, <2>8, <3>1
      <4>2. Left(seen, l) = residual'[l]
        BY <2>6, <4>1 DEF Left
      <4> QED
        BY <1>6, <3>1, <4>2
    <3>2. ASSUME NEW l \in Line, closed[l] # Null PROVE residual'[l] = 0
      <4>1. residual[l] = 0
        BY <2>2, <3>2 DEF ClosedStamped
      <4> QED
        BY <1>15, <2>3, <2>4, <4>1
    <3>3. \A l \in Line : closed'[l] # Null => residual'[l] = 0
      BY <1>23, <3>1, <3>2
    <3> QED
      BY <3>3 DEF ClosedStamped
  <2>11. ResidualIsWhatIsLeft'
    <3>1. \A l \in Line : residual'[l] # Null => residual'[l] = Amount[l] - Taken(links', l)
      <4> SUFFICES ASSUME NEW l \in Line, residual'[l] # Null
                   PROVE  residual'[l] = Amount[l] - Taken(links', l)
        OBVIOUS
      <4>1. PICK ls : ls = links'
        OBVIOUS
      <4>2. /\ AreLinks(all) /\ AreLinks(ls) /\ DOMAIN ls = DOMAIN all
            /\ \A i \in DOMAIN all : ls[i].debit = all[i].debit /\ ls[i].credit = all[i].credit
                                     /\ ls[i].amount = all[i].amount
        BY <1>16, <1>24, <1>26, <1>27, <4>1
      <4>3. Taken(ls, l) = Taken(all, l)
        BY <4>2, TakenSame
      <4>4. residual[l] # Null /\ residual[l] = Amount[l] - Taken(links, l) /\ Amount[l] \in Int
            /\ Taken(links, l) \in Int
        BY <2>2, <2>5, LineParts, TakenSide, ClaimsParts DEF ResidualIsWhatIsLeft
      <4>5. ASSUME l \in S PROVE residual'[l] = Amount[l] - Taken(all, l)
        <5>1. Taken(all, l) = Taken(links, l) + residual[l] - residual'[l]
              /\ residual'[l] \in Int /\ residual[l] \in Int
          BY <1>17, <2>3, <4>5
        <5> QED
          BY <4>4, <5>1
      <4>6. ASSUME l \notin S PROVE residual'[l] = Amount[l] - Taken(all, l)
        BY <1>17, <2>4, <4>4, <4>6
      <4> QED
        BY <4>1, <4>3, <4>5, <4>6
    <3> QED
      BY <3>1 DEF ResidualIsWhatIsLeft, Taken, Share
  <2>12. PaymentStateFollows'
    <3>1. \A l \in Line \ S : seen[l] = residual[l]
      BY <1>5 DEF Seen
    <3>2. \A x \in Entry : pays[x] = due[x]
      <4>1. \A x \in Entry \ owners : due[x] = paid[x]
        BY <1>8 DEF PaymentStates
      <4> QED
        BY <1>21, <2>1, <4>1
    <3>3. \A x \in Entry : state'[x] = "posted" => paid'[x] = PaymentStateOf(x, residual')
      <4> SUFFICES ASSUME NEW x \in Entry, state'[x] = "posted" PROVE paid'[x] = PaymentStateOf(x, residual')
        OBVIOUS
      <4>1. due[x] = PaymentStateOf(x, seen)
        BY <1>8, <1>10, <1>13, <2>2, <3>1, PaymentsFollow
      <4>2. \A l \in LinesOf(x) : seen[l] = residual'[l]
        BY <2>6 DEF LinesOf
      <4> QED
        BY <1>8, <3>2, <4>1, <4>2, PaidSame
    <3> QED
      BY <3>3 DEF PaymentStateFollows
  <2> QED
    BY <2>7, <2>9, <2>10, <2>11, <2>12 DEF ClaimsRows
<1> QED
  BY <1>1, <1>28, <1>29

LEMMA FinishKeeps ==
  ASSUME ClaimsInv, NEW t \in Txn, Finish(t)
  PROVE  job[t] # Null /\ EndJob(t) /\ ClaimsInv' /\ (ClaimsRows /\ FreshRead(job[t]) => ClaimsRows')
<1>1. job[t] # Null /\ EndJob(t)
  BY DEF Finish, FinishReconcile, FinishUndo, FinishPost, FinishRelease
<1>2. CASE FinishRelease(t, "reset", "draft") \/ FinishRelease(t, "cancel", "cancelled")
  BY <1>1, <1>2, ReleaseKeeps
<1> QED
  BY <1>1, <1>2, ReconcileKeeps, UndoKeeps, PostKeeps DEF Finish

LEMMA ClaimsStart ==
  ASSUME ReconcileInit
  PROVE  ClaimsInv /\ ClaimsRows /\ FreshJobs
<1>1. /\ state = [e \in Entry |-> "draft"] /\ residual = [l \in Line |-> Null]
      /\ closed = [l \in Line |-> Null] /\ paid = [e \in Entry |-> Null]
      /\ DOMAIN links = {} /\ groups = {} /\ made = [links |-> 0, groups |-> 0]
      /\ job = [t \in Txn |-> Null]
  BY DEF ReconcileInit
<1>2. AreLinks(links)
  BY <1>1, FS_EmptySet DEF AreLinks
<1>3. ReconcileTypeOK
  BY <1>1 DEF ReconcileTypeOK
<1>4. ResidualOnItsSide /\ JobsTyped /\ FreshJobs
  BY <1>1 DEF ResidualOnItsSide, JobsTyped, FreshJobs
<1>5. ClaimsRows
  BY <1>1, LineParts DEF ClaimsRows, Stamped, LinkedStamped, ClosedStamped, ResidualIsWhatIsLeft, PaymentStateFollows
<1> QED
  BY <1>2, <1>3, <1>4, <1>5 DEF ClaimsInv

(* What holds of the claims, in every world and where one request at a time *)
(* is served.                                                               *)
ClaimsAlone == ClaimsRows /\ FreshJobs
ClaimsWorld == ClaimsInv /\ (world = "claims_alone" => ClaimsAlone)

LEMMA ClaimsStepKeeps ==
  ASSUME ClaimsWorld, ReconcileNext,
         world = "claims_alone" => \E t \in Txn : \A u \in Txn \ {t} : job[u] = Null /\ job'[u] = Null
  PROVE  ClaimsInv' /\ (world = "claims_alone" => ClaimsAlone')
<1>1. ClaimsInv
  BY DEF ClaimsWorld
<1>2. PICK t \in Txn : Start(t) \/ Finish(t) \/ Fail(t)
  BY DEF ReconcileNext
<1>3. CASE Start(t)
  BY <1>1, <1>3, StartKeeps DEF ClaimsWorld, ClaimsAlone
<1>4. CASE Finish(t) \/ Fail(t)
  <2>1. job[t] # Null /\ EndJob(t) /\ ClaimsInv'
    BY <1>1, <1>4, FinishKeeps, FailKeeps DEF Fail
  <2>2. ASSUME world = "claims_alone" PROVE ClaimsAlone'
    <3>1. ClaimsRows /\ FreshRead(job[t])
      BY <2>1, <2>2 DEF ClaimsWorld, ClaimsAlone, FreshJobs
    <3>2. ClaimsRows'
      BY <1>1, <1>4, <3>1, FinishKeeps, FailKeeps
    <3>3. \A u \in Txn \ {t} : job[u] = Null
      BY <2>1, <2>2
    <3> QED
      BY <1>1, <2>1, <3>2, <3>3, NoneServed DEF ClaimsAlone
  <2> QED
    BY <2>1, <2>2
<1> QED
  BY <1>2, <1>3, <1>4

LEMMA ClaimsInWorld ==
  ASSUME ClaimsWorld
  PROVE  ClaimsAddUp
<1>1. ReconcileTypeOK /\ ResidualOnItsSide
  BY DEF ClaimsWorld, ClaimsInv
<1>2. ASSUME ClaimsRows PROVE ClosedIsZero /\ MatchedStaysPosted
  <2>1. ClosedIsZero
    BY <1>2 DEF ClaimsRows, ClosedStamped, ClosedIsZero, Left
  <2>2. \A i \in DOMAIN links : \A l \in Ends(links[i]) : l \in Line /\ residual[l] # Null
    BY <1>2, LinkParts DEF ClaimsRows, LinkedStamped, ClaimsWorld, ClaimsInv
  <2>3. MatchedStaysPosted
    BY <1>2, <2>2 DEF ClaimsRows, Stamped, MatchedStaysPosted
  <2> QED
    BY <2>1, <2>3
<1> QED
  BY <1>1, <1>2 DEF ClaimsWorld, ClaimsAlone, ClaimsRows, ClaimsAddUp

LEMMA ClaimsWorldStep ==
  ASSUME ClaimsWorld, [Next]_vars
  PROVE  ClaimsWorld'
<1>1. CASE world' = world /\ UNCHANGED reconcileVars
  <2>1. UNCHANGED rows /\ job' = job
    BY <1>1 DEF reconcileVars
  <2>2. JobsTyped' /\ job' = [u \in Txn |-> job'[u]]
    BY <2>1, ClaimsParts DEF ClaimsWorld, JobsTyped, JobTyped, AreLinks
  <2>3. ClaimsInv'
    BY <2>1, <2>2, RowsKeptInv DEF ClaimsWorld
  <2>4. FreshJobs => FreshJobs'
    <3>1. /\ state' = state /\ residual' = residual /\ closed' = closed /\ paid' = paid
          /\ links' = links
      BY <2>1, RowsKept
    <3> QED
      BY <2>1, <3>1 DEF FreshJobs, FreshRead, Unlinked, Touching, EndsOf
  <2>5. ClaimsRows => ClaimsRows'
    BY <2>1, RowsKept
  <2> QED
    BY <1>1, <2>3, <2>4, <2>5 DEF ClaimsWorld, ClaimsAlone
<1>2. CASE world' = world /\ ClaimsStep
  BY <1>2, ClaimsStepKeeps DEF ClaimsStep, ClaimsWorld
<1> QED
  BY <1>1, <1>2 DEF Next, In, vars

(* However requests race, rows are well formed and no line is spent to the  *)
(* other side; one at a time, what a posted line has left is its amount     *)
(* less what its links paid, a closed line has nothing left, matched        *)
(* entries stay posted, and payment_state follows (reconcile_service.py:    *)
(* reconcile, unreconcile; ledger_service.py: _stamp_posted,                *)
(* _release_residuals).                                                     *)
THEOREM MatchesAddUp == Spec => []ClaimsAddUp
<1>1. Init => ClaimsWorld
  BY ClaimsStart DEF Init, ClaimsWorld, ClaimsAlone
<1>2. ClaimsWorld /\ [Next]_vars => ClaimsWorld'
  BY ClaimsWorldStep
<1>3. ClaimsWorld => ClaimsAddUp
  BY ClaimsInWorld
<1> QED
  BY <1>1, <1>2, <1>3, PTL DEF Spec

-----------------------------------------------------------------------------
(* Which lines a matching pays first.                                       *)

(* The order by maturity, and the lines that a matching of S which began    *)
(* with r left has come to: of two lines of one side the one that matures   *)
(* first is used up before anything is taken of the other.                  *)
Earlier(a, b) == Due[a] < Due[b] \/ (Due[a] = Due[b] /\ a < b)
Before(a, b, r) == r[a] * r[b] > 0 /\ Earlier(a, b)
InOrder(w, S, r) == \A a, b \in S : Before(a, b, r) /\ w.left[b] # r[b] => w.left[a] = 0
Open(w, S) == {l \in S : w.left[l] # 0}

LEMMA OneSign ==
  ASSUME NEW x \in Int, NEW y \in Int, x * y > 0
  PROVE  (x > 0 /\ y > 0) \/ (x < 0 /\ y < 0)
<1>1. ASSUME x > 0, y =< 0 PROVE FALSE
  BY <1>1
<1>2. ASSUME x < 0, y >= 0 PROVE FALSE
  BY <1>2
<1>3. x # 0
  OBVIOUS
<1> QED
  BY <1>1, <1>2, <1>3

(* One round keeps the order, and uses up a line.                           *)
LEMMA PairInOrder ==
  ASSUME NEW w, NEW S, NEW r, NEW ks, NEW m \in Nat,
         AreRead(S, r), Walked(w, S, r, ks, m), ~ Used(w), InOrder(w, S, r)
  PROVE  /\ InOrder(Pair(w), S, r)
         /\ \E x \in Open(w, S) : Open(Pair(w), S) \subseteq Open(w, S) \ {x}
<1>1. PICK d, c : d = EarliestOf(Debits(w.left)) /\ c = EarliestOf(Credits(w.left))
  OBVIOUS
<1>2. WalkedLines(w, S, r) /\ WalkedLinks(w, S, ks, m)
  BY DEF Walked
<1>3. PICK n \in Nat : /\ Pair(w) = Linked(w, d, c, n) /\ Payable(w, S, d, c, n)
                       /\ n = w.left[d] \/ n = - w.left[c]
  BY <1>1, <1>2, PairIs
<1>4. /\ S \subseteq Line /\ S \subseteq Nat /\ w.left \in [S -> Int] /\ w.made \in Nat
      /\ DOMAIN w.links \subseteq 1..w.made
      /\ \A l \in S : /\ r[l] \in Int /\ w.left[l] \in Int /\ Due[l] \in Nat
                      /\ Amount[l] \in Int /\ OnSide(l, r[l]) /\ OnSide(l, w.left[l])
  BY <1>2, LineAssumption, EntryAssumption, LineParts DEF AreRead, WalkedLines, WalkedLinks
<1>5. /\ d \in S /\ c \in S /\ d # c /\ n > 0 /\ w.left[d] >= n /\ - w.left[c] >= n
      /\ Amount[d] > 0 /\ Amount[c] < 0 /\ r[d] # 0 /\ r[c] # 0
  BY <1>2, <1>3, PayableParts DEF Payable
<1>6. PICK v : v = Pair(w)
  OBVIOUS
<1>7. /\ v.left[d] = w.left[d] - n /\ v.left[c] = w.left[c] + n
      /\ \A l \in S \ {d, c} : v.left[l] = w.left[l]
  <2>1. PICK x : x = w.made + 1
    OBVIOUS
  <2>2. v = Linked(w, d, c, n)
    BY <1>3, <1>6
  <2>3. /\ d \in S /\ c \in S /\ d # c /\ w.left \in [S -> Int] /\ w.made \in Nat
        /\ DOMAIN w.links \subseteq 1..w.made
    BY <1>4, <1>5
  <2>4. /\ DOMAIN v.left = S /\ v.left[d] = w.left[d] - n /\ v.left[c] = w.left[c] + n
        /\ \A l \in S \ {d, c} : v.left[l] = w.left[l]
        /\ v.left = [l \in S |-> v.left[l]]
        /\ v.made = x /\ x \notin DOMAIN w.links /\ DOMAIN v.links = DOMAIN w.links \cup {x}
        /\ \A i \in DOMAIN w.links : v.links[i] = w.links[i]
        /\ v.links[x] = [debit |-> d, credit |-> c, amount |-> n, group |-> Null]
    BY ONLY <2>1, <2>2, <2>3, LinkedParts
  <2> QED
    BY <2>4
<1>8. /\ \A b \in S : w.left[b] > 0 => Due[d] < Due[b] \/ (Due[d] = Due[b] /\ d =< b)
      /\ \A b \in S : w.left[b] < 0 => Due[c] < Due[b] \/ (Due[c] = Due[b] /\ c =< b)
  <2>1. DOMAIN w.left = S
    BY <1>4
  <2>2. Debits(w.left) = {l \in S : w.left[l] > 0} /\ Credits(w.left) = {l \in S : w.left[l] < 0}
    BY <2>1 DEF Debits, Credits
  <2>3. Debits(w.left) \in SUBSET Line /\ Debits(w.left) # {} /\ Credits(w.left) \in SUBSET Line /\ Credits(w.left) # {}
    BY <1>4, <2>2 DEF Used
  <2>4. /\ \A b \in Debits(w.left) : Due[d] < Due[b] \/ (Due[d] = Due[b] /\ d =< b)
        /\ \A b \in Credits(w.left) : Due[c] < Due[b] \/ (Due[c] = Due[b] /\ c =< b)
    BY <1>1, <2>3, EarliestIs
  <2> QED
    BY <2>2, <2>4
<1>9. InOrder(v, S, r)
  <2> SUFFICES ASSUME NEW a \in S, NEW b \in S, Before(a, b, r), v.left[b] # r[b]
               PROVE  v.left[a] = 0
    BY DEF InOrder
  <2>1. /\ (r[a] > 0 /\ r[b] > 0) \/ (r[a] < 0 /\ r[b] < 0)
        /\ Earlier(a, b)
    BY <1>4, OneSign DEF Before
  <2>2. w.left[a] = 0 => v.left[a] = 0
    BY <1>4, <1>5, <1>7
  <2>3. ASSUME b \notin {d, c} PROVE w.left[a] = 0
    BY <1>7, <2>3 DEF InOrder
  <2>4. ASSUME b = d PROVE w.left[a] = 0
    <3>1. r[a] > 0
      <4>1. r[d] >= 0 /\ r[d] \in Int
        BY <1>4, <1>5 DEF OnSide
      <4> QED
        BY <2>1, <2>4, <4>1
    <3>2. w.left[a] >= 0
      BY <1>4, <3>1 DEF OnSide
    <3>3. ~ (w.left[a] > 0)
      <4>1. a \in Nat /\ d \in Nat /\ Due[a] \in Nat /\ Due[d] \in Nat
        BY <1>4, <1>5
      <4> QED
        BY <1>8, <2>1, <2>4, <4>1 DEF Earlier
    <3> QED
      BY <1>4, <3>2, <3>3
  <2>5. ASSUME b = c PROVE w.left[a] = 0
    <3>1. r[a] < 0
      <4>1. r[c] =< 0 /\ r[c] \in Int
        BY <1>4, <1>5 DEF OnSide
      <4> QED
        BY <2>1, <2>5, <4>1
    <3>2. w.left[a] =< 0
      BY <1>4, <3>1 DEF OnSide
    <3>3. ~ (w.left[a] < 0)
      <4>1. a \in Nat /\ c \in Nat /\ Due[a] \in Nat /\ Due[c] \in Nat
        BY <1>4, <1>5
      <4> QED
        BY <1>8, <2>1, <2>5, <4>1 DEF Earlier
    <3> QED
      BY <1>4, <3>2, <3>3
  <2> QED
    BY <2>2, <2>3, <2>4, <2>5
<1>10. \E x \in Open(w, S) : Open(v, S) \subseteq Open(w, S) \ {x}
  <2>1. d \in Open(w, S) /\ c \in Open(w, S)
    BY <1>4, <1>5 DEF Open
  <2>2. Open(v, S) \subseteq Open(w, S)
    BY <1>4, <1>7, <2>1 DEF Open
  <2>3. v.left[d] = 0 \/ v.left[c] = 0
    BY <1>3, <1>4, <1>5, <1>7
  <2>4. d \notin Open(v, S) \/ c \notin Open(v, S)
    BY <2>3 DEF Open
  <2> QED
    BY <2>1, <2>2, <2>4
<1> QED
  BY <1>6, <1>9, <1>10

(* A matching goes on until one side is used up, and keeps the order.       *)
LEMMA MatchedInOrder ==
  ASSUME NEW S, NEW r, AreRead(S, r), AreLinks(links), made.links \in Nat,
         DOMAIN links \subseteq 1..made.links
  PROVE  Used(Matched(S, r)) /\ InOrder(Matched(S, r), S, r)
<1>1. IsFiniteSet(S) /\ Cardinality(S) \in Nat
  BY LineAssumption, FS_Subset, FS_CardinalityType DEF AreRead
<1>2. PICK N : N = Cardinality(S)
  OBVIOUS
<1>3. PICK w : w = [left |-> r, links |-> links, made |-> made.links]
  OBVIOUS
<1>4. PICK m, ks : m = made.links /\ ks = links
  OBVIOUS
<1>5. Walked(w, S, r, ks, m)
  BY <1>3, <1>4, WalkBegins
<1>6. PICK f : f = Rounds(w, N)
  OBVIOUS
<1>7. f[0] = w /\ \A i \in 0..N : i + 1 =< N => f[i + 1] = Pair(f[i])
  BY <1>1, <1>2, <1>6, RoundsAre
<1>8. Matched(S, r) = f[N]
  BY <1>2, <1>3, <1>6 DEF Matched
<1>9. ASSUME NEW v PROVE IsFiniteSet(Open(v, S)) /\ Cardinality(Open(v, S)) \in Nat /\ Cardinality(Open(v, S)) =< N
  <2>1. Open(v, S) \subseteq S
    BY DEF Open
  <2> QED
    BY <1>1, <1>2, <2>1, FS_Subset, FS_CardinalityType
<1> DEFINE Good == {i \in 0..N : /\ Walked(f[i], S, r, ks, m) /\ InOrder(f[i], S, r)
                                 /\ Used(f[i]) \/ Cardinality(Open(f[i], S)) + i =< N}
<1>10. 0 \in Good
  <2>1. InOrder(w, S, r)
    BY <1>3 DEF InOrder
  <2>2. Cardinality(Open(w, S)) + 0 =< N /\ 0 \in 0..N
    BY <1>1, <1>2, <1>9
  <2> QED
    BY <1>5, <1>7, <2>1, <2>2
<1>11. ASSUME NEW i \in Good, i < N PROVE i + 1 \in Good
  <2>1. i \in 0..N /\ i + 1 \in 0..N /\ i + 1 =< N /\ N \in Nat
    BY <1>1, <1>2, <1>11
  <2>2. PICK v : v = f[i]
    OBVIOUS
  <2>3. /\ f[i + 1] = Pair(v) /\ Walked(v, S, r, ks, m) /\ InOrder(v, S, r)
        /\ Used(v) \/ Cardinality(Open(v, S)) + i =< N
    BY <1>7, <2>1, <2>2
  <2>4. Walked(Pair(v), S, r, ks, m)
    BY <1>4, <2>3, PairKeeps
  <2>5. ASSUME Used(v) PROVE Pair(v) = v
    BY <2>5 DEF Used, Pair
  <2>6. ASSUME ~ Used(v) PROVE InOrder(Pair(v), S, r) /\ Cardinality(Open(Pair(v), S)) + (i + 1) =< N
    <3>1. /\ InOrder(Pair(v), S, r)
          /\ \E x \in Open(v, S) : Open(Pair(v), S) \subseteq Open(v, S) \ {x}
      BY <1>4, <2>3, <2>6, PairInOrder
    <3>2. PICK x \in Open(v, S) : Open(Pair(v), S) \subseteq Open(v, S) \ {x}
      BY <3>1
    <3>3. PICK A, B : A = Open(v, S) /\ B = Open(Pair(v), S)
      OBVIOUS
    <3>4. IsFiniteSet(A) /\ x \in A /\ B \subseteq A \ {x} /\ Cardinality(A) + i =< N
          /\ Cardinality(A) \in Nat /\ Cardinality(B) \in Nat
      BY <1>9, <2>3, <2>6, <3>2, <3>3
    <3>5. IsFiniteSet(A \ {x}) /\ Cardinality(A \ {x}) = Cardinality(A) - 1
      BY <3>4, RestIsSmaller
    <3>6. Cardinality(B) =< Cardinality(A \ {x})
      BY <3>4, <3>5, FS_Subset
    <3>7. Cardinality(B) + (i + 1) =< N
      BY <2>1, <3>4, <3>5, <3>6
    <3> QED
      BY <3>1, <3>3, <3>7
  <2> QED
    BY <2>1, <2>3, <2>4, <2>5, <2>6
<1>12. N \in Good
  <2>1. Good \in SUBSET (0..N)
    OBVIOUS
  <2> HIDE DEF Good
  <2> QED
    BY <1>1, <1>2, <1>10, <1>11, <2>1, RoundInduction
<1>13. Used(f[N])
  <2> SUFFICES ASSUME ~ Used(f[N]) PROVE FALSE
    OBVIOUS
  <2>1. Cardinality(Open(f[N], S)) + N =< N /\ N \in Nat
    BY <1>1, <1>2, <1>12
  <2>2. Cardinality(Open(f[N], S)) = 0
    BY <1>9, <2>1
  <2>3. Open(f[N], S) = {}
    BY <1>9, <2>2, FS_EmptySet
  <2>4. f[N].left \in [S -> Int]
    BY <1>12 DEF Walked, WalkedLines
  <2>5. Debits(f[N].left) = {}
    BY <2>3, <2>4 DEF Open, Debits
  <2> QED
    BY <2>5 DEF Used
<1> QED
  BY <1>8, <1>12, <1>13

LEMMA PaysInOrder ==
  ASSUME ClaimsInv, NEW t \in Txn, FinishReconcile(t),
         NEW S, S = job[t].lines, NEW was, was = job[t].residual, NEW now, now = Matched(S, was).left
  PROVE  /\ \A a, b \in S : ~ (now[a] > 0 /\ now[b] < 0)
         /\ \A a, b \in S : was[a] * was[b] > 0 /\ Earlier(a, b) /\ now[b] # was[b] => now[a] = 0
<1>1. job[t] # Null /\ job[t].op = "reconcile"
  BY DEF FinishReconcile
<1>2. AreRead(S, was)
  BY <1>1, ClaimsParts, ReadWhole DEF JobsTyped
<1>3. PICK w : w = Matched(S, was)
  OBVIOUS
<1>4. Used(w) /\ InOrder(w, S, was) /\ w.left = now
  BY <1>2, <1>3, MatchedInOrder, ClaimsParts
<1>5. DOMAIN now = S
  <2>1. Walked(w, S, was, links, made.links)
    BY <1>2, <1>3, MatchedWalked, ClaimsParts
  <2> QED
    BY <1>4, <2>1 DEF Walked, WalkedLines
<1> QED
  BY <1>4, <1>5 DEF Used, InOrder, Before, Debits, Credits

(* A matching goes on until one side is used up, and spends it on the lines *)
(* that mature first (reconcile_service.py: reconcile).                     *)
THEOREM PaysOldestFirst == Spec => OldestFirst
<1> DEFINE Orderly ==
      \A t \in Txn : FinishReconcile(t) =>
          LET S == job[t].lines
              was == job[t].residual
              now == Matched(S, was).left
              earlier(a, b) == Due[a] < Due[b] \/ (Due[a] = Due[b] /\ a < b)
          IN  /\ \A a, b \in S : ~ (now[a] > 0 /\ now[b] < 0)
              /\ \A a, b \in S :
                    was[a] * was[b] > 0 /\ earlier(a, b) /\ now[b] # was[b] => now[a] = 0
<1>1. Init => ClaimsWorld
  BY ClaimsStart DEF Init, ClaimsWorld, ClaimsAlone
<1>2. ClaimsWorld /\ [Next]_vars => ClaimsWorld'
  BY ClaimsWorldStep
<1>3. ClaimsWorld => Orderly
  <2> SUFFICES ASSUME ClaimsInv, NEW t \in Txn, FinishReconcile(t),
                      NEW S, S = job[t].lines, NEW was, was = job[t].residual,
                      NEW now, now = Matched(S, was).left
               PROVE  /\ \A a, b \in S : ~ (now[a] > 0 /\ now[b] < 0)
                      /\ \A a, b \in S :
                            was[a] * was[b] > 0 /\ (Due[a] < Due[b] \/ (Due[a] = Due[b] /\ a < b))
                            /\ now[b] # was[b] => now[a] = 0
    BY DEF ClaimsWorld
  <2> QED
    BY PaysInOrder DEF Earlier
<1> QED
  BY <1>1, <1>2, <1>3, PTL DEF Spec, OldestFirst
=============================================================================
