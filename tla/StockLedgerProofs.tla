------------------------- MODULE StockLedgerProofs -------------------------
(***************************************************************************)
(* Theorems about StockLedger, for any number of requests and locators.    *)
(* The inductive invariant is IInv: types, the lock discipline, and that   *)
(* neither the committed on-hand nor what any open request sees of it is   *)
(* negative where overdrafts are refused.  SInv adds that what each open   *)
(* request has posted is funded as of now; so a commit is a step of        *)
(* StockBook.                                                              *)
(***************************************************************************)
EXTENDS StockLedger, FiniteTheorems, TLAPS

(* What a call carries: a place, and a positive quantity to add or take.   *)
LEMMA CallParts ==
  ASSUME NEW c \in Call
  PROVE  /\ c.loc \in Locator
         /\ c.qty \in Nat
         /\ c.qty > 0
         /\ Signed(c) \in Int
<1>1. c.loc \in Locator /\ c.qty \in Qty
  BY DEF Call
<1>2. c.qty \in Nat /\ c.qty > 0
  BY <1>1, QtyAssumption
<1> QED
  BY <1>1, <1>2 DEF Signed

(* Every step of every request keeps the variables in their types.         *)
LEMMA TypeStep == TypeOK /\ [Next]_vars => TypeOK'
<1> SUFFICES ASSUME TypeOK, [Next]_vars PROVE TypeOK'
  OBVIOUS
<1> USE DEF TypeOK
<1>1. CASE UNCHANGED vars
  BY <1>1 DEF vars
<1>2. ASSUME NEW t \in Txn, Begin(t) PROVE TypeOK'
  BY <1>2 DEF Begin
<1>3. ASSUME NEW t \in Txn, NEW c \in Call, Request(t, c) PROVE TypeOK'
  BY <1>3, NoCallAssumption DEF Request
<1>4. ASSUME NEW t \in Txn, call[t] \in Call PROVE call[t].loc \in Locator /\ Signed(call[t]) \in Int
  BY <1>4, CallParts
<1>5. ASSUME NEW t \in Txn, LockLocator(t) PROVE TypeOK'
  BY <1>4, <1>5 DEF LockLocator
<1>6. ASSUME NEW t \in Txn, MissLocator(t) PROVE TypeOK'
  BY <1>6 DEF MissLocator
<1>7. ASSUME NEW t \in Txn, InsertLocator(t) PROVE TypeOK'
  BY <1>4, <1>7 DEF InsertLocator
<1>8. ASSUME NEW t \in Txn, Release(t)
      PROVE  /\ holder' \in [Locator -> Txn \cup {Nobody}]
             /\ delta' \in [Txn -> [Locator -> Int]]
             /\ posts' \in [Txn -> Seq(Call)]
             /\ call' \in [Txn -> Call \cup {NoCall}]
             /\ pc' \in [Txn -> {"idle", "open", "lock", "insert", "post"}]
             /\ \A u \in Txn : (call'[u] = NoCall) <=> (pc'[u] \in {"idle", "open"})
  BY <1>8 DEF Release, NoDelta
<1>9. ASSUME NEW t \in Txn, Abort(t) PROVE TypeOK'
  BY <1>8, <1>9 DEF Abort
<1>10. ASSUME NEW t \in Txn, InsertMovement(t) PROVE TypeOK'
  <2>1. call[t] \in Call
    BY <1>10 DEF InsertMovement
  <2>2. delta' \in [Txn -> [Locator -> Int]]
    BY <1>4, <1>10, <2>1 DEF InsertMovement
  <2>3. posts' \in [Txn -> Seq(Call)]
    BY <1>10, <2>1 DEF InsertMovement
  <2> QED
    BY <1>10, <2>2, <2>3 DEF InsertMovement
<1>11. ASSUME NEW t \in Txn, Commit(t) PROVE TypeOK'
  <2>1. balance' \in [Locator -> Int]
    BY <1>11 DEF Commit
  <2> QED
    BY <1>8, <1>11, <2>1 DEF Commit, Locks
<1> QED
  BY <1>1, <1>2, <1>3, <1>5, <1>6, <1>7, <1>9, <1>10, <1>11
  DEF Next, Step, LocatorTaken, NotEnough, Rollback, DeadlockVictim

(* The variables of a StockLedger behaviour always have their types.       *)
THEOREM TypeCorrect == Spec => []TypeOK
<1>1. Init => TypeOK
  BY OpeningAssumption DEF Init, TypeOK, NoDelta
<1> QED
  BY <1>1, TypeStep, PTL DEF Spec

-----------------------------------------------------------------------------
(* A request that ends, in either way, leaves the locks and the open rows   *)
(* of the others as they were and has none itself.                          *)
LEMMA ReleaseStep ==
  ASSUME TypeOK, NEW t \in Txn, Release(t)
  PROVE  /\ \A l \in Locator : delta'[t][l] = 0
         /\ \A u \in Txn \ {t} : /\ delta'[u] = delta[u]
                                 /\ call'[u] = call[u]
                                 /\ pc'[u] = pc[u]
         /\ pc'[t] = "idle" /\ call'[t] = NoCall
         /\ \A u \in Txn \ {t}, l \in Locator : holder[l] = u => holder'[l] = u
<1> QED
  BY NobodyAssumption DEF TypeOK, Release, NoDelta

(* The lock discipline survives every step: a row is inserted only at the   *)
(* locator whose lock was just taken, and a lock is given up only together  *)
(* with the rows it covers.                                                 *)
LEMMA LockStep == TypeOK /\ LockInv /\ [Next]_vars => LockInv'
<1> SUFFICES ASSUME TypeOK, LockInv, [Next]_vars PROVE LockInv'
  OBVIOUS
<1>1. CASE UNCHANGED vars
  BY <1>1 DEF vars, LockInv
<1>2. ASSUME NEW t \in Txn, Begin(t) PROVE LockInv'
  BY <1>2 DEF Begin, LockInv, TypeOK
<1>3. ASSUME NEW t \in Txn, NEW c \in Call, Request(t, c) PROVE LockInv'
  BY <1>3 DEF Request, LockInv, TypeOK
<1>4. ASSUME NEW t \in Txn, LockLocator(t) PROVE LockInv'
  <2>1. call[t] \in Call /\ call[t].loc \in Locator
    BY <1>4, CallParts DEF LockLocator, TypeOK
  <2> QED
    BY <1>4, <2>1, NobodyAssumption DEF LockLocator, LockInv, TypeOK
<1>5. ASSUME NEW t \in Txn, MissLocator(t) PROVE LockInv'
  BY <1>5 DEF MissLocator, LockInv, TypeOK
<1>6. ASSUME NEW t \in Txn, InsertLocator(t) PROVE LockInv'
  <2>1. call[t] \in Call /\ call[t].loc \in Locator
    BY <1>6, CallParts DEF InsertLocator, TypeOK
  <2> QED
    BY <1>6, <2>1, NobodyAssumption DEF InsertLocator, LockInv, TypeOK
<1>7. ASSUME NEW t \in Txn, Release(t) PROVE LockInv'
  <2>1. \A u \in Txn, l \in Locator : delta'[u][l] # 0 => holder'[l] = u
    <3> SUFFICES ASSUME NEW u \in Txn, NEW l \in Locator, delta'[u][l] # 0
                 PROVE  holder'[l] = u
      OBVIOUS
    <3>1. u # t /\ delta'[u] = delta[u]
      BY <1>7, ReleaseStep
    <3>2. holder[l] = u
      BY <3>1 DEF LockInv
    <3> QED
      BY <1>7, <3>1, <3>2, ReleaseStep
  <2>2. \A u \in Txn : pc'[u] = "post" => holder'[call'[u].loc] = u
    <3> SUFFICES ASSUME NEW u \in Txn, pc'[u] = "post"
                 PROVE  holder'[call'[u].loc] = u
      OBVIOUS
    <3>1. u # t /\ pc[u] = "post" /\ call'[u] = call[u]
      BY <1>7, ReleaseStep
    <3>2. call[u] \in Call /\ call[u].loc \in Locator
      BY <3>1, CallParts DEF TypeOK
    <3> QED
      BY <1>7, <3>1, <3>2, ReleaseStep DEF LockInv
  <2>3. \A u \in Txn : pc'[u] # "idle" /\ call'[u] # NoCall =>
           (call'[u].negative => call'[u].loc \in Overdraft)
    BY <1>7, ReleaseStep DEF LockInv
  <2> QED
    BY <2>1, <2>2, <2>3 DEF LockInv
<1>8. ASSUME NEW t \in Txn, InsertMovement(t) PROVE LockInv'
  <2>1. call[t] \in Call /\ call[t].loc \in Locator /\ holder[call[t].loc] = t
    BY <1>8, CallParts DEF InsertMovement, TypeOK, LockInv
  <2>2. \A u \in Txn, l \in Locator : delta'[u][l] # 0 => holder'[l] = u
    BY <1>8, <2>1 DEF InsertMovement, TypeOK, LockInv
  <2>3. \A u \in Txn : pc'[u] = "post" => holder'[call'[u].loc] = u
    BY <1>8 DEF InsertMovement, TypeOK, LockInv
  <2>4. \A u \in Txn : pc'[u] # "idle" /\ call'[u] # NoCall =>
           (call'[u].negative => call'[u].loc \in Overdraft)
    BY <1>8 DEF InsertMovement, TypeOK, LockInv
  <2> QED
    BY <2>2, <2>3, <2>4 DEF LockInv
<1> QED
  BY <1>1, <1>2, <1>3, <1>4, <1>5, <1>6, <1>7, <1>8
  DEF Next, Step, LocatorTaken, NotEnough, Rollback, Commit, DeadlockVictim, Abort

-----------------------------------------------------------------------------
(* No step makes negative what an open request sees, or the committed       *)
(* on-hand, of a locator that may not be overdrawn.  A commit adds the rows *)
(* of one request; the others have none at the locators it changes.         *)
LEMMA BalanceStep == IInv /\ [Next]_vars => NonNegative' /\ VisibleNonNegative'
<1> SUFFICES ASSUME IInv, [Next]_vars PROVE NonNegative' /\ VisibleNonNegative'
  OBVIOUS
<1>1. TypeOK /\ LockInv /\ NonNegative /\ VisibleNonNegative
  BY DEF IInv
<1>2. CASE balance' = balance /\ delta' = delta
  BY <1>1, <1>2 DEF NonNegative, VisibleNonNegative, OnHand
<1>3. ASSUME NEW t \in Txn, Abort(t) PROVE NonNegative' /\ VisibleNonNegative'
  <2>1. balance' = balance
    BY <1>3 DEF Abort
  <2>2. NonNegative'
    BY <1>1, <2>1 DEF NonNegative
  <2>3. ASSUME NEW u \in Txn, NEW l \in Locator \ Overdraft
        PROVE  balance'[l] + delta'[u][l] >= 0
    <3>1. Release(t)
      BY <1>3 DEF Abort
    <3>2. CASE u = t
      <4>1. delta'[u][l] = 0
        BY <1>1, <3>1, <3>2, ReleaseStep
      <4>2. balance[l] \in Int /\ balance[l] >= 0
        BY <1>1 DEF TypeOK, NonNegative
      <4> QED
        BY <2>1, <4>1, <4>2
    <3>3. CASE u # t
      <4>1. delta'[u] = delta[u]
        BY <1>1, <3>1, <3>3, ReleaseStep
      <4> QED
        BY <1>1, <2>1, <4>1 DEF VisibleNonNegative, OnHand
    <3> QED
      BY <3>2, <3>3
  <2> QED
    BY <2>2, <2>3 DEF VisibleNonNegative, OnHand
<1>4. ASSUME NEW t \in Txn, InsertMovement(t) PROVE NonNegative' /\ VisibleNonNegative'
  <2> DEFINE c == call[t]
  <2>1. c \in Call /\ c.loc \in Locator /\ c.qty \in Nat /\ Signed(c) \in Int
    BY <1>1, <1>4, CallParts DEF InsertMovement, TypeOK
  <2>2. balance' = balance /\ NonNegative'
    BY <1>1, <1>4 DEF InsertMovement, NonNegative
  <2>3. c.loc \notin Overdraft => OnHand(t, c.loc) + Signed(c) >= 0
    <3>1. c.loc \notin Overdraft => ~ c.negative
      BY <1>1, <1>4, <2>1, NoCallAssumption DEF LockInv, InsertMovement
    <3>2. c.loc \notin Overdraft => OnHand(t, c.loc) >= 0
      BY <1>1, <2>1 DEF VisibleNonNegative
    <3>3. OnHand(t, c.loc) \in Int
      BY <1>1, <2>1 DEF TypeOK, OnHand
    <3> QED
      BY <1>4, <2>1, <3>1, <3>2, <3>3 DEF InsertMovement, Enough, Signed
  <2>4. ASSUME NEW u \in Txn, NEW l \in Locator \ Overdraft
        PROVE  balance'[l] + delta'[u][l] >= 0
    <3>1. CASE u = t /\ l = c.loc
      <4>1. delta'[t][c.loc] = delta[t][c.loc] + Signed(c)
        BY <1>1, <1>4, <2>1 DEF InsertMovement, TypeOK
      <4>2. balance[c.loc] \in Int /\ delta[t][c.loc] \in Int
        BY <1>1, <2>1 DEF TypeOK
      <4> QED
        BY <2>1, <2>2, <2>3, <3>1, <4>1, <4>2 DEF OnHand
    <3>2. CASE ~ (u = t /\ l = c.loc)
      <4>1. delta'[u][l] = delta[u][l]
        BY <1>1, <1>4, <2>1, <3>2 DEF InsertMovement, TypeOK
      <4> QED
        BY <1>1, <2>2, <4>1 DEF VisibleNonNegative, OnHand
    <3> QED
      BY <3>1, <3>2
  <2> QED
    BY <2>2, <2>4 DEF VisibleNonNegative, OnHand
<1>5. ASSUME NEW t \in Txn, Commit(t) PROVE NonNegative' /\ VisibleNonNegative'
  <2>1. \A l \in Locator : /\ balance'[l] = OnHand(t, l)
                           /\ balance[l] \in Int
                           /\ \A u \in Txn : delta[u][l] \in Int
    BY <1>1, <1>5 DEF Commit, TypeOK, OnHand
  <2>2. NonNegative'
    BY <1>1, <2>1 DEF NonNegative, VisibleNonNegative
  <2>3. ASSUME NEW u \in Txn, NEW l \in Locator \ Overdraft
        PROVE  balance'[l] + delta'[u][l] >= 0
    <3>1. CASE u = t
      BY <1>1, <1>5, <2>1, <2>2, <3>1, ReleaseStep DEF Commit, NonNegative, OnHand
    <3>2. CASE u # t
      <4>1. delta'[u][l] = delta[u][l]
        BY <1>1, <1>5, <3>2, ReleaseStep DEF Commit
      <4>2. delta[t][l] = 0 \/ delta[u][l] = 0
        BY <1>1, <3>2 DEF LockInv
      <4>3. OnHand(t, l) >= 0 /\ OnHand(u, l) >= 0
        BY <1>1 DEF VisibleNonNegative
      <4> QED
        BY <2>1, <4>1, <4>2, <4>3 DEF OnHand
    <3> QED
      BY <3>1, <3>2
  <2> QED
    BY <2>2, <2>3 DEF VisibleNonNegative, OnHand
<1> QED
  BY <1>2, <1>3, <1>4, <1>5
  DEF Next, vars, Begin, Request, Step, LockLocator, MissLocator, InsertLocator,
      LocatorTaken, NotEnough, Rollback, DeadlockVictim

(* IInv is inductive.                                                       *)
THEOREM Inductive == Spec => []IInv
<1>1. Init => IInv
  BY OpeningAssumption, NobodyAssumption
  DEF Init, IInv, TypeOK, LockInv, NonNegative, VisibleNonNegative, OnHand, NoDelta
<1>2. IInv /\ [Next]_vars => IInv'
  BY TypeStep, LockStep, BalanceStep DEF IInv
<1> QED
  BY <1>1, <1>2, PTL DEF Spec

(* FR-008: no interleaving of any number of requests drives the committed   *)
(* on-hand of a locator below zero, wherever no caller allows it.           *)
THEOREM NeverNegative == Spec => []NonNegative
<1>1. IInv => NonNegative
  BY DEF IInv
<1> QED
  BY <1>1, Inductive, PTL

(* The locator row serializes the writers of one (item, location).          *)
THEOREM SingleWriter == Spec => []OneWriter
<1>1. IInv => OneWriter
  BY DEF IInv, LockInv, OneWriter
<1> QED
  BY <1>1, Inductive, PTL

-----------------------------------------------------------------------------
(* The ledger implements StockBook: what every request that commits did is  *)
(* one funded step.  First what the book's tally of movements computes.     *)

(* What the first n movements of s add to l.                                *)
Brings(s, n, l) == SumFunctionOnSet([i \in 1..n |-> Book!Effect(s[i], l)], 1..n)

(* The fold of the instance is the fold of FiniteTheorems.                  *)
LEMMA BookSum ==
  ASSUME NEW f, NEW S
  PROVE  Book!SumFunctionOnSet(f, S) = SumFunctionOnSet(f, S)
BY DEF Book!SumFunctionOnSet, Book!FoldFunctionOnSet, Book!MapThenFoldSet,
       SumFunctionOnSet, FoldFunctionOnSet, MapThenFoldSet

(* The book after n movements, in terms of Brings.                          *)
LEMMA AfterIs ==
  ASSUME NEW b, NEW s, NEW n, NEW l \in Locator
  PROVE  Book!After(b, s, n)[l] = b[l] + Brings(s, n, l)
BY BookSum DEF Book!After, Brings

(* A movement brings what it is signed for, to its own place.               *)
LEMMA EffectIs ==
  ASSUME NEW c \in Call, NEW l
  PROVE  /\ Book!Effect(c, l) \in Int
         /\ Book!Effect(c, l) = IF c.loc = l THEN Signed(c) ELSE 0
BY CallParts DEF Book!Effect, Signed

(* Only the first n movements count.                                        *)
LEMMA BringsSame ==
  ASSUME NEW s, NEW u, NEW n \in Nat, \A i \in 1..n : s[i] = u[i], NEW l
  PROVE  Brings(s, n, l) = Brings(u, n, l)
<1>1. IsFiniteSet(1..n)
  BY FS_Interval
<1> DEFINE f == [i \in 1..n |-> Book!Effect(s[i], l)]
           g == [i \in 1..n |-> Book!Effect(u[i], l)]
<1>2. \A i \in 1..n : f[i] = g[i]
  OBVIOUS
<1> HIDE DEF f, g
<1>3. SumFunctionOnSet(f, 1..n) = SumFunctionOnSet(g, 1..n)
  BY <1>1, <1>2, SumSame
<1> QED
  BY <1>3 DEF f, g, Brings

(* No movement brings nothing.                                              *)
LEMMA BringsNone == ASSUME NEW s, NEW l PROVE Brings(s, 0, l) = 0
<1>1. 1..0 = {}
  OBVIOUS
<1> QED
  BY <1>1, SumEmpty DEF Brings

(* One movement more.                                                       *)
LEMMA BringsNext ==
  ASSUME NEW n \in Nat, NEW s, \A i \in 1..(n + 1) : s[i] \in Call, NEW l
  PROVE  Brings(s, n + 1, l) = Brings(s, n, l) + Book!Effect(s[n + 1], l)
<1> DEFINE f == [i \in 1..(n + 1) |-> Book!Effect(s[i], l)]
           g == [i \in 1..n |-> Book!Effect(s[i], l)]
<1>1. \A i \in 1..(n + 1) : f[i] \in Int /\ f[i] = Book!Effect(s[i], l)
  BY EffectIs
<1>2. \A i \in 1..n : f[i] = g[i]
  OBVIOUS
<1>3. IsFiniteSet(1..n) /\ n + 1 \in 1..(n + 1)
  BY FS_Interval
<1> HIDE DEF f, g
<1>4. SumFunctionOnSet(f, 1..n) = SumFunctionOnSet(g, 1..n)
  BY <1>2, <1>3, SumSame
<1>5. SumFunctionOnSet(f, 1..(n + 1)) = SumFunctionOnSet(f, 1..n) + f[n + 1]
  BY <1>1, SumNext
<1> QED
  BY <1>1, <1>3, <1>4, <1>5 DEF f, g, Brings

-----------------------------------------------------------------------------
(* What a request has posted so far is what it has uncommitted, is funded   *)
(* as of now, and stays so: it holds the lock of every place it posted to,  *)
(* so no commit of another changes the on-hand there.                       *)
Posted(t) ==
    /\ Len(posts[t]) =< MaxPosts
    /\ call[t] # NoCall => Len(posts[t]) < MaxPosts
    /\ \A n \in 1..Len(posts[t]) :
          /\ posts[t][n].negative => posts[t][n].loc \in Overdraft
          /\ holder[posts[t][n].loc] = t
    /\ \A l \in Locator : delta[t][l] = Brings(posts[t], Len(posts[t]), l)
    /\ Book!Funded(balance, posts[t])

SInv == IInv /\ \A t \in Txn : Posted(t)

(* What a request has posted are calls, each of a place.                    *)
LEMMA PostsParts ==
  ASSUME TypeOK, NEW t \in Txn
  PROVE  /\ Len(posts[t]) \in Nat
         /\ DOMAIN posts[t] = 1..Len(posts[t])
         /\ \A n \in 1..Len(posts[t]) : /\ posts[t][n] \in Call
                                        /\ posts[t][n].loc \in Locator
<1>1. posts[t] \in Seq(Call)
  BY DEF TypeOK
<1> QED
  BY <1>1, CallParts

(* Funded, in terms of Brings.                                              *)
LEMMA FundedIs ==
  ASSUME NEW b, NEW s, \A n \in 1..Len(s) : s[n].loc \in Locator
  PROVE  Book!Funded(b, s) <=>
           \A n \in 1..Len(s) :
              s[n].dir = "in" \/ s[n].negative \/ b[s[n].loc] + Brings(s, n, s[n].loc) >= 0
BY AfterIs DEF Book!Funded

(* A step that posts nothing and gives up no lock.                          *)
LEMMA SteadyStep ==
  ASSUME SInv, UNCHANGED <<posts, delta, balance>>,
         \A u \in Txn, l \in Locator : holder[l] = u => holder'[l] = u,
         \A u \in Txn : call'[u] # NoCall => call[u] # NoCall \/ Len(posts[u]) < MaxPosts
  PROVE  \A u \in Txn : Posted(u)'
<1> SUFFICES ASSUME NEW u \in Txn PROVE Posted(u)'
  OBVIOUS
<1>1. Posted(u) /\ \A n \in 1..Len(posts[u]) : posts[u][n].loc \in Locator
  BY PostsParts DEF SInv, IInv
<1>2. \A n \in 1..Len(posts[u]) : holder'[posts[u][n].loc] = u
  BY <1>1 DEF Posted
<1>3. call'[u] # NoCall => Len(posts[u]) < MaxPosts
  BY <1>1 DEF Posted
<1> QED
  BY <1>1, <1>2, <1>3 DEF Posted

(* The end of a request: its own posts are gone; another's stay funded,     *)
(* since what changes is not where it posted.                               *)
LEMMA EndStep ==
  ASSUME SInv, NEW t \in Txn, Release(t),
         \A l \in Locator : balance'[l] = balance[l] \/ balance'[l] = balance[l] + delta[t][l]
  PROVE  \A u \in Txn : Posted(u)'
<1> SUFFICES ASSUME NEW u \in Txn PROVE Posted(u)'
  OBVIOUS
<1>1. TypeOK /\ LockInv /\ Posted(u) /\ MaxPosts \in Nat
  BY BoundAssumption DEF SInv, IInv
<1>2. CASE u = t
  <2>1. posts'[t] = <<>> /\ call'[t] = NoCall /\ \A l \in Locator : delta'[t][l] = 0
    BY <1>1, ReleaseStep DEF Release, TypeOK
  <2>2. Len(<<>>) = 0
    OBVIOUS
  <2>3. Book!Funded(balance', <<>>)
    BY <2>2 DEF Book!Funded
  <2> QED
    BY <1>1, <1>2, <2>1, <2>2, <2>3, BringsNone DEF Posted
<1>3. CASE u # t
  <2>1. posts'[u] = posts[u]
    BY <1>1, <1>3 DEF Release, TypeOK
  <2>2. /\ delta'[u] = delta[u] /\ call'[u] = call[u]
        /\ \A l \in Locator : holder[l] = u => holder'[l] = u
    BY <1>1, <1>3, ReleaseStep
  <2>3. \A n \in 1..Len(posts[u]) : posts[u][n].loc \in Locator
    BY <1>1, PostsParts
  <2>4. ASSUME NEW n \in 1..Len(posts[u])
        PROVE  balance'[posts[u][n].loc] = balance[posts[u][n].loc]
    <3>1. posts[u][n].loc \in Locator /\ holder[posts[u][n].loc] = u
      BY <1>1, <2>3 DEF Posted
    <3>2. delta[t][posts[u][n].loc] = 0
      BY <1>1, <1>3, <3>1 DEF LockInv
    <3>3. balance[posts[u][n].loc] \in Int
      BY <1>1, <3>1 DEF TypeOK
    <3> QED
      BY <3>1, <3>2, <3>3
  <2>5. Book!Funded(balance', posts[u])
    <3>1. Book!Funded(balance, posts[u])
      BY <1>1 DEF Posted
    <3> QED
      BY <2>3, <2>4, <3>1, FundedIs
  <2> QED
    BY <1>1, <2>1, <2>2, <2>3, <2>5 DEF Posted
<1> QED
  BY <1>2, <1>3

(* The movement inserted under the lock is funded by what the request sees. *)
LEMMA InsertStep ==
  ASSUME SInv, NEW t \in Txn, InsertMovement(t)
  PROVE  \A u \in Txn : Posted(u)'
<1> SUFFICES ASSUME NEW u \in Txn PROVE Posted(u)'
  OBVIOUS
<1>1. TypeOK /\ LockInv /\ Posted(u) /\ Posted(t)
  BY DEF SInv, IInv
<1>2. balance' = balance /\ holder' = holder
  BY DEF InsertMovement
<1>3. CASE u # t
  <2>1. posts'[u] = posts[u] /\ delta'[u] = delta[u] /\ call'[u] = call[u]
    BY <1>1, <1>3 DEF InsertMovement, TypeOK
  <2> QED
    BY <1>1, <1>2, <2>1 DEF Posted
<1>4. CASE u = t
  <2> DEFINE c == call[t]
             k == Len(posts[t])
             s == Append(posts[t], c)
  <2>1. c \in Call /\ c.loc \in Locator /\ c # NoCall /\ holder[c.loc] = t /\ pc[t] = "post"
    BY <1>1, CallParts DEF InsertMovement, TypeOK, LockInv
  <2>2. /\ posts'[t] = s /\ call'[t] = NoCall
        /\ \A l \in Locator : delta'[t][l] = delta[t][l] + Book!Effect(c, l)
    <3>1. posts'[t] = s /\ call'[t] = NoCall
      BY <1>1 DEF InsertMovement, TypeOK
    <3>2. ASSUME NEW l \in Locator PROVE delta'[t][l] = delta[t][l] + Book!Effect(c, l)
      <4>1. delta[t][l] \in Int
        BY <1>1 DEF TypeOK
      <4>2. delta'[t][l] = IF c.loc = l THEN delta[t][l] + Signed(c) ELSE delta[t][l]
        BY <1>1, <2>1 DEF InsertMovement, TypeOK
      <4> QED
        BY <2>1, <4>1, <4>2, EffectIs
    <3> QED
      BY <3>1, <3>2
  <2>3. /\ k \in Nat /\ k < MaxPosts /\ Len(s) = k + 1 /\ s[k + 1] = c
        /\ \A n \in 1..k : s[n] = posts[t][n] /\ s[n] \in Call /\ s[n].loc \in Locator
    <3>1. posts[t] \in Seq(Call)
      BY <1>1 DEF TypeOK
    <3> QED
      BY <1>1, <2>1, <3>1, PostsParts DEF Posted
  <2>4. \A n \in 1..(k + 1) : n = k + 1 \/ n \in 1..k
    BY <2>3
  <2> HIDE DEF c, k, s
  <2>5. \A n \in 1..(k + 1) : s[n] \in Call /\ s[n].loc \in Locator
    BY <2>1, <2>3, <2>4
  <2>6. \A l : Brings(s, k + 1, l) = Brings(posts[t], k, l) + Book!Effect(c, l)
    <3> TAKE l
    <3>1. Brings(s, k + 1, l) = Brings(s, k, l) + Book!Effect(s[k + 1], l)
      BY ONLY <2>3, <2>5, BringsNext
    <3>2. Brings(s, k, l) = Brings(posts[t], k, l)
      <4> DEFINE p == posts[t]
      <4>1. k \in Nat /\ \A i \in 1..k : s[i] = p[i]
        BY <2>3
      <4> HIDE DEF p
      <4>2. Brings(s, k, l) = Brings(p, k, l)
        BY ONLY <4>1, BringsSame
      <4> QED
        BY <4>2 DEF p
    <3> QED
      BY ONLY <2>3, <3>1, <3>2
  <2>7. \A l \in Locator : delta'[t][l] = Brings(s, k + 1, l)
    BY <1>1, <2>2, <2>6 DEF Posted, k
  <2>8. \A n \in 1..(k + 1) : /\ s[n].negative => s[n].loc \in Overdraft
                              /\ holder[s[n].loc] = t
    <3>1. c.negative => c.loc \in Overdraft
      BY <1>1, <2>1 DEF LockInv, c
    <3>2. \A n \in 1..k : /\ posts[t][n].negative => posts[t][n].loc \in Overdraft
                          /\ holder[posts[t][n].loc] = t
      BY <1>1 DEF Posted, k
    <3> QED
      BY <2>1, <2>3, <2>4, <3>1, <3>2
  <2>9. Book!Funded(balance, s)
    <3>1. ASSUME NEW n \in 1..k
          PROVE  s[n].dir = "in" \/ s[n].negative
                   \/ balance[s[n].loc] + Brings(s, n, s[n].loc) >= 0
      <4>1. \A m \in 1..Len(posts[t]) : posts[t][m].loc \in Locator
        BY <1>1, PostsParts
      <4>2. posts[t][n].dir = "in" \/ posts[t][n].negative
              \/ balance[posts[t][n].loc] + Brings(posts[t], n, posts[t][n].loc) >= 0
        BY <1>1, <4>1, FundedIs DEF Posted, k
      <4>3. n \in Nat /\ \A i \in 1..n : s[i] = posts[t][i]
        BY <2>3
      <4>4. Brings(s, n, s[n].loc) = Brings(posts[t], n, s[n].loc)
        BY ONLY <4>3, BringsSame
      <4>5. s[n] = posts[t][n]
        BY <2>3
      <4> QED
        BY ONLY <4>2, <4>4, <4>5
    <3>2. c.dir = "in" \/ c.negative \/ balance[c.loc] + Brings(s, k + 1, c.loc) >= 0
      <4>1. Enough(t, c)
        BY DEF InsertMovement, c
      <4>2. Brings(s, k + 1, c.loc) = delta[t][c.loc] + Signed(c)
        BY <1>1, <2>1, <2>6, EffectIs DEF Posted, k
      <4>3. balance[c.loc] \in Int /\ delta[t][c.loc] \in Int /\ c.qty \in Nat
        BY <1>1, <2>1, CallParts DEF TypeOK
      <4>4. ASSUME c.dir # "in", ~ c.negative
            PROVE  balance[c.loc] + Brings(s, k + 1, c.loc) >= 0
        <5>1. OnHand(t, c.loc) - c.qty >= 0
          BY ONLY <4>1, <4>4 DEF Enough
        <5>2. OnHand(t, c.loc) = balance[c.loc] + delta[t][c.loc]
          BY DEF OnHand
        <5> QED
          BY <4>2, <4>3, <4>4, <5>1, <5>2 DEF Signed
      <4> QED
        BY <4>4
    <3>3. \A n \in 1..Len(s) : s[n].dir = "in" \/ s[n].negative
                                 \/ balance[s[n].loc] + Brings(s, n, s[n].loc) >= 0
      BY <2>3, <2>4, <3>1, <3>2
    <3> QED
      BY <2>3, <2>5, <3>3, FundedIs
  <2> QED
    BY <1>2, <1>4, <2>2, <2>3, <2>7, <2>8, <2>9, BoundAssumption DEF Posted
<1> QED
  BY <1>3, <1>4

(* SInv is inductive.                                                       *)
LEMMA PostedStep == SInv /\ [Next]_vars => SInv'
<1> SUFFICES ASSUME SInv, [Next]_vars PROVE SInv'
  OBVIOUS
<1>1. TypeOK /\ LockInv /\ IInv'
  BY TypeStep, LockStep, BalanceStep DEF SInv, IInv
<1>2. ASSUME UNCHANGED vars PROVE \A u \in Txn : Posted(u)'
  <2>1. UNCHANGED <<posts, delta, balance, holder, call>>
    BY <1>2 DEF vars
  <2> QED
    BY <2>1, SteadyStep
<1>3. ASSUME NEW t \in Txn, Begin(t) PROVE \A u \in Txn : Posted(u)'
  BY <1>3, SteadyStep DEF Begin
<1>4. ASSUME NEW t \in Txn, NEW c \in Call, Request(t, c) PROVE \A u \in Txn : Posted(u)'
  <2>1. \A u \in Txn : call'[u] # NoCall => call[u] # NoCall \/ Len(posts[u]) < MaxPosts
    BY <1>1, <1>4 DEF Request, TypeOK
  <2> QED
    BY <1>4, <2>1, SteadyStep DEF Request
<1>5. ASSUME NEW t \in Txn, LockLocator(t) \/ MissLocator(t) \/ InsertLocator(t)
      PROVE  \A u \in Txn : Posted(u)'
  <2>1. \A u \in Txn, l \in Locator : holder[l] = u => holder'[l] = u
    BY <1>1, <1>5, NobodyAssumption DEF LockLocator, MissLocator, InsertLocator, TypeOK
  <2>2. UNCHANGED <<posts, delta, balance, call>>
    BY <1>5 DEF LockLocator, MissLocator, InsertLocator
  <2> QED
    BY <2>1, <2>2, SteadyStep
<1>6. ASSUME NEW t \in Txn, Abort(t) PROVE \A u \in Txn : Posted(u)'
  BY <1>6, EndStep DEF Abort
<1>7. ASSUME NEW t \in Txn, Commit(t) PROVE \A u \in Txn : Posted(u)'
  BY <1>7, EndStep DEF Commit
<1>8. ASSUME NEW t \in Txn, InsertMovement(t) PROVE \A u \in Txn : Posted(u)'
  BY <1>8, InsertStep
<1> QED
  BY <1>1, <1>2, <1>3, <1>4, <1>5, <1>6, <1>7, <1>8
  DEF SInv, Next, Step, LocatorTaken, NotEnough, Rollback, DeadlockVictim

(* A commit applies what the request posted, all at once.                   *)
LEMMA CommitApplies ==
  ASSUME SInv, NEW t \in Txn, Commit(t)
  PROVE  Book!Next
<1> DEFINE s == posts[t]
           Allowed == {c \in Call : c.negative => c.loc \in Overdraft}
<1>1. TypeOK /\ Posted(t) /\ MaxPosts \in Nat
  BY BoundAssumption DEF SInv, IInv
<1>2. s \in [1..Len(s) -> Allowed] /\ Len(s) \in 0..MaxPosts
  <2>1. s \in Seq(Call) /\ Len(s) =< MaxPosts
    BY <1>1 DEF TypeOK, Posted
  <2>2. \A n \in 1..Len(s) : s[n] \in Call /\ (s[n].negative => s[n].loc \in Overdraft)
    BY <1>1, PostsParts DEF Posted
  <2>3. \A n \in 1..Len(s) : s[n] \in Allowed
    BY <2>2
  <2> HIDE DEF Allowed, s
  <2> QED
    BY <1>1, <2>1, <2>3
<1>3. s \in Book!BoundedSeq(Allowed, MaxPosts)
  <2> HIDE DEF Allowed, s
  <2> QED
    BY <1>2 DEF Book!BoundedSeq, Book!SeqOf
<1>4. Book!Apply(s)
  <2>1. balance' = Book!After(balance, s, Len(s))
    <3>1. ASSUME NEW l \in Locator
          PROVE  Book!After(balance, s, Len(s))[l] = balance[l] + delta[t][l]
      BY <1>1, AfterIs DEF Posted
    <3>2. Book!After(balance, s, Len(s))
            = [l \in Locator |-> Book!After(balance, s, Len(s))[l]]
      BY DEF Book!After
    <3> QED
      BY <3>1, <3>2 DEF Commit
  <2> QED
    BY <1>1, <2>1 DEF Book!Apply, Posted
<1> QED
  BY <1>3, <1>4 DEF Book!Next

(* The requests are serializable, however many there are and however they   *)
(* interleave: every commit is one funded step of StockBook (post_movement  *)
(* and _lock_locator of stock_service.py, and the commit of the request).   *)
THEOREM LedgerSerializable == Spec => Serializable
<1>1. Init => SInv /\ Book!Init
  <2> SUFFICES ASSUME Init PROVE SInv /\ Book!Init
    OBVIOUS
  <2>1. IInv /\ Book!Init
    BY OpeningAssumption, NobodyAssumption
    DEF Init, IInv, TypeOK, LockInv, NonNegative, VisibleNonNegative, OnHand, NoDelta, Book!Init
  <2>2. ASSUME NEW t \in Txn PROVE Posted(t)
    <3>1. posts[t] = <<>> /\ call[t] = NoCall /\ \A l \in Locator : delta[t][l] = 0
      BY DEF Init, NoDelta
    <3>2. Len(<<>>) = 0
      OBVIOUS
    <3>3. Book!Funded(balance, <<>>)
      BY <3>2 DEF Book!Funded
    <3> QED
      BY <3>1, <3>2, <3>3, BringsNone, BoundAssumption DEF Posted
  <2> QED
    BY <2>1, <2>2 DEF SInv
<1>2. SInv /\ [Next]_vars => [Book!Next]_balance
  BY CommitApplies
  DEF Next, vars, Begin, Request, Step, LockLocator, MissLocator, InsertLocator,
      InsertMovement, LocatorTaken, NotEnough, Rollback, DeadlockVictim, Abort
<1> QED
  BY <1>1, <1>2, PostedStep, PTL DEF Spec, Serializable, Book!Spec
=============================================================================
