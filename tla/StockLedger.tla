---------------------------- MODULE StockLedger ----------------------------
(***************************************************************************)
(* The stock ledger of services/stock_service.py as concurrent requests    *)
(* use it: each request is one PostgreSQL transaction at READ COMMITTED    *)
(* that calls post_movement any number of times and then commits or is     *)
(* rolled back.                                                            *)
(*                                                                         *)
(* On-hand is never stored by the program: on_hand adds up the movement    *)
(* rows a transaction can see, the committed ones and its own.  The model  *)
(* keeps the two halves of that sum as tallies: balance[l], the sum of the *)
(* committed rows at l, and delta[t][l], the sum of the rows t inserted.   *)
(* A locator is an (item, location kind, location) triple; its row in      *)
(* stock_locator carries no quantity and serves only as a lock anchor.     *)
(***************************************************************************)
EXTENDS Integers, Sequences

CONSTANTS
    Txn,          \* the requests that run concurrently, one transaction each
    Locator,      \* (item x location) pairs
    Nobody,       \* the holder of a lock nobody holds
    NoCall,       \* the pending call of a transaction that has none
    Qty,          \* the quantities a movement may carry
    Overdraft,    \* locators some caller posts to with allow_negative=True
    Known,        \* locators whose stock_locator row exists at the start
    Opening,      \* on-hand at the start
    MaxPosts,     \* bound: movements one request posts
    MaxOnHand     \* bound: a request adds no stock above this, nor overdraws
                  \* a locator below its negation

ASSUME QtyAssumption == \A q \in Qty : q \in Nat /\ q > 0
ASSUME NobodyAssumption == Nobody \notin Txn
ASSUME OverdraftAssumption == Overdraft \subseteq Locator
ASSUME OpeningAssumption ==
    /\ Opening \in [Locator -> Nat]
    /\ Known \subseteq Locator
    /\ \A l \in Locator \ Known : Opening[l] = 0
ASSUME BoundAssumption == MaxPosts \in Nat /\ MaxOnHand \in Nat

(* The arguments of a post_movement call that its outcome depends on. *)
Call == [loc : Locator, dir : {"in", "out"}, qty : Qty, negative : BOOLEAN]

ASSUME NoCallAssumption == NoCall \notin Call

VARIABLES
    known,     \* locators with a committed stock_locator row
    holder,    \* who holds the row lock of a locator, or its uncommitted insert
    balance,   \* sum of the committed movements at a locator
    delta,     \* sum of the uncommitted movements of a transaction
    posts,     \* the calls a transaction has completed, in order
    call,      \* the post_movement call in progress
    pc         \* where a transaction is

vars == <<known, holder, balance, delta, posts, call, pc>>

NoDelta == [l \in Locator |-> 0]

Init ==
    /\ known = Known
    /\ holder = [l \in Locator |-> Nobody]
    /\ balance = Opening
    /\ delta = [t \in Txn |-> NoDelta]
    /\ posts = [t \in Txn |-> <<>>]
    /\ call = [t \in Txn |-> NoCall]
    /\ pc = [t \in Txn |-> "idle"]

-----------------------------------------------------------------------------
(* What t can see of a locator. *)

(* Wrong on purpose: the reader's own rows were never flushed. *)
OnHandUnflushed(t, l) == balance[l]

(* on_hand: committed movements and those of the reader. *)
OnHand(t, l) == balance[l] + delta[t][l]

(* SELECT ... FOR UPDATE finds the row if it is committed or t inserted it. *)
SeesLocator(t, l) == l \in known \/ holder[l] = t

Signed(c) == IF c.dir = "in" THEN c.qty ELSE -c.qty

(* The guard of post_movement before it inserts the row. *)
Enough(t, c) ==
    c.dir = "in" \/ c.negative \/ OnHand(t, c.loc) - c.qty >= 0

(* Ending a transaction gives up its locks and forgets its own rows. *)
Locks(t) == {l \in Locator : holder[l] = t}

(* Wrong on purpose: the interrupted call is not forgotten. *)
ReleaseKeepsCall(t) ==
    /\ holder' = [l \in Locator |-> IF holder[l] = t THEN Nobody ELSE holder[l]]
    /\ delta' = [delta EXCEPT ![t] = NoDelta]
    /\ posts' = [posts EXCEPT ![t] = <<>>]
    /\ pc' = [pc EXCEPT ![t] = "idle"]
    /\ UNCHANGED call

(* The end of a transaction, either way. *)
Release(t) ==
    /\ holder' = [l \in Locator |-> IF holder[l] = t THEN Nobody ELSE holder[l]]
    /\ delta' = [delta EXCEPT ![t] = NoDelta]
    /\ posts' = [posts EXCEPT ![t] = <<>>]
    /\ call' = [call EXCEPT ![t] = NoCall]
    /\ pc' = [pc EXCEPT ![t] = "idle"]

Abort(t) == Release(t) /\ UNCHANGED <<known, balance>>

-----------------------------------------------------------------------------
(* A request. *)

Begin(t) ==
    /\ pc[t] = "idle"
    /\ pc' = [pc EXCEPT ![t] = "open"]
    /\ UNCHANGED <<known, holder, balance, delta, posts, call>>

(* post_movement is called; the bounds keep the instance finite. *)
Request(t, c) ==
    /\ pc[t] = "open"
    /\ Len(posts[t]) < MaxPosts
    /\ c.negative => c.loc \in Overdraft
    /\ IF c.dir = "in" THEN OnHand(t, c.loc) + c.qty =< MaxOnHand
                       ELSE OnHand(t, c.loc) - c.qty >= -MaxOnHand
    /\ call' = [call EXCEPT ![t] = c]
    /\ pc' = [pc EXCEPT ![t] = "lock"]
    /\ UNCHANGED <<known, holder, balance, delta, posts>>

(* Wrong on purpose: a plain SELECT, without FOR UPDATE. *)
LockLocatorPlainSelect(t) ==
    /\ pc[t] = "lock"
    /\ SeesLocator(t, call[t].loc)
    /\ pc' = [pc EXCEPT ![t] = "post"]
    /\ UNCHANGED <<known, holder, balance, delta, posts, call>>

(* _lock_locator, the row exists: SELECT ... FOR UPDATE waits for its lock. *)
LockLocator(t) ==
    /\ pc[t] = "lock"
    /\ SeesLocator(t, call[t].loc)
    /\ holder[call[t].loc] \in {Nobody, t}
    /\ holder' = [holder EXCEPT ![call[t].loc] = t]
    /\ pc' = [pc EXCEPT ![t] = "post"]
    /\ UNCHANGED <<known, balance, delta, posts, call>>

(* _lock_locator, the row does not exist for t yet: it goes on to insert it. *)
MissLocator(t) ==
    /\ pc[t] = "lock"
    /\ ~ SeesLocator(t, call[t].loc)
    /\ pc' = [pc EXCEPT ![t] = "insert"]
    /\ UNCHANGED <<known, holder, balance, delta, posts, call>>

(* Wrong on purpose: stock_locator without its unique constraint. *)
InsertLocatorTwice(t) ==
    /\ pc[t] = "insert"
    /\ holder' = [holder EXCEPT ![call[t].loc] = t]
    /\ pc' = [pc EXCEPT ![t] = "post"]
    /\ UNCHANGED <<known, balance, delta, posts, call>>

(* The insert waits for an uncommitted insert of the same key by another. *)
InsertLocator(t) ==
    /\ pc[t] = "insert"
    /\ call[t].loc \notin known
    /\ holder[call[t].loc] = Nobody
    /\ holder' = [holder EXCEPT ![call[t].loc] = t]
    /\ pc' = [pc EXCEPT ![t] = "post"]
    /\ UNCHANGED <<known, balance, delta, posts, call>>

(* uq_stock_locator: another request committed the row first; the           *)
(* IntegrityError ends this one.                                            *)
LocatorTaken(t) ==
    /\ pc[t] = "insert"
    /\ call[t].loc \in known
    /\ Abort(t)

(* With the lock held, on_hand is read and the movement inserted. *)
InsertMovement(t) ==
    /\ pc[t] = "post"
    /\ Enough(t, call[t])
    /\ delta' = [delta EXCEPT ![t][call[t].loc] = @ + Signed(call[t])]
    /\ posts' = [posts EXCEPT ![t] = Append(@, call[t])]
    /\ call' = [call EXCEPT ![t] = NoCall]
    /\ pc' = [pc EXCEPT ![t] = "open"]
    /\ UNCHANGED <<known, holder, balance>>

(* Wrong on purpose: the session of a refused request is never closed. *)
NotEnoughLeaksSession(t) ==
    /\ pc[t] = "post"
    /\ ~ Enough(t, call[t])
    /\ call' = [call EXCEPT ![t] = NoCall]
    /\ pc' = [pc EXCEPT ![t] = "idle"]
    /\ UNCHANGED <<known, holder, balance, delta, posts>>

(* StockError: the endpoint answers 409 and its session is rolled back. *)
NotEnough(t) ==
    /\ pc[t] = "post"
    /\ ~ Enough(t, call[t])
    /\ Abort(t)

(* db.commit(): the rows become visible and the locks are given up. *)
Commit(t) ==
    /\ pc[t] = "open"
    /\ balance' = [l \in Locator |-> balance[l] + delta[t][l]]
    /\ known' = known \cup Locks(t)
    /\ Release(t)

(* Any other exception of the handler, and a request that only read. *)
Rollback(t) ==
    /\ pc[t] = "open"
    /\ Abort(t)

-----------------------------------------------------------------------------
(* PostgreSQL: a transaction that waits for itself through others is ended. *)

WaitsFor(t, u) ==
    /\ t # u
    /\ \/ pc[t] = "lock" /\ SeesLocator(t, call[t].loc)
       \/ pc[t] = "insert" /\ call[t].loc \notin known
    /\ holder[call[t].loc] = u

InCycle(t) ==
    \E S \in SUBSET Txn :
        /\ t \in S
        /\ \A u \in S : \E v \in S : WaitsFor(u, v)
        /\ \A v \in S : \E u \in S : WaitsFor(u, v)

DeadlockVictim(t) == InCycle(t) /\ Abort(t)

-----------------------------------------------------------------------------
Step(t) ==
    \/ LockLocator(t) \/ MissLocator(t) \/ InsertLocator(t) \/ LocatorTaken(t)
    \/ InsertMovement(t) \/ NotEnough(t)
    \/ Commit(t) \/ Rollback(t) \/ DeadlockVictim(t)

Next == \E t \in Txn : \/ Begin(t)
                       \/ \E c \in Call : Request(t, c)
                       \/ Step(t)

Spec == Init /\ [][Next]_vars

(* A handler runs to its end, a lock queue serves its waiters in turn, and  *)
(* PostgreSQL ends a waiting cycle.                                         *)
Fairness ==
    \A t \in Txn :
        /\ SF_vars(LockLocator(t)) /\ SF_vars(InsertLocator(t))
        /\ WF_vars(Step(t))

FairSpec == Spec /\ Fairness

-----------------------------------------------------------------------------
(* The type invariant; a transaction is inside a call of post_movement      *)
(* exactly while it has one.                                                *)
TypeOK ==
    /\ known \subseteq Locator
    /\ holder \in [Locator -> Txn \cup {Nobody}]
    /\ balance \in [Locator -> Int]
    /\ delta \in [Txn -> [Locator -> Int]]
    /\ posts \in [Txn -> Seq(Call)]
    /\ call \in [Txn -> Call \cup {NoCall}]
    /\ pc \in [Txn -> {"idle", "open", "lock", "insert", "post"}]
    /\ \A t \in Txn : (call[t] = NoCall) <=> (pc[t] \in {"idle", "open"})

(* FR-008 and research R3: however requests interleave, the committed      *)
(* on-hand of a locator that no caller may overdraw never drops below      *)
(* zero: the check in post_movement is made under the locator's lock.      *)
NonNegative == \A l \in Locator \ Overdraft : balance[l] >= 0

(* research R3, "serializes concurrent writers for the same (item,         *)
(* location)": two requests never both have uncommitted movements at one   *)
(* locator.                                                                *)
OneWriter ==
    \A l \in Locator : \A t, u \in Txn :
        delta[t][l] # 0 /\ delta[u][l] # 0 => t = u

(* The state of the locks that makes NonNegative inductive: whoever has    *)
(* rows at a locator, or is past the lock there, holds its lock, and what  *)
(* a request sees is not negative where overdrafts are refused.            *)
LockInv ==
    /\ \A t \in Txn, l \in Locator : delta[t][l] # 0 => holder[l] = t
    /\ \A t \in Txn : pc[t] = "post" => holder[call[t].loc] = t
    /\ \A t \in Txn : pc[t] # "idle" /\ call[t] # NoCall =>
           (call[t].negative => call[t].loc \in Overdraft)

VisibleNonNegative ==
    \A t \in Txn, l \in Locator \ Overdraft : OnHand(t, l) >= 0

IInv == TypeOK /\ LockInv /\ NonNegative /\ VisibleNonNegative

(* Each request takes effect in one instant, as StockBook says.            *)
Book == INSTANCE StockBook WITH
            Movements <- {c \in Call : c.negative => c.loc \in Overdraft}

(* The requests are serializable: a committed request could have run alone *)
(* at the instant of its commit, every check of it against that stock      *)
(* (post_movement, db.commit).                                             *)
Serializable == Book!Spec

(* Every request is answered: no handler waits for a locator for ever,     *)
(* though handlers take locators in any order.                             *)
EveryRequestEnds == \A t \in Txn : pc[t] # "idle" ~> pc[t] = "idle"
=============================================================================
