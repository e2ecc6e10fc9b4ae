----------------------------- MODULE StockBook -----------------------------
(***************************************************************************)
(* What the stock ledger promises its callers: each request takes effect   *)
(* in one instant, as if it ran alone.  Its movements are applied in the   *)
(* order it posted them, and every one that takes stock out of a locator   *)
(* finds enough there at that instant, or the request has no effect.       *)
(***************************************************************************)
EXTENDS Integers, Sequences, SequencesExt, Functions

CONSTANTS
    Locator,      \* (item x location) pairs
    Movements,    \* the movements a request may post
    MaxPosts,     \* bound: movements of one request
    Opening       \* on-hand at the start

VARIABLE balance

Effect(m, l) ==
    IF m.loc # l THEN 0 ELSE IF m.dir = "in" THEN m.qty ELSE -m.qty

(* On-hand after the first n movements of s, starting from book b. *)
After(b, s, n) ==
    [l \in Locator |-> b[l] + SumFunctionOnSet([i \in 1..n |-> Effect(s[i], l)], 1..n)]

Funded(b, s) ==
    \A n \in 1..Len(s) :
        s[n].dir = "in" \/ s[n].negative \/ After(b, s, n)[s[n].loc] >= 0

Init == balance = Opening

Apply(s) ==
    /\ Funded(balance, s)
    /\ balance' = After(balance, s, Len(s))

Next == \E s \in BoundedSeq(Movements, MaxPosts) : Apply(s)

Spec == Init /\ [][Next]_balance
=============================================================================
