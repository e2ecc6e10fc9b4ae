----------------------------- MODULE Reconcile -----------------------------
(***************************************************************************)
(* Matching of invoices and payments in services/reconcile_service.py,     *)
(* with the entry states of services/ledger_service.py that go with it.    *)
(* The lines are those of one reconcilable account; a line knows what is   *)
(* left of it (amount_residual), a link says how much of a debit line a    *)
(* credit line has paid (partial_reconcile), and lines that are linked to  *)
(* each other and have nothing left are closed as one group                *)
(* (full_reconcile).                                                       *)
(*                                                                         *)
(* No handler locks what it reads.  A request is two steps: it reads the   *)
(* rows it needs, then writes what it made of them and commits.  A column  *)
(* is written only where its value differs from the one that was read, so  *)
(* two requests on one line overwrite each other column by column; the     *)
(* flushes of a request and its commit are one step, as their row locks    *)
(* last until then.  The period lock and the hash chain, which only refuse *)
(* requests, and edits of a draft's lines are left out.                    *)
(***************************************************************************)
EXTENDS Integers, FiniteSets, FiniteSetsExt, Functions, NullValue

CONSTANTS
    Txn,          \* the requests that run concurrently
    Line,         \* ledger lines of the account, by id
    Entry,        \* ledger entries that have a line of the account
    EntryOf,      \* the entry a line belongs to
    Amount,       \* what a line is for: debit positive, credit negative
    Due,          \* date of maturity of a line
    DebitMove,    \* entries whose move type is paid on the debit side
    CreditMove,   \* entries whose move type is paid on the credit side
    Ops,          \* the kinds of request in this instance
    MaxLink       \* bound: links made

ASSUME LineAssumption == Line \subseteq Nat /\ IsFiniteSet(Line) /\ Null \notin Int
ASSUME AmountAssumption == \A l \in Line : Amount[l] \in Int /\ Amount[l] # 0
ASSUME EntryAssumption ==
    /\ EntryOf \in [Line -> Entry] /\ Due \in [Line -> Nat]
    /\ \A e \in Entry : \E l \in Line : EntryOf[l] = e
    /\ DebitMove \cap CreditMove = {}

VARIABLES
    state,        \* draft, posted or cancelled
    residual,     \* amount_residual: what is left of a line
    closed,       \* full_reconcile_id: the group a line is closed in
    paid,         \* payment_state of an entry
    links,        \* rows of partial_reconcile, by id
    groups,       \* rows of full_reconcile
    made,         \* how many links and groups were ever made
    job           \* the request a transaction serves, and what it has read

rows == <<state, residual, closed, paid, links, groups, made>>
reconcileVars == <<rows, job>>

-----------------------------------------------------------------------------
(* What is left.                                                            *)

Left(r, l) == IF r[l] = Null THEN 0 ELSE r[l]

LinesOf(e) == {l \in Line : EntryOf[l] = e}

EntriesOf(S) == {EntryOf[l] : l \in S}

(* payment_state_of, from the residuals r.                                  *)
PaymentStateOf(e, r) ==
    LET kept == {l \in LinesOf(e) : r[l] # Null}
        debits == {l \in kept : Amount[l] > 0}
        credits == kept \ debits
        debitTotal == SumFunctionOnSet(Amount, debits)
        creditTotal == - SumFunctionOnSet(Amount, credits)
        onDebit == \/ e \in DebitMove
                   \/ /\ e \notin CreditMove
                      /\ debitTotal >= creditTotal
        total == IF onDebit THEN debitTotal ELSE creditTotal
        open == IF onDebit THEN SumFunctionOnSet(r, {l \in kept : r[l] > 0})
                           ELSE - SumFunctionOnSet(r, {l \in kept : r[l] < 0})
    IN  IF kept = {} THEN Null
        ELSE IF open =< 0 THEN "paid"
        ELSE IF total = 0 \/ open >= total THEN "not_paid" ELSE "partial"

-----------------------------------------------------------------------------
(* The matching loop of reconcile.                                          *)

(* Wrong on purpose: the latest to mature goes first.                       *)
LatestOf(S) ==
    CHOOSE a \in S : \A b \in S : Due[a] > Due[b] \/ (Due[a] = Due[b] /\ a =< b)

(* By maturity, the first of the lines S.                                   *)
EarliestOf(S) ==
    CHOOSE a \in S : \A b \in S : Due[a] < Due[b] \/ (Due[a] = Due[b] /\ a =< b)

Debits(r) == {l \in DOMAIN r : r[l] > 0}
Credits(r) == {l \in DOMAIN r : r[l] < 0}

(* In round w, n of debit line d is paid from credit line c.                *)
Linked(w, d, c, n) ==
    [left |-> [w.left EXCEPT ![d] = @ - n, ![c] = @ + n],
     links |-> [i \in DOMAIN w.links \cup {w.made + 1} |->
                  IF i = w.made + 1 THEN [debit |-> d, credit |-> c, amount |-> n, group |-> Null]
                  ELSE w.links[i]],
     made |-> w.made + 1]

(* Wrong on purpose: the payment is spent on the first line whole.          *)
PairWhole(w) ==
    LET d == EarliestOf(Debits(w.left))
        c == EarliestOf(Credits(w.left))
    IN  IF Debits(w.left) = {} \/ Credits(w.left) = {} THEN w
        ELSE Linked(w, d, c, - w.left[c])

(* One round: the first open debit is paid from the first open credit.      *)
Pair(w) ==
    LET d == EarliestOf(Debits(w.left))
        c == EarliestOf(Credits(w.left))
    IN  IF Debits(w.left) = {} \/ Credits(w.left) = {} THEN w
        ELSE Linked(w, d, c, IF w.left[d] < - w.left[c] THEN w.left[d] ELSE - w.left[c])

Rounds(w, n) ==
    LET after[i \in 0..n] == IF i = 0 THEN w ELSE Pair(after[i - 1]) IN after

(* What reconcile makes of the lines S as it read them: each round uses up  *)
(* one line at least.                                                       *)
Matched(S, r) ==
    Rounds([left |-> r, links |-> links, made |-> made.links], Cardinality(S))[Cardinality(S)]

-----------------------------------------------------------------------------
(* Links.                                                                   *)

Ends(link) == {link.debit, link.credit}

Touching(S) == {i \in DOMAIN links : Ends(links[i]) \cap S # {}}

EndsOf(I) == UNION {Ends(links[i]) : i \in I}

(* _connected_component: the lines reached from S over the links, no set    *)
(* that holds S and is closed under them being without one.                 *)
Component(S, all) ==
    LET closedSets == {T \in SUBSET Line :
            S \subseteq T /\ \A i \in DOMAIN all : Ends(all[i]) \cap T # {} => Ends(all[i]) \subseteq T}
    IN  {l \in Line : \A T \in closedSets : l \in T}

-----------------------------------------------------------------------------
(* A request reads the lines S, their entries, and the links I.             *)

Read(t, op, S, e, I) ==
    /\ op \in Ops
    /\ job[t] = Null
    /\ job' = [job EXCEPT ![t] = [op |-> op, lines |-> S, entry |-> e,
                                 links |-> [i \in I |-> links[i]],
                                 residual |-> [l \in S |-> residual[l]],
                                 closed |-> [l \in S |-> closed[l]],
                                 paid |-> [x \in EntriesOf(S) |-> paid[x]],
                                 state |-> [x \in EntriesOf(S) |-> state[x]]]]
    /\ UNCHANGED rows

(* _assert_matchable.                                                       *)
Matchable(S) ==
    /\ Cardinality(S) >= 2
    /\ \A l \in S : residual[l] # Null /\ state[EntryOf[l]] = "posted"
    /\ \E l \in S : residual[l] > 0
    /\ \E l \in S : residual[l] < 0

StartReconcile(t, S) ==
    /\ Matchable(S)
    /\ made.links + Cardinality(S) - 1 =< MaxLink
    /\ Read(t, "reconcile", S, Null, {})

(* auto_reconcile: every open line of the account.                          *)
OpenLines ==
    {l \in Line : residual[l] \notin {Null, 0} /\ state[EntryOf[l]] = "posted"}

StartAutoReconcile(t) == StartReconcile(t, OpenLines)

(* unreconcile with line_ids: the links that touch them.                    *)
StartUndoLines(t, S) ==
    /\ Touching(S) # {}
    /\ Read(t, "undo", EndsOf(Touching(S)), Null, Touching(S))

(* unreconcile with a number: the links of the group.                       *)
StartUndoGroup(t, g) ==
    LET I == {i \in DOMAIN links : links[i].group = g} IN
    /\ I # {}
    /\ Read(t, "undo", EndsOf(I), Null, I)

StartPost(t, e) ==
    /\ state[e] = "draft"
    /\ Read(t, "post", LinesOf(e), e, {})

(* Wrong on purpose: the links of the entry are not looked for.             *)
UnlinkedAnyway(e) == TRUE

(* _release_residuals refuses an entry that is linked.                      *)
Unlinked(e) == Touching(LinesOf(e)) = {}

StartReset(t, e) ==
    /\ state[e] # "draft"
    /\ Unlinked(e)
    /\ Read(t, "reset", LinesOf(e), e, {})

StartCancelEntry(t, e) ==
    /\ Unlinked(e)
    /\ Read(t, "cancel", LinesOf(e), e, {})

-----------------------------------------------------------------------------
(* A request writes and commits.                                            *)

EndJob(t) == job' = [job EXCEPT ![t] = Null]

(* The columns of S as they are after new was written over what was read.   *)
Written(column, read, new, S) ==
    [x \in DOMAIN column |-> IF x \in S /\ new[x] # read[x] THEN new[x] ELSE column[x]]

(* What the session sees: its own values of S, the committed ones elsewhere *)
Seen(new, S) == [l \in Line |-> IF l \in S THEN new[l] ELSE residual[l]]

(* Wrong on purpose: only the entries that are paid in full are refreshed.  *)
PaymentStatesPaidOnly(S, r) ==
    [e \in Entry |-> IF e \in EntriesOf(S) /\ PaymentStateOf(e, r) = "paid"
                     THEN "paid" ELSE paid[e]]

(* refresh_payment_state of the entries of S.                               *)
PaymentStates(S, r) ==
    [e \in Entry |-> IF e \in EntriesOf(S) THEN PaymentStateOf(e, r) ELSE paid[e]]

(* reconcile, then _close_if_done: the lines, and all that are linked to    *)
(* them, have nothing left.                                                 *)
FinishReconcile(t) ==
    LET S == job[t].lines
        walk == Matched(S, job[t].residual)
        new == walk.left
        all == walk.links
        r == Seen(new, S)
        whole == Component(S, all)
        done == \A l \in whole : Left(r, l) = 0
        g == made.groups + 1
    IN
    /\ job[t] # Null /\ job[t].op = "reconcile"
    /\ residual' = Written(residual, job[t].residual, new, S)
    /\ paid' = Written(paid, job[t].paid, PaymentStates(S, r), EntriesOf(S))
    /\ IF done
       THEN /\ closed' = [l \in Line |-> IF l \in whole THEN g ELSE closed[l]]
            /\ links' = [i \in DOMAIN all |->
                  IF Ends(all[i]) \subseteq whole THEN [all[i] EXCEPT !.group = g] ELSE all[i]]
            /\ groups' = groups \cup {g}
       ELSE /\ links' = all
            /\ UNCHANGED <<closed, groups>>
    /\ made' = [links |-> walk.made, groups |-> IF done THEN g ELSE made.groups]
    /\ EndJob(t)
    /\ UNCHANGED state

(* What a link took of a line.                                              *)
Share(k, l) == IF k.debit = l THEN k.amount ELSE IF k.credit = l THEN - k.amount ELSE 0

Taken(ks, l) == SumFunctionOnSet([i \in DOMAIN ks |-> Share(ks[i], l)], DOMAIN ks)

(* Wrong on purpose: only the debit line gets its amount back.              *)
GivenBackDebit(ks, read, l) ==
    Left(read, l) + SumFunctionOnSet([i \in DOMAIN ks |-> IF ks[i].debit = l THEN ks[i].amount ELSE 0],
                                     DOMAIN ks)

(* What a line has left once the links ks are undone.                       *)
GivenBack(ks, read, l) == Left(read, l) + Taken(ks, l)

(* unreconcile: a group none of whose lines is closed in it any more goes,  *)
(* which the foreign key of a link that stays refuses.                      *)
FinishUndo(t) ==
    LET ks == job[t].links
        S == job[t].lines
        read == job[t].residual
        new == [l \in S |-> GivenBack(ks, read, l)]
        named == {job[t].closed[l] : l \in S} \cup {ks[i].group : i \in DOMAIN ks}
        gone == {g \in groups \cap named : \A l \in Line : closed'[l] # g}
    IN
    /\ job[t] # Null /\ job[t].op = "undo"
    /\ residual' = Written(residual, read, new, S)
    /\ closed' = Written(closed, job[t].closed, [l \in S |-> Null], S)
    /\ links' = [i \in DOMAIN links \ DOMAIN ks |-> links[i]]
    /\ \A i \in DOMAIN links' : links'[i].group \notin gone
    /\ groups' = groups \ gone
    /\ paid' = PaymentStates(S, Seen(new, S))
    /\ EndJob(t)
    /\ UNCHANGED <<state, made>>

(* _stamp_posted: a line without a residual gets its amount.                *)
FinishPost(t) ==
    LET S == job[t].lines
        e == job[t].entry
        read == job[t].residual
        new == [l \in S |-> IF read[l] = Null THEN Amount[l] ELSE read[l]]
    IN
    /\ job[t] # Null /\ job[t].op = "post"
    /\ state' = [state EXCEPT ![e] = "posted"]
    /\ residual' = Written(residual, read, new, S)
    /\ paid' = Written(paid, job[t].paid, [x \in Entry |-> PaymentStateOf(x, new)], {e})
    /\ EndJob(t)
    /\ UNCHANGED <<closed, links, groups, made>>

(* reset_to_draft and cancel_entry: the residuals are released.             *)
FinishRelease(t, op, st) ==
    LET e == job[t].entry
        S == job[t].lines
    IN
    /\ job[t] # Null /\ job[t].op = op
    /\ state' = Written(state, job[t].state, [x \in {e} |-> st], {e})
    /\ residual' = Written(residual, job[t].residual, [l \in S |-> Null], S)
    /\ paid' = Written(paid, job[t].paid, [x \in Entry |-> Null], {e})
    /\ EndJob(t)
    /\ UNCHANGED <<closed, links, groups, made>>

(* An exception before the commit.                                          *)
Fail(t) == job[t] # Null /\ EndJob(t) /\ UNCHANGED rows

-----------------------------------------------------------------------------
ReconcileInit ==
    /\ state = [e \in Entry |-> "draft"]
    /\ residual = [l \in Line |-> Null]
    /\ closed = [l \in Line |-> Null]
    /\ paid = [e \in Entry |-> Null]
    /\ links = [i \in {} |-> Null] /\ groups = {}
    /\ made = [links |-> 0, groups |-> 0]
    /\ job = [t \in Txn |-> Null]

Start(t) ==
    \/ \E S \in SUBSET Line : StartReconcile(t, S) \/ StartUndoLines(t, S)
    \/ StartAutoReconcile(t)
    \/ \E g \in groups : StartUndoGroup(t, g)
    \/ \E e \in Entry : StartPost(t, e) \/ StartReset(t, e) \/ StartCancelEntry(t, e)

Finish(t) ==
    \/ FinishReconcile(t) \/ FinishUndo(t) \/ FinishPost(t)
    \/ FinishRelease(t, "reset", "draft") \/ FinishRelease(t, "cancel", "cancelled")

ReconcileNext == \E t \in Txn : Start(t) \/ Finish(t) \/ Fail(t)

ReconcileSpec == ReconcileInit /\ [][ReconcileNext]_reconcileVars

-----------------------------------------------------------------------------
Link == [debit : Line, credit : Line, amount : Nat \ {0}, group : Nat \cup {Null}]

(* The type invariant: what is left may have any sign, and a line or a link *)
(* names a group only while that row of full_reconcile exists.              *)
ReconcileTypeOK ==
    /\ state \in [Entry -> {"draft", "posted", "cancelled"}]
    /\ residual \in [Line -> Int \cup {Null}]
    /\ closed \in [Line -> groups \cup {Null}]
    /\ paid \in [Entry -> {"not_paid", "partial", "paid", Null}]
    /\ DOMAIN links \subseteq 1..made.links
    /\ \A i \in DOMAIN links : links[i] \in Link /\ links[i].group \in groups \cup {Null}
    /\ made \in [links : Nat, groups : Nat] /\ groups \subseteq Nat
    /\ job = [t \in Txn |-> job[t]]

(* "amount_residual: what is left, with its sign": a posted line has left   *)
(* its amount less what its links say was paid.                             *)
ResidualIsWhatIsLeft ==
    \A l \in Line : residual[l] # Null => residual[l] = Amount[l] - Taken(links, l)

(* A line is closed in a group only when nothing is left of it.             *)
ClosedIsZero == \A l \in Line : closed[l] # Null => Left(residual, l) = 0

(* "An entry whose lines are matched does not go back to draft and is not   *)
(* cancelled before the match is undone."                                   *)
MatchedStaysPosted ==
    \A i \in DOMAIN links : \A l \in Ends(links[i]) : state[EntryOf[l]] = "posted"

(* payment_state is what the residuals of the entry's lines say.            *)
PaymentStateFollows ==
    \A e \in Entry : state[e] = "posted" => paid[e] = PaymentStateOf(e, residual)

(* However requests race, a debit line never comes to owe, nor a credit     *)
(* line to claim: reconcile never takes more of a line than it read.        *)
ResidualOnItsSide ==
    \A l \in Line : residual[l] # Null =>
        IF Amount[l] > 0 THEN residual[l] >= 0 ELSE residual[l] =< 0

(* reconcile goes on until one side is used up, and spends it on the lines  *)
(* that mature first.                                                       *)
OldestFirst ==
    [][\A t \in Txn : FinishReconcile(t) =>
          LET S == job[t].lines
              was == job[t].residual
              now == Matched(S, was).left
              earlier(a, b) == Due[a] < Due[b] \/ (Due[a] = Due[b] /\ a < b)
          IN  /\ \A a, b \in S : ~ (now[a] > 0 /\ now[b] < 0)
              /\ \A a, b \in S :
                    was[a] * was[b] > 0 /\ earlier(a, b) /\ now[b] # was[b] => now[a] = 0
      ]_reconcileVars
=============================================================================
