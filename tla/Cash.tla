-------------------------------- MODULE Cash --------------------------------
(***************************************************************************)
(* Cash vouchers, cheques and the boxes money is kept in (src/backend/src: *)
(* services/voucher_service.py, cheque_service.py, treasury_service.py,    *)
(* cash_box_service.py, api/vouchers.py, api/cheques.py).                  *)
(*                                                                         *)
(* A receipt takes money from a party into a box, a payment gives it out,  *)
(* a transfer moves it between boxes; each is a row of voucher with one    *)
(* ledger entry.  Expenses, withdrawals and deposits of partners are       *)
(* payments and receipts, a representative's handover is a transfer.  A    *)
(* cheque waits in a holding account until it is settled.                  *)
(*                                                                         *)
(* A request that gives money out, or that decides about a cheque, reads   *)
(* the balance or the status without a lock and posts later; the others    *)
(* run at one instant.                                                     *)
(***************************************************************************)
EXTENDS Integers, FiniteSets, Functions, NullValue

CONSTANTS
    Voucher, Incoming, Outgoing,  \* vouchers, and cheques by direction
    Treasury, RepBox,             \* boxes of the company and of representatives
    OldestTreasury,
    Party,                        \* customers, suppliers, expense accounts
    Clerk,                        \* concurrent requests
    Amount

ASSUME AmountAssumption == Amount \subseteq Nat \ {0}
ASSUME CashFinite == IsFiniteSet(Voucher) /\ IsFiniteSet(Incoming) /\ IsFiniteSet(Outgoing)
ASSUME BoxAssumption ==
    /\ OldestTreasury \in Treasury
    /\ (Treasury \cup RepBox) \cap (Party \cup {"collection", "payable"}) = {}

VARIABLES
    voucher,   \* rows of voucher: accounts from and to, amount, voucher reversed
    numbered,  \* the vouchers ever made
    cheque,    \* rows of cheque
    shown,     \* the boxes that are active
    main,      \* and those marked as the default
    balance,   \* of each account, the sum of its ledger lines
    request    \* what a request under way has decided to do

cashVars == <<voucher, numbered, cheque, shown, main, balance, request>>

Box == Treasury \cup RepBox
Cheque == Incoming \cup Outgoing
Holding(c) == IF c \in Incoming THEN "collection" ELSE "payable"
Account == Box \cup Party \cup {"collection", "payable"}

VoucherRow == [from : Account, to : Account, n : Amount, reverses : Voucher \cup {Null}]

ChequeRow ==
    [status : {"pending", "settled", "bounced", "cancelled"}, n : Amount, party : Party,
     box : Box \cup {Null}, voided : BOOLEAN]

ASSUME CashNull == Null \notin VoucherRow \cup ChequeRow \cup Voucher

Post(bal, from, to, n) == [[bal EXCEPT ![from] = @ - n] EXCEPT ![to] = @ + n]

(* A box is named and active, or it is the default one.  When no default is *)
(* active the oldest treasury is made one.                                  *)
Found(b, adopt) ==
    IF adopt THEN main \cap shown = {} /\ b = OldestTreasury ELSE b \in shown

MainAfter(adopt) == IF adopt THEN main \cup {OldestTreasury} ELSE main

-----------------------------------------------------------------------------
Row(from, to, n) == [from |-> from, to |-> to, n |-> n, reverses |-> Null]

Receipt(v, b, p, n, adopt) ==
    /\ v \notin numbered /\ Found(b, adopt)
    /\ numbered' = numbered \cup {v}
    /\ voucher' = [voucher EXCEPT ![v] = Row(p, b, n)]
    /\ balance' = Post(balance, p, b, n)
    /\ main' = MainAfter(adopt)
    /\ UNCHANGED <<cheque, shown, request>>

Mirrors(v) == {m \in Voucher : voucher[m] # Null /\ voucher[m].reverses = v}

Editable(v) == voucher[v] # Null /\ voucher[v].reverses = Null /\ Mirrors(v) = {}

(* The old entry is dropped, then the voucher made anew under its number.   *)
Edit(v, b, p, n, adopt) ==
    LET old == voucher[v]
        bal == Post(balance, old.to, old.from, old.n)
    IN
    /\ Editable(v) /\ Found(b, adopt) /\ {old.from, old.to} \cap Party # {}
    /\ IF old.from \in Party
       THEN /\ voucher' = [voucher EXCEPT ![v] = Row(p, b, n)]
            /\ balance' = Post(bal, p, b, n)
       ELSE /\ n =< bal[b]
            /\ voucher' = [voucher EXCEPT ![v] = Row(b, p, n)]
            /\ balance' = Post(bal, b, p, n)
    /\ main' = MainAfter(adopt)
    /\ UNCHANGED <<numbered, cheque, shown, request>>

(* Neither a reversal nor a deletion looks at what is left in the box.      *)
Reverse(v, m) ==
    LET old == voucher[v] IN
    /\ Editable(v) /\ m \notin numbered
    /\ numbered' = numbered \cup {m}
    /\ voucher' = [voucher EXCEPT ![m] =
                      [from |-> old.to, to |-> old.from, n |-> old.n, reverses |-> v]]
    /\ balance' = Post(balance, old.to, old.from, old.n)
    /\ UNCHANGED <<cheque, shown, main, request>>

(* Wrong on purpose: the reversal of a deleted voucher loses its row, not   *)
(* its entry.                                                               *)
DroppedWithout(V) ==
    LET v == CHOOSE w \in V : voucher[w].reverses \notin V
    IN  Post(balance, voucher[v].to, voucher[v].from, voucher[v].n)

(* What the entry of a voucher brought to an account.                       *)
Brought(v, a) ==
    (IF voucher[v].to = a THEN voucher[v].n ELSE 0)
    - (IF voucher[v].from = a THEN voucher[v].n ELSE 0)

Dropped(V) ==
    [a \in Account |-> balance[a] - SumFunctionOnSet([v \in V |-> Brought(v, a)], V)]

DeleteVoucher(v) ==
    LET V == {v} \cup Mirrors(v) IN
    /\ voucher[v] # Null
    /\ balance' = Dropped(V)
    /\ voucher' = [w \in Voucher |-> IF w \in V THEN Null ELSE voucher[w]]
    /\ UNCHANGED <<numbered, cheque, shown, main, request>>

Register(c, p, n) ==
    /\ cheque[c] = Null
    /\ cheque' = [cheque EXCEPT ![c] = [status |-> "pending", n |-> n, party |-> p, box |-> Null,
                                         voided |-> FALSE]]
    /\ balance' = IF c \in Incoming THEN Post(balance, p, Holding(c), n)
                                    ELSE Post(balance, Holding(c), p, n)
    /\ UNCHANGED <<voucher, numbered, shown, main, request>>

-----------------------------------------------------------------------------
(* Boxes. *)

Hide(b) ==
    /\ b \notin main /\ balance[b] = 0
    /\ shown' = shown \ {b}
    /\ UNCHANGED <<voucher, numbered, cheque, main, balance, request>>

Show(b) ==
    /\ shown' = shown \cup {b}
    /\ UNCHANGED <<voucher, numbered, cheque, main, balance, request>>

(* A hidden box may be made the default.                                    *)
MakeMain(b) ==
    /\ main' = {b}
    /\ UNCHANGED <<voucher, numbered, cheque, shown, balance, request>>

-----------------------------------------------------------------------------
(* Requests that check first and post later. *)

Requests ==
    [op : {"pay"}, v : Voucher, box : Box, to : Party \cup Box, n : Amount, adopt : BOOLEAN]
    \cup [op : {"settle"}, c : Cheque, box : Box, adopt : BOOLEAN]
    \cup [op : {"bounce"}, c : Incoming]
    \cup [op : {"cancel"}, c : Cheque]

(* Wrong on purpose: money given out is not compared with the box.          *)
CoveredAlways(b, n) == TRUE

Covered(b, n) == n =< balance[b]

StatusAllows(c) == cheque[c] # Null /\ cheque[c].status = "pending"

(* Any box may be the source of a transfer, only an active one pays a party *)
(* or receives.                                                             *)
Allowed(o) ==
    IF o.op = "pay"
    THEN /\ o.v \notin numbered /\ o.to # o.box
         /\ Covered(o.box, o.n)
         /\ IF o.to \in Party THEN Found(o.box, o.adopt) ELSE o.to \in shown /\ ~ o.adopt
    ELSE /\ StatusAllows(o.c)
         /\ o.op = "settle" =>
               Found(o.box, o.adopt) /\ (o.c \in Outgoing => Covered(o.box, cheque[o.c].n))

Ask(r, o) ==
    /\ request[r] = Null /\ Allowed(o)
    /\ request' = [request EXCEPT ![r] = o]
    /\ UNCHANGED <<voucher, numbered, cheque, shown, main, balance>>

Doing(r, ops) ==
    /\ request[r] # Null /\ request[r].op \in ops
    /\ request' = [request EXCEPT ![r] = Null]
    /\ UNCHANGED shown

Pay(r) ==
    LET o == request[r] IN
    /\ Doing(r, {"pay"})
    /\ o.v \notin numbered
    /\ numbered' = numbered \cup {o.v}
    /\ voucher' = [voucher EXCEPT ![o.v] = Row(o.box, o.to, o.n)]
    /\ balance' = Post(balance, o.box, o.to, o.n)
    /\ main' = MainAfter(o.adopt)
    /\ UNCHANGED cheque

(* An entry takes a cheque's value from one account to another, in the      *)
(* direction of the cheque.                                                 *)
Shifted(c, from, to) ==
    LET n == cheque[c].n
    IN  IF c \in Incoming THEN Post(balance, from, to, n) ELSE Post(balance, to, from, n)

Decide(r, op, from, to, status, b) ==
    LET c == request[r].c IN
    /\ Doing(r, {op})
    /\ cheque' = [cheque EXCEPT ![c].status = status, ![c].box = b]
    /\ balance' = Shifted(c, from, to)
    /\ UNCHANGED <<voucher, numbered>>

Settle(r) ==
    LET o == request[r] IN
    /\ Decide(r, "settle", Holding(o.c), o.box, "settled", o.box)
    /\ main' = MainAfter(o.adopt)

Bounce(r) ==
    LET o == request[r] IN
    /\ Decide(r, "bounce", Holding(o.c), cheque[o.c].party, "bounced", cheque[o.c].box)
    /\ UNCHANGED main

(* Reverses the entry of the registration, which can be done once.          *)
Cancel(r) ==
    LET c == request[r].c IN
    /\ Doing(r, {"cancel"})
    /\ ~ cheque[c].voided
    /\ cheque' = [cheque EXCEPT ![c].status = "cancelled", ![c].voided = TRUE]
    /\ balance' = Shifted(c, Holding(c), cheque[c].party)
    /\ UNCHANGED <<voucher, numbered, main>>

(* Reverses the entry of the last settlement, at one instant; the next one  *)
(* may name any box.                                                        *)
Unsettle(c) ==
    /\ cheque[c] # Null /\ cheque[c].status = "settled"
    /\ cheque' = [cheque EXCEPT ![c].status = "pending", ![c].box = Null]
    /\ balance' = Shifted(c, cheque[c].box, Holding(c))
    /\ UNCHANGED <<voucher, numbered, shown, main, request>>

Refuse(r) ==
    /\ Doing(r, {"pay", "settle", "bounce", "cancel"})
    /\ UNCHANGED <<voucher, numbered, cheque, main, balance>>

-----------------------------------------------------------------------------
CashInit ==
    /\ voucher = [v \in Voucher |-> Null] /\ numbered = {}
    /\ cheque = [c \in Cheque |-> Null]
    /\ shown = Box /\ main = {OldestTreasury}
    /\ balance = [a \in Account |-> 0]
    /\ request = [r \in Clerk |-> Null]

CashNext ==
    \/ \E v \in Voucher, b \in Box, p \in Party, n \in Amount, adopt \in BOOLEAN :
          Receipt(v, b, p, n, adopt) \/ Edit(v, b, p, n, adopt)
    \/ \E v, m \in Voucher : Reverse(v, m)
    \/ \E v \in Voucher : DeleteVoucher(v)
    \/ \E c \in Cheque, p \in Party, n \in Amount : Register(c, p, n)
    \/ \E c \in Cheque : Unsettle(c)
    \/ \E b \in Treasury : Hide(b) \/ Show(b) \/ MakeMain(b)
    \/ \E r \in Clerk :
          \/ \E o \in Requests : Ask(r, o)
          \/ Pay(r) \/ Settle(r) \/ Bounce(r) \/ Cancel(r) \/ Refuse(r)

CashSpec == CashInit /\ [][CashNext]_cashVars

(* A request that has checked goes on to post, with nothing in between.     *)
Uninterrupted == \A r \in Clerk : request[r] # Null => request'[r] # request[r]

(* No two requests under way are about the same cheque.                     *)
NoTwoDecide ==
    \A r, q \in Clerk :
        /\ r # q /\ request[r] # Null /\ request[q] # Null
        /\ request[r].op # "pay" /\ request[q].op # "pay"
        => request[r].c # request[q].c

-----------------------------------------------------------------------------
CashTypeOK ==
    /\ voucher \in [Voucher -> VoucherRow \cup {Null}]
    /\ numbered \subseteq Voucher /\ \A v \in Voucher : voucher[v] # Null => v \in numbered
    /\ cheque \in [Cheque -> ChequeRow \cup {Null}]
    /\ \A c \in Cheque : cheque[c] # Null =>
          (cheque[c].status = "settled" => cheque[c].box \in Box)
    /\ main \subseteq Treasury /\ shown \subseteq Box /\ balance \in [Account -> Int]
    /\ request \in [Clerk -> Requests \cup {Null}]

(* Where a cheque's value is.                                               *)
Place(c) ==
    CASE cheque[c].status = "pending" -> Holding(c)
      [] cheque[c].status = "settled" -> cheque[c].box
      [] OTHER -> cheque[c].party

Worth(c, a) ==
    LET sign == IF c \in Incoming THEN cheque[c].n ELSE - cheque[c].n
    IN  (IF Place(c) = a THEN sign ELSE 0) - (IF cheque[c].party = a THEN sign ELSE 0)

Rows == {v \in Voucher : voucher[v] # Null}
Registered == {c \in Cheque : cheque[c] # Null}

(* The balance of every account is what the documents that exist say: the   *)
(* vouchers, with their reversals, and the cheques by their status.         *)
BooksExplained ==
    \A a \in Account :
        balance[a] = SumFunctionOnSet([v \in Rows |-> Brought(v, a)], Rows)
                     + SumFunctionOnSet([c \in Registered |-> Worth(c, a)], Registered)

(* A reversal is the exact opposite of a voucher that is still there.       *)
MirrorIsOpposite ==
    \A m \in Rows : voucher[m].reverses # Null =>
        LET v == voucher[m].reverses IN
        /\ v \in Rows /\ voucher[m].n = voucher[v].n
        /\ voucher[m].from = voucher[v].to /\ voucher[m].to = voucher[v].from

(* The books hold exactly what the live documents posted, and a voucher that*)
(* was reversed has its mirror (voucher_service.py: reverse_voucher;        *)
(* cheque_service.py).                                                      *)
CashAddsUp == CashTypeOK /\ BooksExplained /\ MirrorIsOpposite

(* A box only goes below zero because money it had received is taken back.  *)
OverdrawnByUndoing ==
    \A b \in Box : balance'[b] < 0 /\ balance'[b] < balance[b] =>
        \/ \E v \in Rows : voucher[v].to = b /\ (voucher'[v] # voucher[v] \/ Mirrors(v)' # Mirrors(v))
        \/ \E c \in Incoming \cap Registered :
              cheque[c].status = "settled" /\ cheque[c].box = b /\ cheque'[c] # cheque[c]

(* A box goes below zero only when money it had received is taken back      *)
(* (voucher_service.py: _assert_cash_available).                            *)
Overdrawn == [][OverdrawnByUndoing]_cashVars
=============================================================================
