----------------------------- MODULE MoneyProofs -----------------------------
(***************************************************************************)
(* Theorems about Cash, Journal and Fleet, for any number of vouchers,     *)
(* cheques, boxes, clerks, entries, vehicles and drivers.                  *)
(***************************************************************************)
EXTENDS MCMoney, FiniteTheorems, TLAPS

(* What a movement of n between two accounts brings to an account.          *)
Into(from, to, n, a) == (IF to = a THEN n ELSE 0) - (IF from = a THEN n ELSE 0)

LEMMA PostParts ==
  ASSUME NEW bal \in [Account -> Int], NEW from \in Account, NEW to \in Account, NEW n \in Int
  PROVE  /\ Post(bal, from, to, n) \in [Account -> Int]
         /\ \A a \in Account : Post(bal, from, to, n)[a] = bal[a] + Into(from, to, n, a)
<1>1. CASE from = to
  <2>1. bal[from] - n + n = bal[from] /\ n - n = 0
    OBVIOUS
  <2>2. Post(bal, from, to, n) = bal
    BY <1>1, <2>1 DEF Post
  <2>3. \A a \in Account : Into(from, to, n, a) = 0
    BY <1>1, <2>1 DEF Into
  <2> QED
    BY <2>2, <2>3
<1>2. CASE from # to
  BY <1>2 DEF Post, Into
<1> QED
  BY <1>1, <1>2

(* A request carries what its kind needs.                                   *)
LEMMA RequestParts ==
  ASSUME NEW o \in Requests
  PROVE  /\ o.op \in {"pay", "settle", "bounce", "cancel"}
         /\ o.op = "pay" => /\ o.v \in Voucher /\ o.box \in Box /\ o.to \in Party \cup Box
                            /\ o.n \in Amount
         /\ o.op = "settle" => o.c \in Cheque /\ o.box \in Box
         /\ o.op = "bounce" => o.c \in Incoming
         /\ o.op = "cancel" => o.c \in Cheque
BY DEF Requests

(* A request about a cheque is about one that is registered.                *)
AboutRegistered ==
    \A r \in Clerk : request[r] # Null /\ request[r].op # "pay" =>
        request[r].c \in Cheque /\ cheque[request[r].c] # Null

LEMMA CashInitType == CashInit => CashTypeOK /\ AboutRegistered
BY BoxAssumption DEF CashInit, CashTypeOK, AboutRegistered, Box

LEMMA CashFacts ==
  /\ Box \subseteq Account /\ Party \subseteq Account /\ \A c : Holding(c) \in Account
  /\ Amount \subseteq Int /\ \A adopt : main \subseteq Treasury => MainAfter(adopt) \subseteq Treasury
  /\ Null \notin VoucherRow /\ Null \notin ChequeRow /\ Null \notin Voucher
  /\ \A n \in Amount : n \in Nat /\ n > 0
  /\ Incoming \subseteq Cheque
BY BoxAssumption, AmountAssumption, CashNull DEF Account, Holding, MainAfter, Cheque

LEMMA VoucherRowParts ==
  /\ \A row \in VoucherRow : row.from \in Account /\ row.to \in Account /\ row.n \in Amount
                             /\ row.reverses \in Voucher \cup {Null}
  /\ \A from, to \in Account, n \in Amount, v \in Voucher \cup {Null} :
        [from |-> from, to |-> to, n |-> n, reverses |-> v] \in VoucherRow
BY DEF VoucherRow

LEMMA ChequeRowParts ==
  /\ \A row \in ChequeRow : /\ row.n \in Amount /\ row.party \in Party /\ row.box \in Box \cup {Null}
                            /\ row.status \in {"pending", "settled", "bounced", "cancelled"}
                            /\ row.voided \in BOOLEAN
  /\ \A row \in ChequeRow, b \in Box \cup {Null},
        s \in {"pending", "settled", "bounced", "cancelled"} :
        /\ [row EXCEPT !.status = s, !.box = b] \in ChequeRow
        /\ [row EXCEPT !.status = s, !.voided = TRUE] \in ChequeRow
<1> DEFINE States == {"pending", "settled", "bounced", "cancelled"}
           Boxes == Box \cup {Null}
<1>1. ChequeRow = [status : States, n : Amount, party : Party, box : Boxes, voided : BOOLEAN]
  BY DEF ChequeRow
<1>2. TRUE \in BOOLEAN
  OBVIOUS
<1> HIDE DEF States, Boxes
<1>3. \A row \in ChequeRow : /\ row.n \in Amount /\ row.party \in Party /\ row.box \in Boxes
                             /\ row.status \in States /\ row.voided \in BOOLEAN
  BY <1>1
<1>4. \A row \in ChequeRow, b \in Boxes, s \in States : [row EXCEPT !.status = s, !.box = b] \in ChequeRow
  BY <1>1
<1>5. \A row \in ChequeRow, s \in States : [row EXCEPT !.status = s, !.voided = TRUE] \in ChequeRow
  BY <1>1, <1>2
<1> QED
  BY <1>3, <1>4, <1>5 DEF States, Boxes

(* What an update of a row keeps and sets.                                  *)
Boxed(row, s, b) == [row EXCEPT !.status = s, !.box = b]
Voided(row, s) == [row EXCEPT !.status = s, !.voided = TRUE]

LEMMA BoxUpdate ==
  ASSUME NEW row \in ChequeRow, NEW b \in Box \cup {Null},
         NEW s \in {"pending", "settled", "bounced", "cancelled"}
  PROVE  /\ Boxed(row, s, b) \in ChequeRow
         /\ Boxed(row, s, b).status = s /\ Boxed(row, s, b).box = b
         /\ Boxed(row, s, b).n = row.n /\ Boxed(row, s, b).party = row.party
<1>1. Boxed(row, s, b) \in ChequeRow
  BY ChequeRowParts DEF Boxed
<1> QED
  BY <1>1 DEF ChequeRow, Boxed

LEMMA VoidUpdate ==
  ASSUME NEW row \in ChequeRow,
         NEW s \in {"pending", "settled", "bounced", "cancelled"}
  PROVE  /\ Voided(row, s) \in ChequeRow
         /\ Voided(row, s).status = s /\ Voided(row, s).box = row.box
         /\ Voided(row, s).n = row.n /\ Voided(row, s).party = row.party
<1>1. Voided(row, s) \in ChequeRow
  <2>1. Null \in Box \cup {Null}
    OBVIOUS
  <2> QED
    BY <2>1, ChequeRowParts DEF Voided
<1> QED
  BY <1>1 DEF ChequeRow, Voided

(* A cheque's row is replaced.                                              *)
LEMMA ChequeTyped ==
  ASSUME CashTypeOK, AboutRegistered, NEW c \in Cheque, NEW row \in ChequeRow,
         row.status = "settled" => row.box \in Box, cheque' = [cheque EXCEPT ![c] = row],
         balance' \in [Account -> Int], UNCHANGED <<voucher, numbered, shown>>,
         main' \subseteq Treasury, request' \in [Clerk -> Requests \cup {Null}],
         \A r \in Clerk : request'[r] # Null => request'[r] = request[r]
  PROVE  CashTypeOK' /\ AboutRegistered'
<1>1. row # Null
  BY CashFacts
<1>2. cheque' \in [Cheque -> ChequeRow \cup {Null}]
  BY DEF CashTypeOK
<1>3. \A d \in Cheque : cheque'[d] # Null /\ cheque'[d].status = "settled" => cheque'[d].box \in Box
  BY DEF CashTypeOK
<1>4. AboutRegistered'
  BY <1>1 DEF AboutRegistered, CashTypeOK
<1> QED
  BY <1>2, <1>3, <1>4 DEF CashTypeOK

LEMMA ShiftedType ==
  ASSUME CashTypeOK, NEW c \in Cheque, cheque[c] # Null, NEW from \in Account, NEW to \in Account
  PROVE  Shifted(c, from, to) \in [Account -> Int]
<1>1. cheque[c].n \in Int
  BY CashFacts, ChequeRowParts DEF CashTypeOK
<1>2. balance \in [Account -> Int]
  BY DEF CashTypeOK
<1> QED
  BY <1>1, <1>2, PostParts DEF Shifted

LEMMA BoxedAs ==
  ASSUME NEW c, cheque[c] \in ChequeRow, NEW b \in Box \cup {Null},
         NEW s \in {"pending", "settled", "bounced", "cancelled"}
  PROVE  LET row == Boxed(cheque[c], s, b)
         IN  row \in ChequeRow /\ row.status = s /\ row.box = b
BY BoxUpdate

(* A decision gives the row its state.                                      *)
LEMMA DecisionTyped ==
  ASSUME CashTypeOK, AboutRegistered, NEW r \in Clerk, NEW c \in Cheque, cheque[c] # Null,
         NEW s \in {"settled", "bounced", "cancelled"}, NEW b \in Box \cup {Null},
         s = "settled" => b \in Box,
         cheque' = [cheque EXCEPT ![c].status = s, ![c].box = b]
         \/ (cheque' = [cheque EXCEPT ![c].status = s, ![c].voided = TRUE] /\ s # "settled"),
         NEW from \in Account, NEW to \in Account, balance' = Shifted(c, from, to),
         request' = [request EXCEPT ![r] = Null],
         UNCHANGED <<voucher, numbered, shown>>, main' \subseteq Treasury
  PROVE  CashTypeOK' /\ AboutRegistered'
<1>1. cheque[c] \in ChequeRow /\ s \in {"pending", "settled", "bounced", "cancelled"}
  BY DEF CashTypeOK
<1> DEFINE row1 == Boxed(cheque[c], s, b)
           row2 == Voided(cheque[c], s)
<1>2. cheque' = [cheque EXCEPT ![c] = row1] \/ (cheque' = [cheque EXCEPT ![c] = row2] /\ s # "settled")
  BY DEF Boxed, Voided, CashTypeOK
<1>3. balance' \in [Account -> Int]
  BY ShiftedType
<1>4. /\ request' \in [Clerk -> Requests \cup {Null}]
      /\ \A q \in Clerk : request'[q] # Null => request'[q] = request[q]
  BY DEF CashTypeOK
<1>5. row1 \in ChequeRow /\ row1.status = s /\ row1.box = b
  BY <1>1, BoxedAs
<1>6. row2 \in ChequeRow /\ row2.status = s
  BY <1>1, VoidUpdate
<1> HIDE DEF row1, row2
<1> QED
  BY <1>2, <1>3, <1>4, <1>5, <1>6, ChequeTyped

(* The type is kept by every step.                                          *)
LEMMA CashTypeStep ==
  CashTypeOK /\ AboutRegistered /\ [CashNext]_cashVars => CashTypeOK' /\ AboutRegistered'
<1> SUFFICES ASSUME CashTypeOK, AboutRegistered, [CashNext]_cashVars
             PROVE  CashTypeOK' /\ AboutRegistered'
  OBVIOUS
<1> USE DEF CashTypeOK, AboutRegistered
<1> USE CashFacts, CashNull
<1>1. CASE UNCHANGED cashVars
  BY <1>1 DEF cashVars
<1>2. ASSUME NEW bal \in [Account -> Int], NEW from \in Account, NEW to \in Account, NEW n \in Amount
      PROVE  Post(bal, from, to, n) \in [Account -> Int]
  BY PostParts
<1>3. ASSUME NEW from \in Account, NEW to \in Account, NEW n \in Amount
      PROVE  Row(from, to, n) \in VoucherRow
  BY VoucherRowParts DEF Row
<1>4. ASSUME NEW c \in Cheque, cheque[c] # Null, NEW from \in Account, NEW to \in Account
      PROVE  Shifted(c, from, to) \in [Account -> Int]
  BY <1>2, <1>4, ChequeRowParts DEF Shifted
<1>5. ASSUME NEW v \in Voucher, NEW b \in Box, NEW p \in Party, NEW n \in Amount,
             NEW adopt \in BOOLEAN, Receipt(v, b, p, n, adopt)
      PROVE  CashTypeOK' /\ AboutRegistered'
  BY <1>2, <1>3, <1>5 DEF Receipt
<1>6. ASSUME NEW v \in Voucher, NEW b \in Box, NEW p \in Party, NEW n \in Amount,
             NEW adopt \in BOOLEAN, Edit(v, b, p, n, adopt)
      PROVE  CashTypeOK' /\ AboutRegistered'
  <2>1. voucher[v] \in VoucherRow
    BY <1>6 DEF Edit, Editable
  <2>2. Post(balance, voucher[v].to, voucher[v].from, voucher[v].n) \in [Account -> Int]
    BY <2>1, <1>2, VoucherRowParts
  <2> DEFINE bal == Post(balance, voucher[v].to, voucher[v].from, voucher[v].n)
  <2>5. balance' = Post(bal, p, b, n) \/ balance' = Post(bal, b, p, n)
    BY <1>6 DEF Edit
  <2> HIDE DEF bal
  <2>6. bal \in [Account -> Int]
    BY <2>2 DEF bal
  <2>3. balance' \in [Account -> Int]
    <3>1. p \in Account /\ b \in Account
      BY CashFacts
    <3> QED
      BY <2>5, <2>6, <1>2, <3>1
  <2>4. voucher' \in [Voucher -> VoucherRow \cup {Null}] /\ v \in numbered
    BY <1>6, <1>3, <2>1 DEF Edit
  <2> QED
    BY <1>6, <2>3, <2>4 DEF Edit
<1>7. ASSUME NEW v \in Voucher, NEW m \in Voucher, Reverse(v, m)
      PROVE  CashTypeOK' /\ AboutRegistered'
  <2>1. voucher[v] \in VoucherRow
    BY <1>7 DEF Reverse, Editable
  <2> QED
    BY <1>7, <2>1, <1>2, VoucherRowParts DEF Reverse
<1>8. ASSUME NEW v \in Voucher, DeleteVoucher(v)
      PROVE  CashTypeOK' /\ AboutRegistered'
  <2>1. ASSUME NEW a \in Account PROVE Dropped({v} \cup Mirrors(v))[a] \in Int
    <3> DEFINE V == {v} \cup Mirrors(v)
    <3>1. IsFiniteSet(V) /\ \A w \in V : voucher[w] \in VoucherRow
      BY <1>8, CashFinite, FS_Subset DEF Mirrors, DeleteVoucher
    <3>2. \A w \in V : Brought(w, a) \in Int
      <4> TAKE w \in V
      <4>1. voucher[w].n \in Int
        BY <3>1, VoucherRowParts
      <4> QED
        BY <4>1 DEF Brought
    <3> DEFINE f == [w \in V |-> Brought(w, a)]
    <3>3. SumFunctionOnSet(f, V) \in Int
      BY <3>1, <3>2, SumInt
    <3> QED
      BY <3>3 DEF Dropped
  <2>2. balance' \in [Account -> Int]
    BY <1>8, <2>1 DEF DeleteVoucher, Dropped
  <2> QED
    BY <1>8, <2>2 DEF DeleteVoucher
<1>9. ASSUME NEW c \in Cheque, NEW p \in Party, NEW n \in Amount, Register(c, p, n)
      PROVE  CashTypeOK' /\ AboutRegistered'
  <2>1. balance' \in [Account -> Int]
    BY <1>9, <1>2 DEF Register
  <2> DEFINE row == [status |-> "pending", n |-> n, party |-> p, box |-> Null, voided |-> FALSE]
  <2>2. row \in ChequeRow /\ row.status = "pending"
    BY DEF ChequeRow
  <2>3. cheque' = [cheque EXCEPT ![c] = row]
    BY <1>9 DEF Register
  <2> HIDE DEF row
  <2> QED
    BY <1>9, <2>1, <2>2, <2>3, ChequeTyped DEF Register
<1>10. ASSUME NEW b \in Treasury, Hide(b) \/ Show(b) \/ MakeMain(b)
       PROVE  CashTypeOK' /\ AboutRegistered'
  BY <1>10 DEF Hide, Show, MakeMain, Box
<1>11. ASSUME NEW r \in Clerk, NEW o \in Requests, Ask(r, o)
       PROVE  CashTypeOK' /\ AboutRegistered'
  BY <1>11, RequestParts DEF Ask, Allowed, StatusAllows
<1>12. ASSUME NEW r \in Clerk, Pay(r)
       PROVE  CashTypeOK' /\ AboutRegistered'
  <2>1. request[r] \in Requests /\ request[r].op = "pay"
    BY <1>12 DEF Pay, Doing
  <2> QED
    BY <1>12, <2>1, <1>2, <1>3, RequestParts DEF Pay, Doing
<1>14. ASSUME NEW r \in Clerk, Settle(r) PROVE CashTypeOK' /\ AboutRegistered'
  <2> DEFINE c == request[r].c
             b == request[r].box
  <2>1. request[r] \in Requests /\ request[r].op = "settle" /\ request[r] # Null
    BY <1>14 DEF Settle, Decide, Doing
  <2>2. c \in Cheque /\ cheque[c] # Null /\ b \in Box
    BY <2>1, RequestParts
  <2>3. /\ cheque' = [cheque EXCEPT ![c].status = "settled", ![c].box = b]
        /\ balance' = Shifted(c, Holding(c), b) /\ request' = [request EXCEPT ![r] = Null]
        /\ UNCHANGED <<voucher, numbered, shown>> /\ main' \subseteq Treasury
    BY <1>14 DEF Settle, Decide, Doing
  <2>4. b \in Account /\ Holding(c) \in Account /\ b \in Box \cup {Null}
    BY <2>2
  <2> HIDE DEF c, b
  <2> QED
    BY <2>2, <2>3, <2>4, DecisionTyped
<1>15. ASSUME NEW r \in Clerk, Bounce(r) PROVE CashTypeOK' /\ AboutRegistered'
  <2> DEFINE c == request[r].c
             b == cheque[c].box
             p == cheque[c].party
  <2>1. request[r] \in Requests /\ request[r].op = "bounce" /\ request[r] # Null
    BY <1>15 DEF Bounce, Decide, Doing
  <2>2. c \in Cheque /\ cheque[c] # Null /\ cheque[c] \in ChequeRow
    BY <2>1
  <2>3. /\ cheque' = [cheque EXCEPT ![c].status = "bounced", ![c].box = b]
        /\ balance' = Shifted(c, Holding(c), p) /\ request' = [request EXCEPT ![r] = Null]
        /\ UNCHANGED <<voucher, numbered, shown>> /\ main' \subseteq Treasury
    BY <1>15 DEF Bounce, Decide, Doing
  <2>4. b \in Box \cup {Null} /\ p \in Account
    BY <2>2, ChequeRowParts
  <2> HIDE DEF c, b, p
  <2> QED
    BY <2>2, <2>3, <2>4, DecisionTyped
<1>16. ASSUME NEW r \in Clerk, Cancel(r) PROVE CashTypeOK' /\ AboutRegistered'
  <2> DEFINE c == request[r].c
             p == cheque[c].party
  <2>1. request[r] \in Requests /\ request[r].op = "cancel" /\ request[r] # Null
    BY <1>16 DEF Cancel, Doing
  <2>2. c \in Cheque /\ cheque[c] # Null /\ cheque[c] \in ChequeRow
    BY <2>1
  <2>3. /\ cheque' = [cheque EXCEPT ![c].status = "cancelled", ![c].voided = TRUE]
        /\ balance' = Shifted(c, Holding(c), p) /\ request' = [request EXCEPT ![r] = Null]
        /\ UNCHANGED <<voucher, numbered, shown>> /\ main' \subseteq Treasury
    BY <1>16 DEF Cancel, Doing
  <2>4. p \in Account
    BY <2>2, ChequeRowParts
  <2> HIDE DEF c, p
  <2> QED
    BY <2>2, <2>3, <2>4, DecisionTyped
<1>17. ASSUME NEW r \in Clerk, Refuse(r) PROVE CashTypeOK' /\ AboutRegistered'
  BY <1>17 DEF Refuse, Doing
<1>18. ASSUME NEW c \in Cheque, Unsettle(c) PROVE CashTypeOK' /\ AboutRegistered'
  <2>1. cheque[c] \in ChequeRow /\ cheque[c].box \in Box
    BY <1>18 DEF Unsettle
  <2>2. balance' \in [Account -> Int]
    BY <1>18, <2>1, <1>4 DEF Unsettle
  <2> DEFINE row == Boxed(cheque[c], "pending", Null)
  <2>4. cheque' = [cheque EXCEPT ![c] = row]
    BY <1>18 DEF Unsettle, Boxed
  <2>5. row \in ChequeRow /\ row.status = "pending"
    BY SMTT(30), <2>1, BoxUpdate
  <2> HIDE DEF row
  <2> QED
    BY <1>18, <2>2, <2>4, <2>5, ChequeTyped DEF Unsettle
<1> QED
  BY <1>1, <1>5, <1>6, <1>7, <1>8, <1>9, <1>10, <1>11, <1>12, <1>14, <1>15, <1>16, <1>17,
     <1>18 DEF CashNext
-----------------------------------------------------------------------------
(* What the documents say of an account, each with its row.                 *)
Bring(row, a) == IF row = Null THEN 0 ELSE Into(row.from, row.to, row.n, a)
Signed(c, n) == IF c \in Incoming THEN n ELSE - n
Seat(c, row) ==
    CASE row.status = "pending" -> Holding(c)
      [] row.status = "settled" -> row.box
      [] OTHER -> row.party
Bear(c, row, a) == IF row = Null THEN 0 ELSE Into(row.party, Seat(c, row), Signed(c, row.n), a)

VoucherRows == [Voucher -> VoucherRow \cup {Null}]
ChequeRows == [Cheque -> ChequeRow \cup {Null}]

VoucherSum(rows, a) == SumFunctionOnSet([v \in Voucher |-> Bring(rows[v], a)], Voucher)
ChequeSum(rows, a) == SumFunctionOnSet([c \in Cheque |-> Bear(c, rows[c], a)], Cheque)

LEMMA BringInt ==
  ASSUME NEW row \in VoucherRow \cup {Null}, NEW a PROVE Bring(row, a) \in Int
<1>1. row # Null => row.n \in Int
  BY CashFacts, VoucherRowParts
<1> QED
  BY <1>1 DEF Bring, Into

LEMMA BearInt ==
  ASSUME NEW c, NEW row \in ChequeRow \cup {Null}, NEW a PROVE Bear(c, row, a) \in Int
<1>1. row # Null => row.n \in Int
  BY CashFacts, ChequeRowParts
<1>2. row # Null => Signed(c, row.n) \in Int
  BY <1>1 DEF Signed
<1> QED
  BY <1>2 DEF Bear, Into

LEMMA VoucherSumChange ==
  ASSUME NEW rows \in VoucherRows, NEW v \in Voucher, NEW row \in VoucherRow \cup {Null}, NEW a
  PROVE  /\ VoucherSum(rows, a) \in Int
         /\ VoucherSum([rows EXCEPT ![v] = row], a)
              = VoucherSum(rows, a) + Bring(row, a) - Bring(rows[v], a)
<1> DEFINE f == [w \in Voucher |-> Bring(rows[w], a)]
           g == [w \in Voucher |-> Bring([rows EXCEPT ![v] = row][w], a)]
<1>1. \A w \in Voucher : rows[w] \in VoucherRow \cup {Null}
  BY DEF VoucherRows
<1>2. \A w \in Voucher : f[w] \in Int
  BY <1>1, BringInt
<1>3. g[v] = Bring(row, a) /\ f[v] = Bring(rows[v], a) /\ \A w \in Voucher \ {v} : g[w] = f[w]
  BY DEF VoucherRows
<1>4. g[v] \in Int
  BY <1>3, BringInt
<1>5. VoucherSum(rows, a) = SumFunctionOnSet(f, Voucher)
      /\ VoucherSum([rows EXCEPT ![v] = row], a) = SumFunctionOnSet(g, Voucher)
  BY DEF VoucherSum
<1> HIDE DEF f, g
<1>6. SumFunctionOnSet(g, Voucher) = SumFunctionOnSet(f, Voucher) + g[v] - f[v]
  BY <1>2, <1>3, <1>4, SumChange, CashFinite
<1>7. SumFunctionOnSet(f, Voucher) \in Int
  BY <1>2, SumInt, CashFinite
<1> QED
  BY <1>3, <1>5, <1>6, <1>7

LEMMA ChequeFinite == IsFiniteSet(Cheque)
BY CashFinite, FS_Union DEF Cheque

LEMMA ChequeSumChange ==
  ASSUME NEW rows \in ChequeRows, NEW c \in Cheque, NEW row \in ChequeRow \cup {Null}, NEW a
  PROVE  /\ ChequeSum(rows, a) \in Int
         /\ ChequeSum([rows EXCEPT ![c] = row], a)
              = ChequeSum(rows, a) + Bear(c, row, a) - Bear(c, rows[c], a)
<1> DEFINE f == [d \in Cheque |-> Bear(d, rows[d], a)]
           g == [d \in Cheque |-> Bear(d, [rows EXCEPT ![c] = row][d], a)]
<1>1. \A d \in Cheque : rows[d] \in ChequeRow \cup {Null}
  BY DEF ChequeRows
<1>2. \A d \in Cheque : f[d] \in Int
  BY <1>1, BearInt
<1>3. g[c] = Bear(c, row, a) /\ f[c] = Bear(c, rows[c], a) /\ \A d \in Cheque \ {c} : g[d] = f[d]
  BY DEF ChequeRows
<1>4. g[c] \in Int
  BY <1>3, BearInt
<1>5. ChequeSum(rows, a) = SumFunctionOnSet(f, Cheque)
      /\ ChequeSum([rows EXCEPT ![c] = row], a) = SumFunctionOnSet(g, Cheque)
  BY DEF ChequeSum
<1> HIDE DEF f, g
<1>6. SumFunctionOnSet(g, Cheque) = SumFunctionOnSet(f, Cheque) + g[c] - f[c]
  BY <1>2, <1>3, <1>4, SumChange, ChequeFinite
<1>7. SumFunctionOnSet(f, Cheque) \in Int
  BY <1>2, SumInt, ChequeFinite
<1> QED
  BY <1>3, <1>5, <1>6, <1>7

Explained == \A a \in Account : balance[a] = VoucherSum(voucher, a) + ChequeSum(cheque, a)

(* The sums over the rows there are, as sums over all there may be.         *)
LEMMA ExplainedMeans == CashTypeOK => (BooksExplained <=> Explained)
<1> SUFFICES ASSUME CashTypeOK, NEW a \in Account
             PROVE  /\ SumFunctionOnSet([v \in Rows |-> Brought(v, a)], Rows) = VoucherSum(voucher, a)
                    /\ SumFunctionOnSet([c \in Registered |-> Worth(c, a)], Registered)
                         = ChequeSum(cheque, a)
  BY DEF BooksExplained, Explained
<1>1. SumFunctionOnSet([v \in Rows |-> Brought(v, a)], Rows) = VoucherSum(voucher, a)
  <2> DEFINE f == [v \in Rows |-> Brought(v, a)]
             g == [v \in Voucher |-> IF v \in Rows THEN f[v] ELSE 0]
  <2>1. \A v \in Voucher : v \in Rows => Brought(v, a) = Bring(voucher[v], a)
    BY DEF Brought, Bring, Into, Rows
  <2>2. \A v \in Rows : f[v] \in Int
    BY <2>1, BringInt DEF Rows, CashTypeOK
  <2>3. g = [v \in Voucher |-> Bring(voucher[v], a)]
    BY <2>1 DEF Rows, Bring
  <2>4. Rows \in SUBSET Voucher
    BY DEF Rows
  <2>5. SumFunctionOnSet(f, Rows) = SumFunctionOnSet(g, Voucher)
    <3> HIDE DEF f
    <3> QED
      BY <2>2, <2>4, SumExtended, CashFinite
  <2> QED
    BY <2>3, <2>5 DEF VoucherSum
<1>2. SumFunctionOnSet([c \in Registered |-> Worth(c, a)], Registered) = ChequeSum(cheque, a)
  <2> DEFINE f == [c \in Registered |-> Worth(c, a)]
             g == [c \in Cheque |-> IF c \in Registered THEN f[c] ELSE 0]
  <2>1. \A c \in Cheque : c \in Registered => Worth(c, a) = Bear(c, cheque[c], a)
    BY DEF Worth, Place, Seat, Signed, Bear, Into, Registered
  <2>2. \A c \in Registered : f[c] \in Int
    BY <2>1, BearInt DEF Registered, CashTypeOK
  <2>3. g = [c \in Cheque |-> Bear(c, cheque[c], a)]
    BY <2>1 DEF Registered, Bear
  <2>4. Registered \in SUBSET Cheque
    BY DEF Registered
  <2>5. SumFunctionOnSet(f, Registered) = SumFunctionOnSet(g, Cheque)
    <3> HIDE DEF f
    <3> QED
      BY <2>2, <2>4, SumExtended, ChequeFinite
  <2> QED
    BY <2>3, <2>5 DEF ChequeSum
<1> QED
  BY <1>1, <1>2
-----------------------------------------------------------------------------
(* A request decides about a cheque that is still pending.                  *)
OnlyPending ==
    \A r \in Clerk : request[r] # Null /\ request[r].op # "pay" =>
        cheque[request[r].c].status = "pending"

LEMMA PendingStep ==
  CashTypeOK /\ AboutRegistered /\ OnlyPending /\ NoTwoDecide /\ [CashNext]_cashVars => OnlyPending'
<1> SUFFICES ASSUME CashTypeOK, AboutRegistered, OnlyPending, NoTwoDecide, [CashNext]_cashVars
             PROVE  OnlyPending'
  OBVIOUS
<1>1. ASSUME UNCHANGED cheque,
             \A q \in Clerk : request'[q] # Null => request'[q] = request[q]
      PROVE  OnlyPending'
  BY <1>1 DEF OnlyPending
<1>2. ASSUME NEW r \in Clerk, request[r] # Null, request[r].op # "pay",
             request' = [request EXCEPT ![r] = Null],
             \A d \in Cheque : d # request[r].c => cheque'[d] = cheque[d]
      PROVE  OnlyPending'
  <2> SUFFICES ASSUME NEW q \in Clerk, request'[q] # Null, request'[q].op # "pay"
               PROVE  cheque'[request'[q].c].status = "pending"
    BY DEF OnlyPending
  <2>1. q # r /\ request'[q] = request[q]
    BY <1>2 DEF CashTypeOK
  <2>2. request[q].c # request[r].c /\ request[q].c \in Cheque
    BY <2>1, <1>2 DEF NoTwoDecide, AboutRegistered
  <2> QED
    BY <2>1, <2>2, <1>2 DEF OnlyPending
<1>3. ASSUME NEW c \in Cheque, UNCHANGED request, cheque[c] = Null \/ cheque[c].status = "settled",
             \A d \in Cheque : d # c => cheque'[d] = cheque[d]
      PROVE  OnlyPending'
  <2> SUFFICES ASSUME NEW q \in Clerk, request'[q] # Null, request'[q].op # "pay"
               PROVE  cheque'[request'[q].c].status = "pending"
    BY DEF OnlyPending
  <2>1. request'[q] = request[q]
    BY <1>3
  <2>2. request[q].c \in Cheque /\ cheque[request[q].c] # Null
        /\ cheque[request[q].c].status = "pending"
    BY <2>1 DEF OnlyPending, AboutRegistered
  <2>3. request[q].c # c
    BY <1>3, <2>2
  <2> QED
    BY <2>1, <2>2, <2>3, <1>3
<1>4. ASSUME NEW r \in Clerk, Doing(r, {"pay"}) \/ Doing(r, {"pay", "settle", "bounce", "cancel"}),
             UNCHANGED cheque
      PROVE  OnlyPending'
  BY <1>1, <1>4 DEF Doing, CashTypeOK
<1>5. ASSUME NEW r \in Clerk, NEW o \in Requests, Ask(r, o) PROVE OnlyPending'
  BY <1>5 DEF Ask, Allowed, StatusAllows, OnlyPending, CashTypeOK
<1>6. ASSUME NEW r \in Clerk, Settle(r) \/ Bounce(r) \/ Cancel(r) PROVE OnlyPending'
  <2>1. request[r] # Null /\ request[r].op # "pay" /\ request' = [request EXCEPT ![r] = Null]
    BY <1>6 DEF Settle, Bounce, Cancel, Decide, Doing
  <2>2. \A d \in Cheque : d # request[r].c => cheque'[d] = cheque[d]
    BY <1>6 DEF Settle, Bounce, Cancel, Decide, CashTypeOK
  <2> QED
    BY <1>2, <2>1, <2>2
<1>7. ASSUME NEW c \in Cheque, NEW p \in Party, NEW n \in Amount, Register(c, p, n)
      PROVE  OnlyPending'
  BY <1>7, <1>3 DEF Register, CashTypeOK
<1>8. ASSUME NEW c \in Cheque, Unsettle(c) PROVE OnlyPending'
  BY <1>8, <1>3 DEF Unsettle, CashTypeOK
<1>9. CASE UNCHANGED cashVars
  BY <1>9, <1>1 DEF cashVars
<1>10. ASSUME NEW v \in Voucher, NEW b \in Box, NEW p \in Party, NEW n \in Amount,
              NEW adopt \in BOOLEAN, Receipt(v, b, p, n, adopt) \/ Edit(v, b, p, n, adopt)
       PROVE  OnlyPending'
  BY <1>10, <1>1 DEF Receipt, Edit
<1>11. ASSUME NEW v \in Voucher, NEW m \in Voucher, Reverse(v, m) PROVE OnlyPending'
  BY <1>11, <1>1 DEF Reverse
<1>12. ASSUME NEW v \in Voucher, DeleteVoucher(v) PROVE OnlyPending'
  BY <1>12, <1>1 DEF DeleteVoucher
<1>13. ASSUME NEW b \in Treasury, Hide(b) \/ Show(b) \/ MakeMain(b) PROVE OnlyPending'
  BY <1>13, <1>1 DEF Hide, Show, MakeMain
<1> QED
  BY <1>4, <1>5, <1>6, <1>7, <1>8, <1>9, <1>10, <1>11, <1>12, <1>13 DEF CashNext, Pay, Refuse

(* Only vouchers that reverse none are reversed.                            *)
MirrorsOriginals ==
    \A m \in Rows : voucher[m].reverses # Null => voucher[voucher[m].reverses].reverses = Null

LEMMA MirrorStep ==
  CashTypeOK /\ MirrorIsOpposite /\ MirrorsOriginals /\ [CashNext]_cashVars
    => MirrorIsOpposite' /\ MirrorsOriginals'
<1> SUFFICES ASSUME CashTypeOK, MirrorIsOpposite, MirrorsOriginals, [CashNext]_cashVars
             PROVE  MirrorIsOpposite' /\ MirrorsOriginals'
  OBVIOUS
<1>1. ASSUME UNCHANGED voucher PROVE MirrorIsOpposite' /\ MirrorsOriginals'
  BY <1>1 DEF MirrorIsOpposite, MirrorsOriginals, Rows
<1>2. ASSUME NEW v \in Voucher, NEW row, row # Null, voucher' = [voucher EXCEPT ![v] = row],
             Mirrors(v) = {},
             \/ row.reverses = Null
             \/ /\ row.reverses \in Rows /\ row.reverses # v
                /\ voucher[row.reverses].reverses = Null
                /\ row.n = voucher[row.reverses].n
                /\ row.from = voucher[row.reverses].to /\ row.to = voucher[row.reverses].from
      PROVE  MirrorIsOpposite' /\ MirrorsOriginals'
  <2>1. voucher'[v] = row /\ Rows' = Rows \cup {v}
        /\ \A w \in Voucher : w # v => voucher'[w] = voucher[w]
    BY <1>2 DEF CashTypeOK, Rows
  <2>2. ASSUME NEW m \in Rows', voucher'[m].reverses # Null
        PROVE  LET w == voucher'[m].reverses IN
               /\ w \in Rows' /\ voucher'[m].n = voucher'[w].n /\ voucher'[w].reverses = Null
               /\ voucher'[m].from = voucher'[w].to /\ voucher'[m].to = voucher'[w].from
    <3>1. CASE m = v
      <4>1. row.reverses # Null /\ row.reverses \in Voucher
        BY <3>1, <2>1, <2>2, <1>2 DEF Rows
      <4> QED
        BY <3>1, <4>1, <2>1, <1>2
    <3>2. CASE m # v
      <4>1. m \in Rows /\ voucher'[m] = voucher[m] /\ m \in Voucher
        BY <3>2, <2>1, <2>2 DEF Rows
      <4>2. voucher[m].reverses \in Rows /\ voucher[m].reverses # v
        BY <4>1, <2>2, <1>2 DEF MirrorIsOpposite, Mirrors, Rows
      <4>3. voucher[m].reverses \in Voucher
        BY <4>2 DEF Rows
      <4> QED
        BY <4>1, <4>2, <4>3, <2>1, <2>2 DEF MirrorIsOpposite, MirrorsOriginals
    <3> QED
      BY <3>1, <3>2
  <2> QED
    BY <2>2 DEF MirrorIsOpposite, MirrorsOriginals
<1>3. \A v \in Voucher : voucher[v] = Null => Mirrors(v) = {}
  BY CashFacts DEF Mirrors, MirrorIsOpposite, Rows
<1>4. \A from, to, n : Row(from, to, n).reverses = Null
  BY DEF Row
<1>5. \A from, to \in Account, n \in Amount : Row(from, to, n) # Null
  BY CashFacts, VoucherRowParts DEF Row
<1>6. ASSUME NEW v \in Voucher, NEW b \in Box, NEW p \in Party, NEW n \in Amount,
             NEW adopt \in BOOLEAN, Receipt(v, b, p, n, adopt)
      PROVE  MirrorIsOpposite' /\ MirrorsOriginals'
  <2>1. voucher[v] = Null
    BY <1>6 DEF Receipt, CashTypeOK
  <2>2. voucher' = [voucher EXCEPT ![v] = Row(p, b, n)]
    BY <1>6 DEF Receipt
  <2> QED
    BY <2>1, <2>2, <1>2, <1>3, <1>4, <1>5, CashFacts
<1>7. ASSUME NEW v \in Voucher, NEW b \in Box, NEW p \in Party, NEW n \in Amount,
             NEW adopt \in BOOLEAN, Edit(v, b, p, n, adopt)
      PROVE  MirrorIsOpposite' /\ MirrorsOriginals'
  <2>1. Mirrors(v) = {}
    BY <1>7 DEF Edit, Editable
  <2>2. voucher' = [voucher EXCEPT ![v] = Row(p, b, n)] \/ voucher' = [voucher EXCEPT ![v] = Row(b, p, n)]
    BY <1>7 DEF Edit
  <2> QED
    BY <2>1, <2>2, <1>2, <1>4, <1>5, CashFacts
<1>8. ASSUME NEW v \in Voucher, NEW m \in Voucher, Reverse(v, m)
      PROVE  MirrorIsOpposite' /\ MirrorsOriginals'
  <2> DEFINE row == [from |-> voucher[v].to, to |-> voucher[v].from, n |-> voucher[v].n, reverses |-> v]
  <2>1. voucher[m] = Null /\ voucher[v] # Null /\ voucher[v].reverses = Null /\ v # m
    BY <1>8 DEF Reverse, Editable, CashTypeOK
  <2>2. voucher' = [voucher EXCEPT ![m] = row]
    BY <1>8 DEF Reverse
  <2>3. voucher[v] \in VoucherRow
    BY <2>1 DEF CashTypeOK
  <2>4. row # Null /\ row.reverses = v /\ row.n = voucher[v].n /\ row.from = voucher[v].to
        /\ row.to = voucher[v].from
    BY <2>3, CashFacts, VoucherRowParts
  <2>5. v \in Rows /\ Mirrors(m) = {}
    BY <2>1, <1>3 DEF Rows
  <2> HIDE DEF row
  <2> QED
    BY <2>1, <2>2, <2>4, <2>5, <1>2
<1>9. ASSUME NEW v \in Voucher, DeleteVoucher(v) PROVE MirrorIsOpposite' /\ MirrorsOriginals'
  <2> DEFINE V == {v} \cup Mirrors(v)
  <2>1. /\ \A w \in Voucher : voucher'[w] = IF w \in V THEN Null ELSE voucher[w]
        /\ Rows' = Rows \ V
    BY <1>9 DEF DeleteVoucher, Rows
  <2>2. ASSUME NEW m \in Rows', voucher'[m].reverses # Null
        PROVE  LET w == voucher'[m].reverses IN
               /\ w \in Rows' /\ voucher'[m].n = voucher'[w].n /\ voucher'[w].reverses = Null
               /\ voucher'[m].from = voucher'[w].to /\ voucher'[m].to = voucher'[w].from
    <3>1. m \in Rows /\ m \notin V /\ m \in Voucher /\ voucher'[m] = voucher[m]
      BY <2>1, <2>2 DEF Rows
    <3> DEFINE w == voucher[m].reverses
    <3>2. w \in Rows /\ w \in Voucher /\ voucher[w].reverses = Null
      BY <3>1, <2>2 DEF MirrorIsOpposite, MirrorsOriginals, Rows
    <3>3. w \notin Mirrors(v)
      BY <3>2, CashFacts DEF Mirrors
    <3>4. w # v
      BY <3>1 DEF Mirrors, Rows
    <3>5. w \in Rows' /\ voucher'[w] = voucher[w]
      BY <3>2, <3>3, <3>4, <2>1
    <3> QED
      BY <3>1, <3>2, <3>5, <2>2 DEF MirrorIsOpposite
  <2> QED
    BY <2>2 DEF MirrorIsOpposite, MirrorsOriginals
<1>10. ASSUME NEW r \in Clerk, Pay(r) PROVE MirrorIsOpposite' /\ MirrorsOriginals'
  <2> DEFINE o == request[r]
  <2>1. o \in Requests /\ o.op = "pay"
    BY <1>10 DEF Pay, Doing, CashTypeOK
  <2>2. o.v \in Voucher /\ o.box \in Account /\ o.to \in Account /\ o.n \in Amount
    BY <2>1, RequestParts, CashFacts
  <2>3. voucher[o.v] = Null /\ voucher' = [voucher EXCEPT ![o.v] = Row(o.box, o.to, o.n)]
    BY <1>10, <2>2 DEF Pay, CashTypeOK
  <2> HIDE DEF o
  <2> QED
    BY <2>2, <2>3, <1>2, <1>3, <1>4, <1>5
<1>11. ASSUME NEW r \in Clerk, Settle(r) \/ Bounce(r) \/ Cancel(r) \/ Refuse(r) \/ \E o \in Requests : Ask(r, o)
       PROVE  UNCHANGED voucher
  BY <1>11 DEF Settle, Bounce, Cancel, Refuse, Ask, Decide
<1>12. ASSUME NEW c \in Cheque, NEW p \in Party, NEW n \in Amount,
              Register(c, p, n) \/ Unsettle(c)
       PROVE  UNCHANGED voucher
  BY <1>12 DEF Register, Unsettle
<1>13. ASSUME NEW b \in Treasury, Hide(b) \/ Show(b) \/ MakeMain(b)
       PROVE  UNCHANGED voucher
  BY <1>13 DEF Hide, Show, MakeMain
<1>14. ASSUME NEW c \in Cheque, Unsettle(c) PROVE UNCHANGED voucher
  BY <1>14 DEF Unsettle
<1>15. CASE UNCHANGED cashVars
  BY <1>15, <1>1 DEF cashVars
<1> QED
  BY <1>1, <1>6, <1>7, <1>8, <1>9, <1>10, <1>11, <1>12, <1>13, <1>14, <1>15 DEF CashNext
-----------------------------------------------------------------------------
(* A voucher's row is replaced, and the books change as the row does.       *)
LEMMA ExplainedVoucher ==
  ASSUME CashTypeOK, Explained, NEW v \in Voucher, NEW row \in VoucherRow \cup {Null},
         voucher' = [voucher EXCEPT ![v] = row], cheque' = cheque,
         \A a \in Account : balance'[a] = balance[a] + Bring(row, a) - Bring(voucher[v], a)
  PROVE  Explained'
<1> SUFFICES ASSUME NEW a \in Account
             PROVE  balance'[a] = VoucherSum(voucher', a) + ChequeSum(cheque', a)
  BY DEF Explained
<1>1. voucher \in VoucherRows /\ cheque \in ChequeRows /\ voucher[v] \in VoucherRow \cup {Null}
  BY DEF CashTypeOK, VoucherRows, ChequeRows
<1>2. VoucherSum(voucher', a) = VoucherSum(voucher, a) + Bring(row, a) - Bring(voucher[v], a)
      /\ VoucherSum(voucher, a) \in Int
  BY <1>1, VoucherSumChange
<1>3. ChequeSum(cheque, a) \in Int
  <2>1. ASSUME NEW c \in Cheque PROVE ChequeSum(cheque, a) \in Int
    <3>1. Null \in ChequeRow \cup {Null}
      OBVIOUS
    <3> QED
      BY <3>1, <1>1, ChequeSumChange
  <2>2. CASE Cheque = {}
    BY <2>2, SumEmpty DEF ChequeSum
  <2> QED
    BY <2>1, <2>2
<1>4. Bring(row, a) \in Int /\ Bring(voucher[v], a) \in Int
  BY <1>1, BringInt
<1> HIDE DEF Explained
<1>5. balance[a] = VoucherSum(voucher, a) + ChequeSum(cheque, a)
  BY DEF Explained
<1> QED
  BY <1>2, <1>3, <1>4, <1>5

LEMMA ExplainedCheque ==
  ASSUME CashTypeOK, Explained, NEW c \in Cheque, NEW row \in ChequeRow \cup {Null},
         cheque' = [cheque EXCEPT ![c] = row], voucher' = voucher,
         \A a \in Account : balance'[a] = balance[a] + Bear(c, row, a) - Bear(c, cheque[c], a)
  PROVE  Explained'
<1> SUFFICES ASSUME NEW a \in Account
             PROVE  balance'[a] = VoucherSum(voucher', a) + ChequeSum(cheque', a)
  BY DEF Explained
<1>1. voucher \in VoucherRows /\ cheque \in ChequeRows /\ cheque[c] \in ChequeRow \cup {Null}
  BY DEF CashTypeOK, VoucherRows, ChequeRows
<1>2. ChequeSum(cheque', a) = ChequeSum(cheque, a) + Bear(c, row, a) - Bear(c, cheque[c], a)
      /\ ChequeSum(cheque, a) \in Int
  BY <1>1, ChequeSumChange
<1>3. VoucherSum(voucher, a) \in Int
  <2>1. ASSUME NEW v \in Voucher PROVE VoucherSum(voucher, a) \in Int
    <3>1. Null \in VoucherRow \cup {Null}
      OBVIOUS
    <3> QED
      BY <3>1, <1>1, VoucherSumChange
  <2>2. CASE Voucher = {}
    BY <2>2, SumEmpty DEF VoucherSum
  <2> QED
    BY <2>1, <2>2
<1>4. Bear(c, row, a) \in Int /\ Bear(c, cheque[c], a) \in Int
  BY <1>1, BearInt
<1>5. balance[a] = VoucherSum(voucher, a) + ChequeSum(cheque, a)
  BY DEF Explained
<1> QED
  BY <1>2, <1>3, <1>4, <1>5

LEMMA BringRow ==
  ASSUME NEW from \in Account, NEW to \in Account, NEW n \in Amount, NEW v \in Voucher \cup {Null}, NEW a
  PROVE  /\ Bring([from |-> from, to |-> to, n |-> n, reverses |-> v], a) = Into(from, to, n, a)
         /\ Bring(Null, a) = 0
         /\ Into(from, to, n, a) \in Int /\ Into(to, from, n, a) = - Into(from, to, n, a)
<1>1. [from |-> from, to |-> to, n |-> n, reverses |-> v] # Null /\ n \in Int
  BY VoucherRowParts, CashFacts
<1> QED
  BY <1>1 DEF Bring, Into

(* The value of a cheque moves from one place to another.                   *)
LEMMA ShiftedBears ==
  ASSUME CashTypeOK, NEW c \in Cheque, cheque[c] # Null, NEW row \in ChequeRow,
         row.n = cheque[c].n, row.party = cheque[c].party,
         NEW from \in Account, NEW to \in Account, Seat(c, cheque[c]) = from, Seat(c, row) = to,
         NEW a \in Account
  PROVE  Shifted(c, from, to)[a] = balance[a] + Bear(c, row, a) - Bear(c, cheque[c], a)
<1> DEFINE n == cheque[c].n
           p == cheque[c].party
<1>1. n \in Int /\ balance \in [Account -> Int] /\ row # Null
  BY CashFacts, ChequeRowParts DEF CashTypeOK
<1>2. Bear(c, row, a) = Into(p, to, Signed(c, n), a)
      /\ Bear(c, cheque[c], a) = Into(p, from, Signed(c, n), a)
  BY <1>1 DEF Bear
<1>3. Shifted(c, from, to) = IF c \in Incoming THEN Post(balance, from, to, n) ELSE Post(balance, to, from, n)
  BY DEF Shifted
<1> HIDE DEF n, p
<1>4. Shifted(c, from, to)[a] = balance[a] + Into(from, to, Signed(c, n), a)
  <2>1. CASE c \in Incoming
    BY <2>1, <1>1, <1>3, PostParts DEF Signed
  <2>2. CASE c \notin Incoming
    <3>1. Shifted(c, from, to)[a] = balance[a] + Into(to, from, n, a)
      BY <2>2, <1>1, <1>3, PostParts
    <3>2. Into(to, from, n, a) = Into(from, to, Signed(c, n), a)
      BY <2>2, <1>1 DEF Signed, Into
    <3> QED
      BY <3>1, <3>2
  <2> QED
    BY <2>1, <2>2
<1>5. Signed(c, n) \in Int /\ balance[a] \in Int
  BY <1>1 DEF Signed
<1>6. ASSUME NEW k \in Int PROVE Into(from, to, k, a) = Into(p, to, k, a) - Into(p, from, k, a)
  BY <1>6 DEF Into
<1>7. \A x, y, k : k \in Int => Into(x, y, k, a) \in Int
  BY DEF Into
<1> QED
  BY <1>2, <1>4, <1>5, <1>6, <1>7
(* What the entries of a voucher that goes, and of its mirrors, had brought.*)
LEMMA DroppedIs ==
  ASSUME CashTypeOK, NEW V \in SUBSET Rows, NEW a \in Account
  PROVE  /\ Dropped(V)[a] = balance[a] - SumFunctionOnSet([v \in V |-> Bring(voucher[v], a)], V)
         /\ SumFunctionOnSet([v \in V |-> Bring(voucher[v], a)], V) \in Int
         /\ VoucherSum([w \in Voucher |-> IF w \in V THEN Null ELSE voucher[w]], a)
              = VoucherSum(voucher, a) - SumFunctionOnSet([v \in V |-> Bring(voucher[v], a)], V)
<1> DEFINE b == [v \in V |-> Bring(voucher[v], a)]
           f == [w \in Voucher |-> Bring([x \in Voucher |-> IF x \in V THEN Null ELSE voucher[x]][w], a)]
           g == [w \in Voucher |-> IF w \in V THEN b[w] ELSE 0]
           h == [w \in Voucher |-> Bring(voucher[w], a)]
<1>1. /\ V \in SUBSET Voucher /\ IsFiniteSet(V) /\ IsFiniteSet(Voucher)
      /\ \A w \in Voucher : voucher[w] \in VoucherRow \cup {Null}
      /\ \A w \in V : voucher[w] # Null
  BY CashFinite, FS_Subset DEF CashTypeOK, Rows
<1>2. \A w \in Voucher : h[w] \in Int
  BY <1>1, BringInt
<1>3. \A w \in V : b[w] = h[w]
  BY <1>1
<1>4. \A w \in Voucher : f[w] = IF w \in V THEN 0 ELSE h[w]
  BY <1>1 DEF Bring
<1>5. \A w \in Voucher : g[w] = IF w \in V THEN h[w] ELSE 0
  BY <1>3, <1>1
<1>6. [v \in V |-> Brought(v, a)] = b
  BY <1>1 DEF Brought, Bring, Into
<1>7. SumFunctionOnSet(b, V) = SumFunctionOnSet(g, Voucher)
  <2>1. \A w \in V : b[w] \in Int
    BY <1>1, <1>2, <1>3
  <2> HIDE DEF b
  <2> QED
    BY <1>1, <2>1, SumExtended
<1>8. VoucherSum([w \in Voucher |-> IF w \in V THEN Null ELSE voucher[w]], a)
        = SumFunctionOnSet(f, Voucher)
      /\ VoucherSum(voucher, a) = SumFunctionOnSet(h, Voucher)
  BY DEF VoucherSum
<1>9. Dropped(V)[a] = balance[a] - SumFunctionOnSet(b, V)
  BY <1>6 DEF Dropped
<1> HIDE DEF b, f, g, h
<1>10. \A w \in Voucher : f[w] \in Int /\ g[w] \in Int /\ h[w] = f[w] + g[w]
  BY <1>2, <1>4, <1>5
<1>11. SumFunctionOnSet(h, Voucher) = SumFunctionOnSet(f, Voucher) + SumFunctionOnSet(g, Voucher)
  BY <1>1, <1>10, SumPlus
<1>12. SumFunctionOnSet(f, Voucher) \in Int /\ SumFunctionOnSet(g, Voucher) \in Int
  BY <1>1, <1>10, SumInt
<1> USE DEF b
<1> QED
  BY <1>7, <1>8, <1>9, <1>11, <1>12

LEMMA ExplainedStep ==
  CashTypeOK /\ AboutRegistered /\ OnlyPending /\ Explained /\ [CashNext]_cashVars => Explained'
<1> SUFFICES ASSUME CashTypeOK, AboutRegistered, OnlyPending, Explained, [CashNext]_cashVars
             PROVE  Explained'
  OBVIOUS
<1>0. balance \in [Account -> Int]
  BY DEF CashTypeOK
<1>1. ASSUME UNCHANGED <<balance, voucher, cheque>> PROVE Explained'
  BY <1>1 DEF Explained
(* A new voucher.                                                           *)
<1>2. ASSUME NEW v \in Voucher, voucher[v] = Null, NEW from \in Account, NEW to \in Account,
             NEW n \in Amount, NEW w \in Voucher \cup {Null},
             voucher' = [voucher EXCEPT ![v] = [from |-> from, to |-> to, n |-> n, reverses |-> w]],
             balance' = Post(balance, from, to, n), cheque' = cheque
      PROVE  Explained'
  <2> DEFINE row == [from |-> from, to |-> to, n |-> n, reverses |-> w]
  <2>1. row \in VoucherRow /\ n \in Int
    BY VoucherRowParts, CashFacts
  <2>2. ASSUME NEW a \in Account
        PROVE  balance'[a] = balance[a] + Bring(row, a) - Bring(voucher[v], a)
    <3>1. balance'[a] = balance[a] + Into(from, to, n, a)
      BY <2>1, <1>0, <1>2, PostParts
    <3>2. Bring(row, a) = Into(from, to, n, a) /\ Bring(voucher[v], a) = 0
          /\ Into(from, to, n, a) \in Int
      BY <1>2, BringRow
    <3> QED
      BY <3>1, <3>2, <1>0
  <2> HIDE DEF row
  <2>3. voucher' = [voucher EXCEPT ![v] = row]
    BY <1>2 DEF row
  <2> QED
    BY ZenonT(40), <2>1, <2>2, <2>3, <1>2, ExplainedVoucher
<1>3. ASSUME NEW v \in Voucher, NEW b \in Box, NEW p \in Party, NEW n \in Amount,
             NEW adopt \in BOOLEAN, Receipt(v, b, p, n, adopt)
      PROVE  Explained'
  <2>1. voucher[v] = Null /\ b \in Account /\ p \in Account
    BY <1>3, CashFacts DEF Receipt, CashTypeOK
  <2> QED
    BY <2>1, <1>2, <1>3 DEF Receipt, Row
<1>4. ASSUME NEW v \in Voucher, NEW b \in Box, NEW p \in Party, NEW n \in Amount,
             NEW adopt \in BOOLEAN, Edit(v, b, p, n, adopt)
      PROVE  Explained'
  <2> DEFINE old == voucher[v]
             bal == Post(balance, old.to, old.from, old.n)
  <2>1. old \in VoucherRow /\ old # Null
    BY <1>4 DEF Edit, Editable, CashTypeOK
  <2>2. PICK from \in Account, to \in Account :
            voucher' = [voucher EXCEPT ![v] = Row(from, to, n)] /\ balance' = Post(bal, from, to, n)
    BY <1>4, CashFacts DEF Edit
  <2>3. /\ old.from \in Account /\ old.to \in Account /\ old.n \in Amount /\ old.n \in Int /\ n \in Int
        /\ Row(from, to, n) \in VoucherRow
    BY <2>1, VoucherRowParts, CashFacts DEF Row
  <2>4. cheque' = cheque
    BY <1>4 DEF Edit
  <2>5. ASSUME NEW a \in Account
        PROVE  balance'[a] = balance[a] + Bring(Row(from, to, n), a) - Bring(voucher[v], a)
    <3>1. Bring(old, a) = Into(old.from, old.to, old.n, a)
      BY <2>1 DEF Bring
    <3> HIDE DEF old, bal
    <3>2. bal[a] = balance[a] + Into(old.to, old.from, old.n, a) /\ bal \in [Account -> Int]
      <4>1. \A x, y \in Account, k \in Int :
               /\ Post(balance, x, y, k) \in [Account -> Int]
               /\ Post(balance, x, y, k)[a] = balance[a] + Into(x, y, k, a)
        <5> TAKE x, y \in Account, k \in Int
        <5>1. Post(balance, x, y, k) \in [Account -> Int]
          BY <1>0, PostParts
        <5>2. Post(balance, x, y, k)[a] = balance[a] + Into(x, y, k, a)
          BY <1>0, PostParts
        <5> QED
          BY <5>1, <5>2
      <4> QED
        BY <2>3, <4>1 DEF bal
    <3>3. balance'[a] = bal[a] + Into(from, to, n, a)
      BY <2>2, <2>3, <3>2, PostParts
    <3>4. Bring(Row(from, to, n), a) = Into(from, to, n, a) /\ Into(from, to, n, a) \in Int
      BY BringRow DEF Row
    <3>5. Into(old.to, old.from, old.n, a) = - Into(old.from, old.to, old.n, a)
          /\ Into(old.from, old.to, old.n, a) \in Int
      BY <2>3 DEF Into
    <3>6. balance'[a] = balance[a] + Bring(Row(from, to, n), a) - Bring(old, a)
      BY <3>1, <3>2, <3>3, <3>4, <3>5, <1>0
    <3> QED
      BY <3>6 DEF old
  <2> QED
    BY <2>2, <2>3, <2>4, <2>5, ExplainedVoucher
<1>5. ASSUME NEW v \in Voucher, NEW m \in Voucher, Reverse(v, m) PROVE Explained'
  <2>1. voucher[m] = Null /\ voucher[v] \in VoucherRow
    BY <1>5 DEF Reverse, Editable, CashTypeOK
  <2>2. /\ voucher[v].from \in Account /\ voucher[v].to \in Account /\ voucher[v].n \in Amount
        /\ v \in Voucher \cup {Null}
    BY <2>1, VoucherRowParts
  <2> QED
    BY <2>1, <2>2, <1>2, <1>5 DEF Reverse
<1>6. ASSUME NEW v \in Voucher, DeleteVoucher(v) PROVE Explained'
  <2> DEFINE V == {v} \cup Mirrors(v)
  <2>1. V \in SUBSET Rows
    BY <1>6 DEF DeleteVoucher, Mirrors, Rows
  <2>2. balance' = Dropped(V) /\ cheque' = cheque
        /\ voucher' = [w \in Voucher |-> IF w \in V THEN Null ELSE voucher[w]]
    BY <1>6 DEF DeleteVoucher
  <2> SUFFICES ASSUME NEW a \in Account
               PROVE  balance'[a] = VoucherSum(voucher', a) + ChequeSum(cheque', a)
    BY DEF Explained
  <2> DEFINE sum == SumFunctionOnSet([w \in V |-> Bring(voucher[w], a)], V)
  <2>3. Dropped(V)[a] = balance[a] - sum /\ sum \in Int
        /\ VoucherSum(voucher', a) = VoucherSum(voucher, a) - sum
    <3> HIDE DEF V
    <3> QED
      BY <2>1, <2>2, DroppedIs
  <2>4. balance[a] = VoucherSum(voucher, a) + ChequeSum(cheque, a)
    BY DEF Explained
  <2>5. VoucherSum(voucher, a) \in Int
    <3>1. Null \in VoucherRow \cup {Null} /\ voucher \in VoucherRows
      BY DEF CashTypeOK, VoucherRows
    <3> QED
      BY <3>1, VoucherSumChange
  <2>6. ChequeSum(cheque, a) \in Int
    <3>1. Null \in ChequeRow \cup {Null} /\ cheque \in ChequeRows
      BY DEF CashTypeOK, ChequeRows
    <3>2. CASE Cheque = {}
      BY <3>2, SumEmpty DEF ChequeSum
    <3> QED
      BY <3>1, <3>2, ChequeSumChange
  <2> HIDE DEF V, sum
  <2>7. balance'[a] = balance[a] - sum
    BY <2>2, <2>3
  <2> QED
    BY <2>2, <2>3, <2>4, <2>5, <2>6, <2>7
<1>7. ASSUME NEW c \in Cheque, NEW p \in Party, NEW n \in Amount, Register(c, p, n)
      PROVE  Explained'
  <2> DEFINE row == [status |-> "pending", n |-> n, party |-> p, box |-> Null, voided |-> FALSE]
  <2>1. row \in ChequeRow /\ row.status = "pending" /\ row.n = n /\ row.party = p
    BY DEF ChequeRow
  <2>2. cheque[c] = Null /\ cheque' = [cheque EXCEPT ![c] = row] /\ voucher' = voucher
        /\ balance' = IF c \in Incoming THEN Post(balance, p, Holding(c), n)
                                        ELSE Post(balance, Holding(c), p, n)
    BY <1>7 DEF Register
  <2> HIDE DEF row
  <2>3. p \in Account /\ Holding(c) \in Account /\ n \in Int /\ row # Null /\ Seat(c, row) = Holding(c)
    BY <2>1, CashFacts DEF Seat
  <2>4. ASSUME NEW a \in Account PROVE balance'[a] = balance[a] + Bear(c, row, a) - Bear(c, cheque[c], a)
    <3>1. Bear(c, cheque[c], a) = 0 /\ Bear(c, row, a) = Into(p, Holding(c), Signed(c, n), a)
      BY <2>1, <2>2, <2>3 DEF Bear
    <3>2. balance'[a] = balance[a] + Into(p, Holding(c), Signed(c, n), a)
      <4>1. CASE c \in Incoming
        BY <4>1, <2>2, <2>3, <1>0, PostParts DEF Signed
      <4>2. CASE c \notin Incoming
        <5>1. balance'[a] = balance[a] + Into(Holding(c), p, n, a)
          BY <4>2, <2>2, <2>3, <1>0, PostParts
        <5>2. Into(Holding(c), p, n, a) = Into(p, Holding(c), Signed(c, n), a)
          BY <4>2, <2>3 DEF Signed, Into
        <5> QED
          BY <5>1, <5>2
      <4> QED
        BY <4>1, <4>2
    <3>3. Into(p, Holding(c), Signed(c, n), a) \in Int /\ balance[a] \in Int
      BY <2>3, <1>0 DEF Signed, Into
    <3> QED
      BY <3>1, <3>2, <3>3
  <2> QED
    BY <2>1, <2>2, <2>4, ExplainedCheque
(* The value of a cheque moves with its state.                              *)
<1>8. ASSUME NEW c \in Cheque, cheque[c] # Null, NEW row \in ChequeRow,
             row.n = cheque[c].n, row.party = cheque[c].party,
             NEW from \in Account, NEW to \in Account,
             Seat(c, cheque[c]) = from, Seat(c, row) = to,
             balance' = Shifted(c, from, to),
             cheque' = [cheque EXCEPT ![c] = row], voucher' = voucher
      PROVE  Explained'
  <2>1. \A a \in Account : balance'[a] = balance[a] + Bear(c, row, a) - Bear(c, cheque[c], a)
    BY <1>8, ShiftedBears
  <2> QED
    BY <2>1, <1>8, ExplainedCheque
<1>9. ASSUME NEW r \in Clerk, Settle(r) PROVE Explained'
  <2> DEFINE c == request[r].c
             b == request[r].box
             row == Boxed(cheque[c], "settled", b)
  <2>1. request[r] \in Requests /\ request[r].op = "settle" /\ request[r] # Null
    BY <1>9 DEF Settle, Decide, Doing, CashTypeOK
  <2>2. /\ c \in Cheque /\ cheque[c] # Null /\ cheque[c] \in ChequeRow /\ b \in Box
        /\ cheque[c].status = "pending"
    BY <2>1, RequestParts DEF AboutRegistered, OnlyPending, CashTypeOK
  <2>3. cheque' = [cheque EXCEPT ![c] = row] /\ balance' = Shifted(c, Holding(c), b) /\ voucher' = voucher
    BY <1>9, <2>2 DEF Settle, Decide, CashTypeOK, Boxed
  <2>4. row \in ChequeRow /\ row.n = cheque[c].n /\ row.party = cheque[c].party
        /\ row.status = "settled" /\ row.box = b
    <3>1. b \in Box \cup {Null}
      BY <2>2
    <3> HIDE DEF c, b
    <3> QED
      BY SMTT(30), <2>2, <3>1, BoxUpdate
  <2>5. Seat(c, cheque[c]) = Holding(c) /\ Seat(c, row) = b /\ b \in Account /\ Holding(c) \in Account
    BY <2>2, <2>4, CashFacts DEF Seat
  <2> HIDE DEF c, b, row
  <2> QED
    BY <2>2, <2>3, <2>4, <2>5, <1>8
<1>10. ASSUME NEW r \in Clerk, Bounce(r) PROVE Explained'
  <2> DEFINE c == request[r].c
             p == cheque[c].party
             row == Boxed(cheque[c], "bounced", cheque[c].box)
  <2>1. request[r] \in Requests /\ request[r].op = "bounce" /\ request[r] # Null
    BY <1>10 DEF Bounce, Decide, Doing, CashTypeOK
  <2>2. /\ c \in Cheque /\ cheque[c] # Null /\ cheque[c] \in ChequeRow
        /\ cheque[c].status = "pending"
    BY <2>1, RequestParts DEF AboutRegistered, OnlyPending, CashTypeOK
  <2>3. cheque' = [cheque EXCEPT ![c] = row] /\ balance' = Shifted(c, Holding(c), p) /\ voucher' = voucher
    BY <1>10, <2>2 DEF Bounce, Decide, CashTypeOK, Boxed
  <2>4. row \in ChequeRow /\ row.n = cheque[c].n /\ row.party = p /\ row.status = "bounced"
    <3>1. cheque[c].box \in Box \cup {Null}
      BY <2>2, ChequeRowParts
    <3> HIDE DEF c
    <3> QED
      BY ZenonT(40), <2>2, <3>1, BoxUpdate
  <2>5. Seat(c, cheque[c]) = Holding(c) /\ Seat(c, row) = p /\ p \in Account /\ Holding(c) \in Account
    BY <2>2, <2>4, CashFacts, ChequeRowParts DEF Seat
  <2>6. row.party = cheque[c].party
    BY <2>4
  <2> HIDE DEF c, p, row
  <2> QED
    BY <2>2, <2>3, <2>4, <2>5, <2>6, <1>8
<1>11. ASSUME NEW r \in Clerk, Cancel(r) PROVE Explained'
  <2> DEFINE c == request[r].c
             p == cheque[c].party
             row == Voided(cheque[c], "cancelled")
  <2>1. request[r] \in Requests /\ request[r].op = "cancel" /\ request[r] # Null
    BY <1>11 DEF Cancel, Doing, CashTypeOK
  <2>2. /\ c \in Cheque /\ cheque[c] # Null /\ cheque[c] \in ChequeRow
        /\ cheque[c].status = "pending"
    BY <2>1, RequestParts DEF AboutRegistered, OnlyPending, CashTypeOK
  <2>3. cheque' = [cheque EXCEPT ![c] = row] /\ balance' = Shifted(c, Holding(c), p) /\ voucher' = voucher
    BY <1>11, <2>2 DEF Cancel, CashTypeOK, Voided
  <2>4. row \in ChequeRow /\ row.n = cheque[c].n /\ row.party = p /\ row.status = "cancelled"
    <3> HIDE DEF c
    <3> QED
      BY <2>2, VoidUpdate
  <2>5. Seat(c, cheque[c]) = Holding(c) /\ Seat(c, row) = p /\ p \in Account /\ Holding(c) \in Account
    BY <2>2, <2>4, CashFacts, ChequeRowParts DEF Seat
  <2>6. row.party = cheque[c].party
    BY <2>4
  <2> HIDE DEF c, p, row
  <2> QED
    BY <2>2, <2>3, <2>4, <2>5, <2>6, <1>8
<1>12. ASSUME NEW c \in Cheque, Unsettle(c) PROVE Explained'
  <2> DEFINE b == cheque[c].box
             row == Boxed(cheque[c], "pending", Null)
  <2>1. /\ cheque[c] # Null /\ cheque[c] \in ChequeRow /\ b \in Box /\ cheque[c].status = "settled"
    BY <1>12 DEF Unsettle, CashTypeOK
  <2>2. cheque' = [cheque EXCEPT ![c] = row] /\ balance' = Shifted(c, b, Holding(c)) /\ voucher' = voucher
    BY <1>12, <2>1 DEF Unsettle, CashTypeOK, Boxed
  <2>3. row \in ChequeRow /\ row.n = cheque[c].n /\ row.party = cheque[c].party /\ row.status = "pending"
    <3>1. Null \in Box \cup {Null}
      OBVIOUS
    <3> QED
      BY ZenonT(40), <2>1, <3>1, BoxUpdate
  <2>4. Seat(c, cheque[c]) = b /\ Seat(c, row) = Holding(c) /\ b \in Account /\ Holding(c) \in Account
    BY <2>1, <2>3, CashFacts DEF Seat
  <2> HIDE DEF b, row
  <2> QED
    BY <2>1, <2>2, <2>3, <2>4, <1>8
<1>13. ASSUME NEW r \in Clerk, Pay(r) PROVE Explained'
  <2> DEFINE o == request[r]
  <2>1. o \in Requests /\ o.op = "pay"
    BY <1>13 DEF Pay, Doing, CashTypeOK
  <2>2. o.v \in Voucher /\ o.box \in Account /\ o.to \in Account /\ o.n \in Amount
    BY <2>1, RequestParts, CashFacts
  <2>3. voucher[o.v] = Null /\ voucher' = [voucher EXCEPT ![o.v] = Row(o.box, o.to, o.n)]
        /\ balance' = Post(balance, o.box, o.to, o.n) /\ cheque' = cheque
    BY <1>13, <2>2 DEF Pay, CashTypeOK
  <2> HIDE DEF o
  <2> QED
    BY <2>2, <2>3, <1>2 DEF Row
<1>14. ASSUME NEW r \in Clerk, NEW o \in Requests, Ask(r, o) \/ Refuse(r) PROVE Explained'
  BY <1>1, <1>14 DEF Ask, Refuse
<1>15. ASSUME NEW r \in Clerk, Refuse(r) PROVE Explained'
  BY <1>1, <1>15 DEF Refuse
<1>16. ASSUME NEW b \in Treasury, Hide(b) \/ Show(b) \/ MakeMain(b) PROVE Explained'
  BY <1>1, <1>16 DEF Hide, Show, MakeMain
<1>17. CASE UNCHANGED cashVars
  BY <1>17, <1>1 DEF cashVars
<1> QED
  BY <1>3, <1>4, <1>5, <1>6, <1>7, <1>9, <1>10, <1>11, <1>12, <1>13, <1>14, <1>15, <1>16, <1>17
     DEF CashNext
(* Why the books add up: the balances are what the documents say, each      *)
(* request decides about a pending cheque, and mirrors oppose originals.    *)
CashInv ==
    /\ CashTypeOK /\ AboutRegistered /\ OnlyPending
    /\ Explained /\ MirrorIsOpposite /\ MirrorsOriginals

LEMMA CashInvInit == CashInit => CashInv
<1> SUFFICES ASSUME CashInit PROVE CashInv
  OBVIOUS
<1>1. CashTypeOK /\ AboutRegistered
  BY CashInitType
<1>2. OnlyPending /\ MirrorIsOpposite /\ MirrorsOriginals /\ Rows = {} /\ Registered = {}
  BY DEF CashInit, OnlyPending, MirrorIsOpposite, MirrorsOriginals, Rows, Registered
<1>3. \A f : SumFunctionOnSet(f, {}) = 0
  BY SumEmpty
<1>4. BooksExplained
  BY <1>2, <1>3 DEF BooksExplained, CashInit
<1> QED
  BY <1>1, <1>2, <1>4, ExplainedMeans DEF CashInv

LEMMA CashInvStep == CashInv /\ NoTwoDecide /\ [CashNext]_cashVars => CashInv'
BY CashTypeStep, PendingStep, ExplainedStep, MirrorStep DEF CashInv

(* The balances are what the vouchers and cheques say, through any          *)
(* interleaving of requests, as long as no two decide about one cheque      *)
(* (voucher_service.py, cheque_service.py).                                 *)
THEOREM CashBooksAddUp == CashSpec /\ []NoTwoDecide => []CashAddsUp
<1>1. CashInv => CashAddsUp
  BY ExplainedMeans DEF CashInv, CashAddsUp
<1> QED
  BY <1>1, CashInvInit, CashInvStep, PTL DEF CashSpec
-----------------------------------------------------------------------------
(* A request that was let through is still covered when it posts.           *)
AllAllowed == \A r \in Clerk : request[r] # Null => Allowed(request[r])

LEMMA AllAllowedStep ==
  CashTypeOK /\ AllAllowed /\ [CashNext /\ Uninterrupted]_cashVars => AllAllowed'
<1> SUFFICES ASSUME CashTypeOK, AllAllowed, [CashNext /\ Uninterrupted]_cashVars,
                    NEW r \in Clerk, request'[r] # Null
             PROVE  Allowed(request[r])' 
  BY DEF AllAllowed
<1>1. CASE UNCHANGED cashVars
  BY <1>1 DEF cashVars, AllAllowed, Allowed, Covered, Found, StatusAllows
<1>2. CASE CashNext /\ Uninterrupted
  <2>1. CASE UNCHANGED request
    BY <2>1, <1>2 DEF Uninterrupted
  <2>2. ASSUME NEW q \in Clerk, request[q] # Null, request' = [request EXCEPT ![q] = Null] PROVE FALSE
    <3>1. q # r /\ request'[r] = request[r]
      BY <2>2 DEF CashTypeOK
    <3> QED
      BY <3>1, <1>2 DEF Uninterrupted
  <2>3. ASSUME NEW q \in Clerk, NEW o \in Requests, Ask(q, o) PROVE Allowed(request[r])'
    <3>1. q = r
      BY <2>3, <1>2 DEF Uninterrupted, Ask, CashTypeOK
    <3>2. request'[r] = o
      BY <3>1, <2>3 DEF Ask, CashTypeOK
    <3> QED
      BY <3>2, <2>3 DEF Ask, Allowed, Covered, Found, StatusAllows
  <2>4. ASSUME NEW q \in Clerk, Pay(q) \/ Settle(q) \/ Bounce(q) \/ Cancel(q) \/ Refuse(q) PROVE FALSE
    BY <2>4, <2>2 DEF Pay, Settle, Bounce, Cancel, Refuse, Decide, Doing
  <2>5. ASSUME NEW v \in Voucher, NEW b \in Box, NEW p \in Party, NEW n \in Amount,
               NEW adopt \in BOOLEAN, Receipt(v, b, p, n, adopt) \/ Edit(v, b, p, n, adopt)
        PROVE  UNCHANGED request
    BY <2>5 DEF Receipt, Edit
  <2>6. ASSUME NEW v \in Voucher, NEW m \in Voucher, Reverse(v, m) PROVE UNCHANGED request
    BY <2>6 DEF Reverse
  <2>7. ASSUME NEW v \in Voucher, DeleteVoucher(v) PROVE UNCHANGED request
    BY <2>7 DEF DeleteVoucher
  <2>8. ASSUME NEW c \in Cheque, NEW p \in Party, NEW n \in Amount, Register(c, p, n)
        PROVE  UNCHANGED request
    BY <2>8 DEF Register
  <2>9. ASSUME NEW c \in Cheque, Unsettle(c) PROVE UNCHANGED request
    BY <2>9 DEF Unsettle
  <2>10. ASSUME NEW b \in Treasury, Hide(b) \/ Show(b) \/ MakeMain(b) PROVE UNCHANGED request
    BY <2>10 DEF Hide, Show, MakeMain
  <2> QED
    BY <1>2, <2>1, <2>3, <2>4, <2>5, <2>6, <2>7, <2>8, <2>9, <2>10 DEF CashNext
<1> QED
  BY <1>1, <1>2

LEMMA BoxApart ==
  /\ \A b \in Box, p \in Party : b # p
  /\ \A b \in Box : \A c : b # Holding(c)
BY BoxAssumption DEF Box, Holding

(* Only the account that gives loses.                                       *)
LEMMA PostAt ==
  ASSUME NEW bal \in [Account -> Int], NEW from \in Account, NEW to \in Account, NEW n \in Amount,
         NEW x \in Account
  PROVE  /\ bal[x] \in Int /\ Post(bal, from, to, n)[x] \in Int
         /\ x # from => Post(bal, from, to, n)[x] >= bal[x]
         /\ x # from /\ x # to => Post(bal, from, to, n)[x] = bal[x]
         /\ x = from /\ from # to => Post(bal, from, to, n)[x] = bal[x] - n
         /\ x = to /\ from # to => Post(bal, from, to, n)[x] = bal[x] + n
<1>1. n \in Int /\ n > 0 /\ Post(bal, from, to, n)[x] = bal[x] + Into(from, to, n, x)
  BY CashFacts, PostParts
<1> QED
  BY <1>1 DEF Into

LEMMA OverdrawnStep ==
  CashTypeOK /\ AboutRegistered /\ AllAllowed /\ [CashNext /\ Uninterrupted]_cashVars
    => [OverdrawnByUndoing]_cashVars
<1> SUFFICES ASSUME CashTypeOK, AboutRegistered, AllAllowed, CashNext,
                    NEW x \in Box, balance'[x] < 0, balance'[x] < balance[x]
             PROVE  \/ \E v \in Rows : voucher[v].to = x /\ (voucher'[v] # voucher[v] \/ Mirrors(v)' # Mirrors(v))
                    \/ \E c \in Incoming \cap Registered :
                          cheque[c].status = "settled" /\ cheque[c].box = x /\ cheque'[c] # cheque[c]
  BY DEF OverdrawnByUndoing
<1> DEFINE Excused ==
      \/ \E v \in Rows : voucher[v].to = x /\ (voucher'[v] # voucher[v] \/ Mirrors(v)' # Mirrors(v))
      \/ \E c \in Incoming \cap Registered :
            cheque[c].status = "settled" /\ cheque[c].box = x /\ cheque'[c] # cheque[c]
<1>0. balance \in [Account -> Int] /\ x \in Account /\ balance[x] \in Int
  BY CashFacts DEF CashTypeOK
<1>1. ASSUME NEW v \in Voucher, NEW b \in Box, NEW p \in Party, NEW n \in Amount,
             NEW adopt \in BOOLEAN, Receipt(v, b, p, n, adopt)
      PROVE  FALSE
  <2>1. x # p /\ b \in Account /\ p \in Account /\ balance' = Post(balance, p, b, n)
    BY <1>1, BoxApart, CashFacts DEF Receipt
  <2> QED
    BY <2>1, <1>0, PostAt
<1>2. ASSUME NEW v \in Voucher, NEW b \in Box, NEW p \in Party, NEW n \in Amount,
             NEW adopt \in BOOLEAN, Edit(v, b, p, n, adopt)
      PROVE  Excused
  <2> DEFINE old == voucher[v]
             bal == Post(balance, old.to, old.from, old.n)
  <2>1. old \in VoucherRow /\ old # Null /\ v \in Rows /\ old.reverses = Null
    BY <1>2 DEF Edit, Editable, CashTypeOK, Rows
  <2>2. old.from \in Account /\ old.to \in Account /\ old.n \in Amount /\ p \in Account /\ b \in Account
    BY <2>1, VoucherRowParts, CashFacts
  <2>3. \/ /\ old.from \in Party /\ voucher' = [voucher EXCEPT ![v] = Row(p, b, n)]
           /\ balance' = Post(bal, p, b, n)
        \/ /\ old.to \in Party /\ n =< bal[b] /\ balance' = Post(bal, b, p, n)
    BY <1>2 DEF Edit
  <2>4. bal \in [Account -> Int]
    BY <2>2, <1>0, PostParts, CashFacts
  <2>5. CASE old.to # x
    <3>1. bal[x] >= balance[x] /\ bal[x] \in Int
      BY <2>2, <2>5, <1>0, PostAt
    <3> HIDE DEF bal, old
    <3>2. CASE balance' = Post(bal, p, b, n)
      <4>1. balance'[x] >= bal[x] /\ balance'[x] \in Int
        BY <2>2, <2>4, <3>2, <1>0, BoxApart, PostAt
      <4> QED
        BY <4>1, <3>1, <1>0
    <3>3. CASE n =< bal[b] /\ balance' = Post(bal, b, p, n)
      <4>1. CASE x = b
        <5>1. balance'[x] = bal[x] - n /\ n \in Int
          BY <2>2, <2>4, <3>3, <4>1, <1>0, BoxApart, PostAt, CashFacts
        <5> QED
          BY <5>1, <4>1, <3>3, <3>1
      <4>2. CASE x # b
        <5>1. balance'[x] >= bal[x] /\ balance'[x] \in Int
          BY <2>2, <2>4, <3>3, <4>2, <1>0, PostAt
        <5> QED
          BY <5>1, <3>1, <1>0
      <4> QED
        BY <4>1, <4>2
    <3> QED
      BY <2>3, <3>2, <3>3
  <2>6. CASE old.to = x
    <3>1. old.to \notin Party
      BY <2>6, BoxApart
    <3>2. old.from \in Party /\ voucher'[v] = Row(p, b, n) /\ balance' = Post(bal, p, b, n)
      BY <2>3, <3>1 DEF CashTypeOK
    <3>3. voucher'[v] # old
      <4> SUFFICES ASSUME voucher'[v] = old PROVE FALSE
        OBVIOUS
      <4>1. old.from = p /\ old.to = b /\ old.n = n
        BY <3>2 DEF Row
      <4>2. bal[x] = balance[x] - n
        BY <4>1, <2>2, <2>6, <1>0, BoxApart, PostAt
      <4>3. balance'[x] = bal[x] + n
        <5> HIDE DEF bal
        <5> QED
          BY <4>1, <3>2, <2>2, <2>4, <2>6, <1>0, BoxApart, PostAt
      <4>4. n \in Int
        BY CashFacts
      <4> QED
        BY <4>2, <4>3, <4>4, <1>0
    <3> QED
      BY <3>3, <2>1, <2>6
  <2> QED
    BY <2>5, <2>6
<1>3. ASSUME NEW v \in Voucher, NEW m \in Voucher, Reverse(v, m) PROVE Excused
  <2>1. voucher[v] \in VoucherRow /\ v \in Rows /\ Mirrors(v) = {}
    BY <1>3 DEF Reverse, Editable, CashTypeOK, Rows
  <2>2. voucher[v].from \in Account /\ voucher[v].to \in Account /\ voucher[v].n \in Amount
    BY <2>1, VoucherRowParts
  <2>3. voucher[v].to = x
    BY <2>2, <1>0, <1>3, PostAt DEF Reverse
  <2> DEFINE row == [from |-> voucher[v].to, to |-> voucher[v].from, n |-> voucher[v].n, reverses |-> v]
  <2>4. voucher'[m] = row /\ row # Null /\ row.reverses = v
    BY <1>3, <2>2, CashFacts, VoucherRowParts DEF Reverse, CashTypeOK
  <2> HIDE DEF row
  <2>5. m \in Mirrors(v)'
    BY <2>4 DEF Mirrors
  <2> QED
    BY <2>1, <2>3, <2>5
<1>4. ASSUME NEW v \in Voucher, DeleteVoucher(v) PROVE Excused
  <2> DEFINE V == {v} \cup Mirrors(v)
             f == [w \in V |-> Bring(voucher[w], x)]
  <2>1. V \in SUBSET Rows /\ IsFiniteSet(V)
    BY <1>4, CashFinite, FS_Subset DEF DeleteVoucher, Mirrors, Rows
  <2>2. balance' = Dropped(V) /\ \A w \in V : voucher'[w] = Null
    BY <1>4, <2>1 DEF DeleteVoucher, Rows
  <2>3. balance'[x] = balance[x] - SumFunctionOnSet(f, V) /\ SumFunctionOnSet(f, V) \in Int
    <3> HIDE DEF V
    <3> QED
      BY <2>1, <2>2, <1>0, DroppedIs
  <2>4. ASSUME \A w \in V : voucher[w].to # x PROVE FALSE
    <3>1. ASSUME NEW w \in V PROVE f[w] \in Int /\ f[w] =< 0
      <4>1. voucher[w] \in VoucherRow /\ voucher[w] # Null /\ voucher[w].to # x
        BY <2>1, <2>4 DEF CashTypeOK, Rows
      <4>2. voucher[w].n \in Int /\ voucher[w].n > 0
        BY <4>1, VoucherRowParts, CashFacts
      <4>3. Bring(voucher[w], x) \in Int /\ Bring(voucher[w], x) =< 0
        BY <4>1, <4>2 DEF Bring, Into
      <4> QED
        BY <4>3
    <3> HIDE DEF f, V
    <3>2. SumFunctionOnSet(f, V) =< 0
      BY <2>1, <3>1, SumNotPositive
    <3> QED
      BY <2>3, <3>2, <1>0
  <2> QED
    BY <2>1, <2>2, <2>4 DEF Rows
<1>5. ASSUME NEW c \in Cheque, NEW p \in Party, NEW n \in Amount, Register(c, p, n) PROVE FALSE
  <2>1. p \in Account /\ Holding(c) \in Account /\ x # p /\ x # Holding(c)
    BY CashFacts, BoxApart
  <2>2. balance' = Post(balance, p, Holding(c), n) \/ balance' = Post(balance, Holding(c), p, n)
    BY <1>5 DEF Register
  <2> QED
    BY <2>1, <2>2, <1>0, PostAt
(* The value of a cheque moves between two accounts.                        *)
<1>6. ASSUME NEW c \in Cheque, cheque[c] # Null, NEW from \in Account, NEW to \in Account,
             balance' = Shifted(c, from, to)
      PROVE  \/ c \in Incoming /\ x = from
             \/ /\ c \notin Incoming /\ x = to
                /\ from # to => balance'[x] = balance[x] - cheque[c].n /\ cheque[c].n \in Int
  <2>1. cheque[c].n \in Amount /\ cheque[c].n \in Int
    BY <1>6, ChequeRowParts, CashFacts DEF CashTypeOK
  <2> DEFINE n == cheque[c].n
  <2>2. balance' = IF c \in Incoming THEN Post(balance, from, to, n) ELSE Post(balance, to, from, n)
    BY <1>6 DEF Shifted
  <2> HIDE DEF n
  <2>3. n \in Amount /\ n = cheque[c].n
    BY <2>1 DEF n
  <2>4. CASE c \in Incoming
    BY <2>2, <2>3, <2>4, <1>0, PostAt
  <2>5. CASE c \notin Incoming
    BY <2>1, <2>2, <2>3, <2>5, <1>0, PostAt
  <2> QED
    BY <2>4, <2>5
<1>7. ASSUME NEW r \in Clerk, Settle(r) PROVE FALSE
  <2> DEFINE c == request[r].c
             b == request[r].box
  <2>1. request[r] \in Requests /\ request[r].op = "settle" /\ request[r] # Null
    BY <1>7 DEF Settle, Decide, Doing, CashTypeOK
  <2>2. c \in Cheque /\ cheque[c] # Null /\ b \in Box /\ Allowed(request[r])
    BY <2>1, RequestParts DEF AboutRegistered, AllAllowed
  <2>3. balance' = Shifted(c, Holding(c), b)
    BY <1>7 DEF Settle, Decide
  <2>4. c \in Outgoing => cheque[c].n =< balance[b]
    BY <2>1, <2>2 DEF Allowed, Covered
  <2>5. b \in Account /\ Holding(c) \in Account /\ x # Holding(c) /\ b # Holding(c)
    BY <2>2, CashFacts, BoxApart
  <2> HIDE DEF c, b
  <2>6. /\ c \notin Incoming /\ x = b
        /\ balance'[x] = balance[x] - cheque[c].n /\ cheque[c].n \in Int
    BY <2>2, <2>3, <2>5, <1>6
  <2>7. c \in Outgoing
    BY <2>2, <2>6 DEF Cheque
  <2> QED
    BY <2>4, <2>6, <2>7, <1>0
<1>8. ASSUME NEW r \in Clerk, Bounce(r) \/ Cancel(r) PROVE FALSE
  <2> DEFINE c == request[r].c
             p == cheque[c].party
  <2>1. request[r] \in Requests /\ request[r].op # "pay" /\ request[r] # Null
    BY <1>8 DEF Bounce, Cancel, Decide, Doing, CashTypeOK
  <2>2. c \in Cheque /\ cheque[c] # Null /\ cheque[c] \in ChequeRow
    BY <2>1 DEF AboutRegistered, CashTypeOK
  <2>3. balance' = Shifted(c, Holding(c), p)
    BY <1>8 DEF Bounce, Cancel, Decide
  <2>4. p \in Party /\ p \in Account /\ Holding(c) \in Account /\ x # Holding(c) /\ x # p
    BY <2>2, CashFacts, BoxApart, ChequeRowParts
  <2> HIDE DEF c, p
  <2> QED
    BY <2>2, <2>3, <2>4, <1>6
<1>9. ASSUME NEW c \in Cheque, Unsettle(c) PROVE Excused
  <2> DEFINE b == cheque[c].box
  <2>1. /\ cheque[c] # Null /\ cheque[c] \in ChequeRow /\ b \in Box /\ cheque[c].status = "settled"
        /\ balance' = Shifted(c, b, Holding(c)) /\ c \in Registered
    BY <1>9 DEF Unsettle, CashTypeOK, Registered
  <2>2. b \in Account /\ Holding(c) \in Account /\ x # Holding(c)
    BY <2>1, CashFacts, BoxApart
  <2>3. cheque'[c].status = "pending"
    <3>1. Null \in Box \cup {Null}
      OBVIOUS
    <3>2. cheque'[c] = Boxed(cheque[c], "pending", Null)
      BY <1>9 DEF Unsettle, Boxed, CashTypeOK
    <3> QED
      BY <2>1, <3>1, <3>2, BoxedAs
  <2> HIDE DEF b
  <2>4. c \in Incoming /\ x = b
    BY <2>1, <2>2, <1>6
  <2> USE DEF b
  <2>5. cheque'[c] # cheque[c]
    BY <2>1, <2>3
  <2> QED
    BY <2>1, <2>4, <2>5
<1>10. ASSUME NEW r \in Clerk, Pay(r) PROVE FALSE
  <2> DEFINE o == request[r]
  <2>1. o \in Requests /\ o.op = "pay" /\ o # Null
    BY <1>10 DEF Pay, Doing, CashTypeOK
  <2>2. o.box \in Account /\ o.to \in Account /\ o.n \in Amount /\ o.n \in Int
    BY <2>1, RequestParts, CashFacts
  <2>3. o.to # o.box /\ o.n =< balance[o.box]
    BY <2>1 DEF AllAllowed, Allowed, Covered
  <2>4. balance' = Post(balance, o.box, o.to, o.n)
    BY <1>10 DEF Pay
  <2> HIDE DEF o
  <2>5. CASE x # o.box
    BY <2>2, <2>4, <2>5, <1>0, PostAt
  <2>6. CASE x = o.box
    <3>1. balance'[x] = balance[x] - o.n
      BY <2>2, <2>3, <2>4, <2>6, <1>0, PostAt
    <3> QED
      BY <2>2, <2>3, <2>6, <3>1, <1>0
  <2> QED
    BY <2>5, <2>6
<1>11. ASSUME UNCHANGED balance PROVE FALSE
  BY <1>11, <1>0
<1>12. ASSUME NEW r \in Clerk, NEW o \in Requests, Ask(r, o) PROVE FALSE
  BY <1>11, <1>12 DEF Ask
<1>13. ASSUME NEW r \in Clerk, Refuse(r) PROVE FALSE
  BY <1>11, <1>13 DEF Refuse
<1>14. ASSUME NEW b \in Treasury, Hide(b) \/ Show(b) \/ MakeMain(b) PROVE FALSE
  BY <1>11, <1>14 DEF Hide, Show, MakeMain
<1> QED
  <2>1. Excused
    <3> HIDE DEF Excused
    <3> QED
      BY <1>1, <1>2, <1>3, <1>4, <1>5, <1>7, <1>8, <1>9, <1>10, <1>12, <1>13, <1>14 DEF CashNext
  <2> QED
    BY <2>1

(* A box only goes below zero because money it had received is taken back,  *)
(* when a request that has looked at a box posts before anything else       *)
(* happens (voucher_service.py: _assert_cash_available).                    *)
THEOREM BoxesOverdrawnOnlyByUndoing ==
  CashInit /\ [][CashNext /\ Uninterrupted]_cashVars => Overdrawn
<1> DEFINE Inv == CashTypeOK /\ AboutRegistered /\ AllAllowed
<1>1. CashInit => Inv
  BY CashInitType DEF CashInit, AllAllowed
<1>2. Inv /\ [CashNext /\ Uninterrupted]_cashVars => Inv'
  <2>1. [CashNext /\ Uninterrupted]_cashVars => [CashNext]_cashVars
    OBVIOUS
  <2> QED
    BY <2>1, CashTypeStep, AllAllowedStep
<1>3. Inv /\ [CashNext /\ Uninterrupted]_cashVars => [OverdrawnByUndoing]_cashVars
  BY OverdrawnStep
<1> HIDE DEF Inv
<1> QED
  BY <1>1, <1>2, <1>3, PTL DEF Overdrawn
-----------------------------------------------------------------------------
(* Vehicles and drivers. *)

(* What an update of a vehicle's record keeps and sets.                     *)
Linked(row, s) == [row EXCEPT !.voucher = s]
Amended(row, c, n) == [row EXCEPT !.car = c, !.cost = n]

LEMMA CarRowUpdates ==
  ASSUME NEW row \in CarRow, NEW c \in Car, NEW n \in Cost, NEW s \in Slip \cup {Null}
  PROVE  /\ Linked(row, s) \in CarRow /\ Linked(row, s).voucher = s
         /\ Linked(row, s).auto = row.auto /\ Linked(row, s).car = row.car
         /\ Linked(row, s).cost = row.cost
         /\ Amended(row, c, n) \in CarRow /\ Amended(row, c, n).voucher = row.voucher
         /\ Amended(row, c, n).auto = row.auto
<1> DEFINE Vouchers == Slip \cup {Null}
<1>1. CarRow = [car : Car, fault : BOOLEAN, cost : Cost, voucher : Vouchers, auto : BOOLEAN]
  BY DEF CarRow
<1>2. s \in Vouchers
  OBVIOUS
<1> HIDE DEF Vouchers
<1>3. Linked(row, s) \in CarRow
  BY <1>1, <1>2 DEF Linked
<1>4. Amended(row, c, n) \in CarRow
  BY <1>1 DEF Amended
<1>5. /\ Linked(row, s).voucher = s /\ Linked(row, s).auto = row.auto
      /\ Linked(row, s).car = row.car /\ Linked(row, s).cost = row.cost
  BY <1>1 DEF Linked
<1>6. Amended(row, c, n).voucher = row.voucher /\ Amended(row, c, n).auto = row.auto
  BY <1>1 DEF Amended
<1> QED
  BY <1>3, <1>4, <1>5, <1>6

LEMMA CarRowParts ==
  /\ \A row \in CarRow : /\ row.car \in Car /\ row.cost \in Cost /\ row.voucher \in Slip \cup {Null}
                         /\ row.auto \in BOOLEAN /\ row.fault \in BOOLEAN
  /\ \A c \in Car, fault, auto \in BOOLEAN, n \in Cost, s \in Slip \cup {Null} :
        [car |-> c, fault |-> fault, cost |-> n, voucher |-> s, auto |-> auto] \in CarRow
  /\ Null \notin CarRow /\ Null \notin SlipRow /\ Null \notin Slip /\ Null \notin Driver
<1>1. Null \notin CarRow /\ Null \notin SlipRow /\ Null \notin Slip /\ Null \notin Driver
  BY FleetNull
<1> DEFINE Vouchers == Slip \cup {Null}
<1>2. CarRow = [car : Car, fault : BOOLEAN, cost : Cost, voucher : Vouchers, auto : BOOLEAN]
  BY DEF CarRow
<1> HIDE DEF Vouchers
<1>3. \A row \in CarRow : /\ row.car \in Car /\ row.cost \in Cost /\ row.voucher \in Vouchers
                          /\ row.auto \in BOOLEAN /\ row.fault \in BOOLEAN
  BY <1>2
<1>4. \A c \in Car, fault, auto \in BOOLEAN, n \in Cost, s \in Vouchers :
        [car |-> c, fault |-> fault, cost |-> n, voucher |-> s, auto |-> auto] \in CarRow
  BY <1>2
<1> QED
  BY <1>1, <1>3, <1>4 DEF Vouchers

LEMMA SlipRowParts ==
  /\ \A row \in SlipRow : row.car \in Car \cup {Null} /\ row.amount \in Cost
                          /\ row.fleet \in BOOLEAN /\ row.reversed \in BOOLEAN
  /\ \A c \in Car \cup {Null}, n \in Cost, fleet \in BOOLEAN, reversed \in BOOLEAN :
        [car |-> c, amount |-> n, fleet |-> fleet, reversed |-> reversed] \in SlipRow
  /\ \A row \in SlipRow : [row EXCEPT !.reversed = TRUE] \in SlipRow
<1> DEFINE Cars == Car \cup {Null}
<1>1. SlipRow = [car : Cars, amount : Cost, fleet : BOOLEAN, reversed : BOOLEAN] /\ TRUE \in BOOLEAN
  BY DEF SlipRow
<1> HIDE DEF Cars
<1>2. \A row \in SlipRow : row.car \in Cars /\ row.amount \in Cost
                          /\ row.fleet \in BOOLEAN /\ row.reversed \in BOOLEAN
  BY <1>1
<1>3. \A c \in Cars, n \in Cost, fleet \in BOOLEAN, reversed \in BOOLEAN :
        [car |-> c, amount |-> n, fleet |-> fleet, reversed |-> reversed] \in SlipRow
  BY <1>1
<1>4. \A row \in SlipRow : [row EXCEPT !.reversed = TRUE] \in SlipRow
  BY <1>1
<1> QED
  BY <1>2, <1>3, <1>4 DEF Cars

(* Without takes rows away and leaves the others.                           *)
LEMMA WithoutRows ==
  ASSUME NEW R, carRecord \in [CarRecord -> CarRow \cup {Null}]
  PROVE  /\ Without(R) \in [CarRecord -> CarRow \cup {Null}]
         /\ \A r \in CarRecord : r \in R => Without(R)[r] = Null
         /\ \A r \in CarRecord : r \notin R => Without(R)[r] = carRecord[r]
BY DEF Without

LEMMA FleetTypeStep == FleetTypeOK /\ [FleetNext]_fleetVars => FleetTypeOK'
<1> SUFFICES ASSUME FleetTypeOK, [FleetNext]_fleetVars PROVE FleetTypeOK'
  OBVIOUS
<1> USE DEF FleetTypeOK
<1>1. CASE UNCHANGED fleetVars
  BY <1>1 DEF fleetVars
<1>2. ASSUME NEW r \in CarRecord, NEW c \in Car, NEW n \in Cost, NEW fault \in BOOLEAN,
             AddRecord(r, c, fault, n)
      PROVE  FleetTypeOK'
  BY <1>2, CarRowParts DEF AddRecord
<1>3. ASSUME NEW r \in CarRecord, NEW c \in Car, NEW n \in Cost, ChangeRecord(r, c, n)
      PROVE  FleetTypeOK'
  <2>1. carRecord[r] \in CarRow /\ Null \in Slip \cup {Null}
    BY <1>3 DEF ChangeRecord
  <2>2. Amended(carRecord[r], c, n) \in CarRow
    BY <2>1, CarRowUpdates
  <2>3. carRecord' = [carRecord EXCEPT ![r] = Amended(carRecord[r], c, n)]
    BY <1>3 DEF ChangeRecord, Amended
  <2> QED
    BY <1>3, <2>2, <2>3 DEF ChangeRecord
<1>4. ASSUME NEW r \in CarRecord, DropRecord(r) PROVE FleetTypeOK'
  BY <1>4, WithoutRows DEF DropRecord
<1>5. ASSUME NEW rows \in [CarRecord -> CarRow \cup {Null}], NEW r \in CarRecord, rows[r] # Null,
             NEW s \in Slip \cup {Null}
      PROVE  [rows EXCEPT ![r].voucher = s] \in [CarRecord -> CarRow \cup {Null}]
  <2>1. rows[r] \in CarRow
    BY <1>5
  <2>2. \A c \in Car, n \in Cost : Linked(rows[r], s) \in CarRow
    BY <2>1, CarRowUpdates
  <2>3. rows[r].car \in Car /\ rows[r].cost \in Cost
    BY <2>1, CarRowParts
  <2> QED
    BY <2>2, <2>3 DEF Linked
<1>6. ASSUME NEW r \in CarRecord, UnlinkVoucher(r) PROVE FleetTypeOK'
  BY <1>5, <1>6 DEF UnlinkVoucher
<1>7. ASSUME NEW rows \in [CarRecord -> CarRow \cup {Null}], NEW r \in CarRecord, NEW s \in Slip,
             NEW c \in Car \cup {Null}, NEW n \in Cost, NEW fleet \in BOOLEAN,
             Synced(rows, r, s, c, n, fleet)
      PROVE  carRecord' \in [CarRecord -> CarRow \cup {Null}]
  <2>1. CASE fleet \/ c = Null
    BY <1>7, <2>1 DEF Synced
  <2>2. CASE c \in Car /\ ~ fleet
    <3>1. s \in Slip \cup {Null} /\ TRUE \in BOOLEAN /\ FALSE \in BOOLEAN
      OBVIOUS
    <3> DEFINE row == [car |-> c, fault |-> FALSE, cost |-> n, voucher |-> s, auto |-> TRUE]
    <3>2. row \in CarRow
      BY <2>2, <3>1, CarRowParts
    <3>3. carRecord' = rows \/ carRecord' = [rows EXCEPT ![r] = row]
      BY <1>7 DEF Synced
    <3> HIDE DEF row
    <3> QED
      BY <3>2, <3>3, <1>7
  <2> QED
    BY <2>1, <2>2
<1>8. ASSUME NEW s \in Slip, NEW c \in Car \cup {Null}, NEW n \in Cost, NEW fleet \in BOOLEAN,
             Noted(s, c, n, fleet)
      PROVE  slip' \in [Slip -> SlipRow \cup {Null}]
  BY <1>8, SlipRowParts DEF Noted
<1>9. ASSUME NEW s \in Slip, NEW r \in CarRecord, NEW c \in Car \cup {Null}, NEW n \in Cost,
             CreateExpense(s, r, c, n)
      PROVE  FleetTypeOK'
  BY <1>7, <1>8, <1>9 DEF CreateExpense
<1>10. ASSUME NEW s \in Slip, NEW r \in CarRecord, NEW c \in Car \cup {Null}, NEW n \in Cost,
              PostExpense(r, s, c, n)
       PROVE  FleetTypeOK'
  BY <1>5, <1>8, <1>10 DEF PostExpense
<1>11. ASSUME NEW s \in Slip, NEW r \in CarRecord, NEW c \in Car \cup {Null}, NEW n \in Cost,
              NEW fleet \in BOOLEAN, EditExpense(s, r, c, n, fleet)
       PROVE  FleetTypeOK'
  <2> DEFINE rows == Without(MadeBy(s))
  <2>1. rows \in [CarRecord -> CarRow \cup {Null}] /\ Synced(rows, r, s, c, n, fleet)
    BY <1>11, WithoutRows DEF EditExpense
  <2> HIDE DEF rows, FleetTypeOK
  <2>2. carRecord' \in [CarRecord -> CarRow \cup {Null}]
    BY <1>7, <2>1
  <2> USE DEF FleetTypeOK
  <2>3. slip' \in [Slip -> SlipRow \cup {Null}]
    BY <1>8, <1>11 DEF EditExpense
  <2> QED
    BY <1>11, <2>2, <2>3 DEF EditExpense
<1>12. ASSUME NEW s \in Slip, NEW r \in CarRecord, LinkVoucher(r, s) PROVE FleetTypeOK'
  BY <1>5, <1>12, WithoutRows DEF LinkVoucher
<1>13. ASSUME NEW s \in Slip, ReverseExpense(s) PROVE FleetTypeOK'
  <2>1. slip[s] \in SlipRow
    BY <1>13 DEF ReverseExpense, VoucherLive
  <2>2. [slip[s] EXCEPT !.reversed = TRUE] \in SlipRow
    BY <2>1, SlipRowParts
  <2>3. slip' = [slip EXCEPT ![s] = [slip[s] EXCEPT !.reversed = TRUE]]
    BY <1>13 DEF ReverseExpense
  <2> QED
    BY <1>13, <2>2, <2>3, WithoutRows DEF ReverseExpense
<1>14. ASSUME NEW s \in Slip, DeleteExpense(s) PROVE FleetTypeOK'
  <2>1. ASSUME NEW r \in CarRecord, r \in LinkedTo(s) PROVE Linked(carRecord[r], Null) \in CarRow
    <3>1. carRecord[r] \in CarRow /\ Null \in Slip \cup {Null}
      BY <2>1 DEF LinkedTo
    <3>2. carRecord[r].car \in Car /\ carRecord[r].cost \in Cost
      BY <3>1, CarRowParts
    <3> QED
      BY <3>1, <3>2, CarRowUpdates
  <2>2. carRecord' = [r \in CarRecord |->
          IF r \in MadeBy(s) THEN Null
          ELSE IF r \in LinkedTo(s) THEN Linked(carRecord[r], Null) ELSE carRecord[r]]
    BY <1>14 DEF DeleteExpense, Linked
  <2> QED
    BY <1>14, <2>1, <2>2 DEF DeleteExpense
<1>15. ASSUME NEW c \in Car, NEW e \in Driver \cup {Null}, NEW day \in Day, AssignDriver(c, e, day)
       PROVE  FleetTypeOK'
  <2>1. {[car |-> c, driver |-> x, since |-> day] : x \in {e} \ {Null}}
          \subseteq [car : Car, driver : Driver, since : Day]
    OBVIOUS
  <2>2. driving' \subseteq [car : Car, driver : Driver, since : Day]
    BY <1>15, <2>1 DEF AssignDriver
  <2>3. driverOf' \in [Car -> Driver \cup {Null}]
    BY <1>15 DEF AssignDriver
  <2> QED
    BY <1>15, <2>2, <2>3 DEF AssignDriver
<1> QED
  <2> HIDE DEF FleetTypeOK
  <2>1. CASE RecordNext
    BY <2>1, <1>2, <1>3, <1>4, <1>6 DEF RecordNext
  <2>2. CASE ExpenseNext
    BY <2>2, <1>9, <1>10, <1>11, <1>12, <1>13, <1>14 DEF ExpenseNext
  <2>3. CASE DriverNext
    BY <2>3, <1>15 DEF DriverNext
  <2> QED
    BY <1>1, <2>1, <2>2, <2>3 DEF FleetNext

LEMMA DriverStep ==
  FleetTypeOK /\ DriversAgree /\ [FleetNext]_fleetVars => DriversAgree'
<1> SUFFICES ASSUME FleetTypeOK, DriversAgree, [FleetNext]_fleetVars PROVE DriversAgree'
  OBVIOUS
<1>1. CASE UNCHANGED <<driving, driverOf>>
  BY <1>1 DEF DriversAgree
<1>2. CASE RecordNext \/ ExpenseNext \/ UNCHANGED fleetVars
  BY ZenonT(40), <1>1, <1>2 DEF RecordNext, ExpenseNext, AddRecord, ChangeRecord, DropRecord, UnlinkVoucher,
     CreateExpense, PostExpense, EditExpense, LinkVoucher, ReverseExpense, DeleteExpense, fleetVars
<1>3. ASSUME NEW c \in Car, NEW e \in Driver \cup {Null}, NEW day \in Day, AssignDriver(c, e, day)
      PROVE  DriversAgree'
  <2>0. /\ driving \subseteq [car : Car, driver : Driver, since : Day]
        /\ driverOf \in [Car -> Driver \cup {Null}] /\ Null \notin Driver
    BY CarRowParts DEF FleetTypeOK
  <2>1. CASE \E a \in OpenFor(c) : a.driver = e
    <3>1. driverOf[c] = e
      BY <2>0, <2>1 DEF DriversAgree, OpenFor
    <3> QED
      BY <1>3, <2>0, <2>1, <3>1, <1>1 DEF AssignDriver
  <2>2. CASE ~ \E a \in OpenFor(c) : a.driver = e
    <3> DEFINE others == IF e = Null THEN {} ELSE OtherCars(e)
               gone == OpenFor(c) \cup others
               new == [car |-> c, driver |-> e, since |-> day]
    <3>1. driving' = (driving \ gone) \cup (IF e = Null THEN {} ELSE {new})
      BY <1>3, <2>2 DEF AssignDriver
    <3>2. \A a \in driving : a \in gone <=> a.car = c \/ (e # Null /\ a.driver = e)
      BY DEF OpenFor, OtherCars
    <3>3. /\ driverOf'[c] = e
          /\ \A d \in Car : d # c => driverOf'[d] = IF driverOf[d] = e /\ \E a \in others : a.car = d
                                                  THEN Null ELSE driverOf[d]
      BY <1>3, <2>2 DEF AssignDriver
    <3>4. \A a \in driving' : \/ a \in driving /\ a.car # c /\ a.driver # e
                              \/ e # Null /\ a.car = c /\ a.driver = e /\ a = new
      BY <2>0, <3>1, <3>2
    <3>5. \A a, b \in driving' : a.car = b.car \/ a.driver = b.driver => a = b
      BY <3>4 DEF DriversAgree
    <3>6. ASSUME NEW d \in Car, NEW x \in Driver
          PROVE  driverOf'[d] = x <=> \E a \in driving' : a.car = d /\ a.driver = x
      <4>1. CASE d = c
        <5>1. CASE e = Null
          BY <4>1, <5>1, <2>0, <3>3, <3>4
        <5>2. CASE e # Null
          <6>1. new \in driving' /\ new.car = c /\ new.driver = e
            BY <5>2, <3>1
          <6> QED
            BY <4>1, <6>1, <3>3, <3>4
        <5> QED
          BY <5>1, <5>2
      <4>2. CASE d # c
        <5>1. CASE x = e
          <6>1. driverOf'[d] # x
            <7>1. CASE driverOf[d] = e
              <8>1. PICK a \in driving : a.car = d /\ a.driver = e
                BY <5>1, <7>1 DEF DriversAgree
              <8>2. a \in others
                BY <8>1, <5>1, <2>0 DEF OtherCars
              <8> QED
                BY <4>2, <5>1, <7>1, <8>1, <8>2, <3>3, <2>0
            <7>2. CASE driverOf[d] # e
              BY <4>2, <5>1, <7>2, <3>3
            <7> QED
              BY <7>1, <7>2
          <6>2. ~ \E a \in driving' : a.car = d /\ a.driver = x
            BY <4>2, <5>1, <3>4
          <6> QED
            BY <6>1, <6>2
        <5>2. CASE x # e
          <6>1. driverOf'[d] = x <=> driverOf[d] = x
            BY <4>2, <5>2, <3>3, <2>0
          <6>2. (\E a \in driving : a.car = d /\ a.driver = x)
                  <=> \E a \in driving' : a.car = d /\ a.driver = x
            BY <4>2, <5>2, <3>1, <3>2, <3>4
          <6> QED
            BY <6>1, <6>2 DEF DriversAgree
        <5> QED
          BY <5>1, <5>2
      <4> QED
        BY <4>1, <4>2
    <3> QED
      BY <3>5, <3>6 DEF DriversAgree
  <2> QED
    BY <2>1, <2>2
<1> QED
  BY <1>2, <1>3 DEF FleetNext, DriverNext
(* Row by row: a voucher has one record, it exists, and a record it made    *)
(* says what it says.                                                       *)
Matches(row) == /\ VoucherLive(row.voucher) /\ row.cost = slip[row.voucher].amount
                /\ row.car = slip[row.voucher].car

OneRecordEach ==
    /\ \A r, x \in CarRecord :
          /\ carRecord[r] # Null /\ carRecord[x] # Null
          /\ carRecord[r].voucher # Null /\ carRecord[r].voucher = carRecord[x].voucher
          => r = x
    /\ \A r \in CarRecord : carRecord[r] # Null /\ carRecord[r].voucher # Null =>
          slip[carRecord[r].voucher] # Null
    /\ \A r \in CarRecord : carRecord[r] # Null /\ carRecord[r].auto =>
          carRecord[r].voucher # Null /\ Matches(carRecord[r])

LEMMA OneRecordMeans == FleetTypeOK /\ OneRecordEach => CountedOnce
BY CarRowParts DEF FleetTypeOK, OneRecordEach, CountedOnce, LinkedTo, MadeBy, Matches

(* What a step leaves of a record's link, or makes of it.                   *)
Free(r) == carRecord'[r] = Null \/ (carRecord'[r].voucher = Null /\ ~ carRecord'[r].auto)

KeepsLink(r) ==
    /\ carRecord[r] # Null /\ carRecord'[r].voucher = carRecord[r].voucher
    /\ carRecord[r].voucher # Null /\ slip'[carRecord[r].voucher] # Null
    /\ carRecord'[r].auto => /\ carRecord[r].auto /\ carRecord'[r].cost = carRecord[r].cost
                             /\ carRecord'[r].car = carRecord[r].car
                             /\ slip'[carRecord[r].voucher] = slip[carRecord[r].voucher]

LEMMA LinksKept ==
  ASSUME FleetTypeOK, OneRecordEach, \A r \in CarRecord : Free(r) \/ KeepsLink(r),
         \A r \in CarRecord : carRecord'[r] # Null => carRecord'[r].auto \in BOOLEAN
  PROVE  OneRecordEach'
<1>1. ASSUME NEW r \in CarRecord, carRecord'[r] # Null, carRecord'[r].voucher # Null \/ carRecord'[r].auto
      PROVE  KeepsLink(r)
  BY <1>1 DEF Free
<1>2. ASSUME NEW r \in CarRecord, carRecord'[r] # Null, carRecord'[r].auto
      PROVE  carRecord'[r].voucher # Null /\ Matches(carRecord[r])'
  BY <1>1, <1>2 DEF KeepsLink, OneRecordEach, Matches, VoucherLive
<1>3. ASSUME NEW r \in CarRecord, NEW x \in CarRecord, carRecord'[r] # Null, carRecord'[x] # Null,
             carRecord'[r].voucher # Null, carRecord'[r].voucher = carRecord'[x].voucher
      PROVE  r = x
  BY <1>1, <1>3 DEF KeepsLink, OneRecordEach
<1>4. ASSUME NEW r \in CarRecord, carRecord'[r] # Null, carRecord'[r].voucher # Null
      PROVE  slip'[carRecord'[r].voucher] # Null
  BY <1>1, <1>4 DEF KeepsLink
<1> QED
  BY <1>2, <1>3, <1>4 DEF OneRecordEach

(* One record is linked to a voucher that no other has.                     *)
LEMMA LinkMade ==
  ASSUME FleetTypeOK, OneRecordEach, NEW x \in CarRecord, NEW s \in Slip,
         \A r \in CarRecord \ {x} : Free(r) \/ (KeepsLink(r) /\ carRecord[r].voucher # s),
         carRecord'[x] # Null, carRecord'[x].voucher = s, slip'[s] # Null,
         carRecord'[x].auto => /\ ~ slip'[s].reversed /\ carRecord'[x].cost = slip'[s].amount
                               /\ carRecord'[x].car = slip'[s].car
  PROVE  OneRecordEach'
<1>0. s # Null
  BY CarRowParts
<1>1. ASSUME NEW r \in CarRecord, r # x, carRecord'[r] # Null,
             carRecord'[r].voucher # Null \/ carRecord'[r].auto
      PROVE  KeepsLink(r) /\ carRecord'[r].voucher # s
  BY <1>1 DEF Free, KeepsLink
<1>2. ASSUME NEW r \in CarRecord, carRecord'[r] # Null, carRecord'[r].auto
      PROVE  carRecord'[r].voucher # Null /\ Matches(carRecord[r])'
  <2>1. CASE r = x
    BY <1>0, <1>2, <2>1 DEF Matches, VoucherLive
  <2>2. CASE r # x
    BY <1>1, <1>2, <2>2 DEF KeepsLink, OneRecordEach, Matches, VoucherLive
  <2> QED
    BY <2>1, <2>2
<1>3. ASSUME NEW r \in CarRecord, NEW y \in CarRecord, carRecord'[r] # Null, carRecord'[y] # Null,
             carRecord'[r].voucher # Null, carRecord'[r].voucher = carRecord'[y].voucher
      PROVE  r = y
  BY <1>1, <1>3 DEF KeepsLink, OneRecordEach
<1>4. ASSUME NEW r \in CarRecord, carRecord'[r] # Null, carRecord'[r].voucher # Null
      PROVE  slip'[carRecord'[r].voucher] # Null
  BY <1>1, <1>4 DEF KeepsLink
<1> QED
  BY <1>2, <1>3, <1>4 DEF OneRecordEach
LEMMA CountedStep ==
  FleetTypeOK /\ OneRecordEach /\ [FleetNext /\ LeftToVouchers]_fleetVars => OneRecordEach'
<1> SUFFICES ASSUME FleetTypeOK, OneRecordEach, [FleetNext /\ LeftToVouchers]_fleetVars
             PROVE  OneRecordEach'
  OBVIOUS
<1>1. CASE UNCHANGED <<carRecord, slip>>
  BY <1>1 DEF OneRecordEach, Matches, VoucherLive
<1>2. ASSUME FleetNext, LeftToVouchers PROVE OneRecordEach'
  <2> USE <1>2
  <2>0. /\ carRecord \in [CarRecord -> CarRow \cup {Null}] /\ slip \in [Slip -> SlipRow \cup {Null}]
        /\ \A r \in CarRecord : carRecord[r] # Null => carRecord[r] \in CarRow
        /\ \A r \in CarRecord : carRecord[r] # Null => carRecord[r].voucher \in Slip \cup {Null}
        /\ \A r \in CarRecord : carRecord[r] # Null => carRecord[r].auto \in BOOLEAN
        /\ Null \notin Slip /\ Null \notin CarRow /\ Null \notin SlipRow
    BY CarRowParts DEF FleetTypeOK
  <2>1. \A r \in CarRecord : carRecord'[r] # Null => carRecord'[r].auto \in BOOLEAN
    BY FleetTypeStep, CarRowParts DEF FleetTypeOK
  <2>2. ASSUME NEW r \in CarRecord, UNCHANGED slip, carRecord'[r] \in {carRecord[r], Null}
        PROVE  Free(r) \/ KeepsLink(r)
    BY <2>0, <2>2 DEF Free, KeepsLink, OneRecordEach
  <2>3. ASSUME NEW r \in CarRecord, NEW s \in Slip, slip' = [slip EXCEPT ![s] = slip'[s]],
               carRecord[r] # Null => carRecord[r].voucher # s, carRecord'[r] \in {carRecord[r], Null}
        PROVE  Free(r) \/ (KeepsLink(r) /\ carRecord[r].voucher # s)
    BY <2>0, <2>3 DEF Free, KeepsLink, OneRecordEach
  <2>4. ASSUME NEW r \in CarRecord, carRecord[r] # Null, carRecord[r].auto, UNCHANGED slip
        PROVE  carRecord'[r] \in {carRecord[r], Null}
    BY <2>4 DEF LeftToVouchers
  <2>5. ASSUME NEW r \in CarRecord, NEW c \in Car, NEW n \in Cost, NEW fault \in BOOLEAN,
               AddRecord(r, c, fault, n)
        PROVE  OneRecordEach'
    <3>1. UNCHANGED slip /\ Free(r) /\ \A x \in CarRecord \ {r} : carRecord'[x] = carRecord[x]
      BY <2>5, <2>0 DEF AddRecord, Free
    <3> QED
      BY <3>1, <2>1, <2>2, LinksKept
  <2>6. ASSUME NEW r \in CarRecord, NEW c \in Car, NEW n \in Cost, ChangeRecord(r, c, n)
        PROVE  OneRecordEach'
    <3>1. UNCHANGED slip /\ carRecord[r] \in CarRow
          /\ \A x \in CarRecord \ {r} : carRecord'[x] = carRecord[x]
      BY <2>6, <2>0 DEF ChangeRecord
    <3>2. carRecord'[r] = Amended(carRecord[r], c, n)
      BY <2>0, <2>6 DEF ChangeRecord, Amended
    <3>3. carRecord'[r].voucher = carRecord[r].voucher /\ carRecord'[r].auto = carRecord[r].auto
      <4>1. Null \in Slip \cup {Null}
        OBVIOUS
      <4> QED
        BY <3>1, <3>2, <4>1, CarRowUpdates
    <3>4. CASE carRecord[r].auto
      BY <3>1, <3>4, <2>1, <2>2, <2>4, <2>6, LinksKept DEF ChangeRecord
    <3>5. CASE ~ carRecord[r].auto
      <4>1. Free(r) \/ KeepsLink(r)
        BY <3>1, <3>3, <3>5, <2>0 DEF Free, KeepsLink, OneRecordEach
      <4> QED
        BY <3>1, <4>1, <2>1, <2>2, LinksKept
    <3> QED
      BY <3>4, <3>5
  <2>7. ASSUME NEW r \in CarRecord, DropRecord(r) PROVE OneRecordEach'
    BY <2>7, <2>0, <2>1, <2>2, WithoutRows, LinksKept DEF DropRecord
  <2>8. ASSUME NEW r \in CarRecord, UnlinkVoucher(r) PROVE OneRecordEach'
    <3>1. UNCHANGED slip /\ carRecord[r] \in CarRow
          /\ \A x \in CarRecord \ {r} : carRecord'[x] = carRecord[x]
      BY <2>8, <2>0 DEF UnlinkVoucher
    <3>2. carRecord'[r] = Linked(carRecord[r], Null)
      BY <2>0, <2>8 DEF UnlinkVoucher, Linked
    <3>3. carRecord'[r].voucher = Null /\ carRecord'[r].auto = carRecord[r].auto
      <4>1. Null \in Slip \cup {Null} /\ carRecord[r].car \in Car /\ carRecord[r].cost \in Cost
        BY <3>1, CarRowParts
      <4> QED
        BY <3>1, <3>2, <4>1, CarRowUpdates
    <3>4. CASE carRecord[r].auto
      BY <3>1, <3>4, <2>1, <2>2, <2>4, <2>8, LinksKept DEF UnlinkVoucher
    <3>5. CASE ~ carRecord[r].auto
      BY <3>1, <3>3, <3>5, <2>1, <2>2, LinksKept DEF Free
    <3> QED
      BY <3>4, <3>5
  <2>9. ASSUME NEW s \in Slip, slip[s] = Null PROVE \A r \in CarRecord : carRecord[r] # Null => carRecord[r].voucher # s
    BY <2>9, <2>0 DEF OneRecordEach
  <2>10. ASSUME NEW s \in Slip, NEW c \in Car \cup {Null}, NEW n \in Cost, NEW fleet \in BOOLEAN,
                Noted(s, c, n, fleet)
         PROVE  /\ slip' = [slip EXCEPT ![s] = slip'[s]] /\ slip'[s].car = c /\ slip'[s].amount = n
                /\ ~ slip'[s].reversed /\ slip'[s] # Null
    <3> DEFINE row == [car |-> c, amount |-> n, fleet |-> fleet, reversed |-> FALSE]
    <3>1. row \in SlipRow /\ row.car = c /\ row.amount = n /\ ~ row.reversed
      <4>1. FALSE \in BOOLEAN
        OBVIOUS
      <4> QED
        BY <4>1, SlipRowParts
    <3>2. slip' = [slip EXCEPT ![s] = row]
      BY <2>10 DEF Noted
    <3> HIDE DEF row
    <3> QED
      BY <2>0, <3>1, <3>2
  <2>11. ASSUME NEW s \in Slip, NEW r \in CarRecord, NEW c \in Car \cup {Null}, NEW n \in Cost,
                CreateExpense(s, r, c, n)
         PROVE  OneRecordEach'
    <3>1. /\ slip' = [slip EXCEPT ![s] = slip'[s]] /\ slip'[s].car = c /\ slip'[s].amount = n
          /\ ~ slip'[s].reversed /\ slip'[s] # Null
          /\ \A x \in CarRecord : carRecord[x] # Null => carRecord[x].voucher # s
      <4>1. TRUE \in BOOLEAN /\ FALSE \in BOOLEAN
        OBVIOUS
      <4> QED
        BY <2>9, <2>10, <2>11, <4>1 DEF CreateExpense
    <3>2. CASE carRecord' = carRecord
      BY <3>1, <3>2, <2>1, <2>3, LinksKept
    <3>3. CASE c \in Car /\ carRecord' = [carRecord EXCEPT ![r] =
                  [car |-> c, fault |-> FALSE, cost |-> n, voucher |-> s, auto |-> TRUE]]
      <4> DEFINE row == [car |-> c, fault |-> FALSE, cost |-> n, voucher |-> s, auto |-> TRUE]
      <4>1. row # Null /\ row.voucher = s /\ row.cost = n /\ row.car = c
        <5>1. s \in Slip \cup {Null} /\ TRUE \in BOOLEAN /\ FALSE \in BOOLEAN
          OBVIOUS
        <5>2. row \in CarRow
          BY <3>3, <5>1, CarRowParts
        <5> QED
          BY <5>2, <2>0
      <4>2. carRecord'[r] = row /\ \A x \in CarRecord \ {r} : carRecord'[x] = carRecord[x]
        BY <2>0, <3>3
      <4> HIDE DEF row
      <4> QED
        BY <3>1, <4>1, <4>2, <2>3, LinkMade
    <3> QED
      BY <2>11, <3>2, <3>3 DEF CreateExpense, Synced
  <2>12. ASSUME NEW s \in Slip, NEW r \in CarRecord, carRecord[r] # Null
         PROVE  LET row == Linked(carRecord[r], s) IN
                row \in CarRow /\ row # Null /\ row.voucher = s /\ row.auto = carRecord[r].auto
    <3>1. s \in Slip \cup {Null} /\ carRecord[r] \in CarRow /\ carRecord[r].car \in Car
          /\ carRecord[r].cost \in Cost
      BY <2>12, <2>0, CarRowParts
    <3>2. /\ Linked(carRecord[r], s) \in CarRow /\ Linked(carRecord[r], s).voucher = s
          /\ Linked(carRecord[r], s).auto = carRecord[r].auto
      BY <3>1, CarRowUpdates
    <3> QED
      BY <3>2, <2>0
  <2>13. ASSUME NEW s \in Slip, NEW r \in CarRecord, NEW c \in Car \cup {Null}, NEW n \in Cost,
                PostExpense(r, s, c, n)
         PROVE  OneRecordEach'
    <3>1. /\ slip' = [slip EXCEPT ![s] = slip'[s]] /\ slip'[s] # Null
          /\ \A x \in CarRecord : carRecord[x] # Null => carRecord[x].voucher # s
      <4>1. TRUE \in BOOLEAN /\ FALSE \in BOOLEAN
        OBVIOUS
      <4> QED
        BY <2>9, <2>10, <2>13, <4>1 DEF PostExpense
    <3>2. carRecord[r] # Null /\ ~ carRecord[r].auto
      BY <2>13 DEF PostExpense, OneRecordEach, Matches
    <3>3. carRecord'[r] = Linked(carRecord[r], s)
          /\ \A x \in CarRecord \ {r} : carRecord'[x] = carRecord[x]
      BY <2>0, <2>13 DEF PostExpense, Linked
    <3> QED
      BY <3>1, <3>2, <3>3, <2>3, <2>12, LinkMade
  <2>14. ASSUME NEW s \in Slip, NEW r \in CarRecord, LinkVoucher(r, s) PROVE OneRecordEach'
    <3> DEFINE kept == Without(MadeBy(s))
    <3>1. /\ carRecord[r] # Null /\ UNCHANGED slip /\ slip[s] # Null
          /\ LinkedTo(s) \ MadeBy(s) \subseteq {r}
      BY <2>14 DEF LinkVoucher, VoucherLive
    <3>2. \A x \in CarRecord : kept[x] \in {carRecord[x], Null} /\ (x \in MadeBy(s) => kept[x] = Null)
      BY <2>0, WithoutRows
    <3>3. CASE kept[r] = Null
      BY <2>14, <3>1, <3>2, <3>3, <2>1, <2>2, LinksKept DEF LinkVoucher
    <3>4. CASE kept[r] # Null
      <4>1. kept[r] = carRecord[r] /\ r \notin MadeBy(s)
        BY <3>2, <3>4
      <4>2. carRecord' = [kept EXCEPT ![r].voucher = s]
        BY <2>14, <3>4 DEF LinkVoucher
      <4>3. /\ carRecord'[r] = Linked(carRecord[r], s)
            /\ \A x \in CarRecord \ {r} : carRecord'[x] = kept[x]
        BY <4>1, <4>2, <2>0, WithoutRows DEF Linked
      <4>4. ~ carRecord[r].auto
        <5> SUFFICES ASSUME carRecord[r].auto PROVE FALSE
          OBVIOUS
        <5>1. carRecord'[r] = carRecord[r]
          BY <2>4, <3>1, <4>3, <2>12
        <5>2. PICK row : row = Linked(carRecord[r], s) /\ row.voucher = s
          BY <3>1, <2>12
        <5>3. carRecord[r] = row
          BY <4>3, <5>1, <5>2
        <5>4. carRecord[r].voucher = s
          BY <5>2, <5>3
        <5> QED
          BY <5>4, <4>1, <3>1 DEF MadeBy, LinkedTo
      <4>5. ASSUME NEW x \in CarRecord \ {r} PROVE Free(x) \/ (KeepsLink(x) /\ carRecord[x].voucher # s)
        <5>1. CASE carRecord'[x] = Null
          BY <5>1 DEF Free
        <5>2. CASE carRecord'[x] # Null
          <6>1. carRecord'[x] = carRecord[x] /\ x \notin MadeBy(s)
            BY <5>2, <4>3, <3>2
          <6>2. carRecord[x].voucher # s
            BY <6>1, <3>1, <5>2 DEF LinkedTo
          <6> QED
            BY <6>1, <6>2, <3>1, <2>2
        <5> QED
          BY <5>1, <5>2
      <4> QED
        BY <3>1, <4>3, <4>4, <4>5, <2>12, LinkMade
    <3> QED
      BY <3>3, <3>4
  <2>15. ASSUME NEW s \in Slip, NEW r \in CarRecord, NEW c \in Car \cup {Null}, NEW n \in Cost,
                NEW fleet \in BOOLEAN, EditExpense(s, r, c, n, fleet)
         PROVE  OneRecordEach'
    <3> DEFINE kept == Without(MadeBy(s))
    <3>1. /\ slip' = [slip EXCEPT ![s] = slip'[s]] /\ slip'[s].car = c /\ slip'[s].amount = n
          /\ ~ slip'[s].reversed /\ slip'[s] # Null
      <4>1. TRUE \in BOOLEAN /\ FALSE \in BOOLEAN
        OBVIOUS
      <4> QED
        BY <2>10, <2>15, <4>1 DEF EditExpense
    <3>2. \A x \in CarRecord : kept[x] \in {carRecord[x], Null} /\ (x \in MadeBy(s) => kept[x] = Null)
      BY <2>0, WithoutRows
    <3>3. ASSUME NEW x \in CarRecord, carRecord'[x] = kept[x] PROVE Free(x) \/ KeepsLink(x)
      <4>1. CASE carRecord'[x] = Null
        BY <4>1 DEF Free
      <4>2. CASE carRecord'[x] # Null
        <5>1. carRecord'[x] = carRecord[x] /\ x \notin MadeBy(s) /\ carRecord[x] # Null
          BY <4>2, <3>3, <3>2
        <5>2. CASE carRecord[x].voucher = s
          <6>1. ~ carRecord[x].auto
            BY <5>1, <5>2 DEF MadeBy, LinkedTo
          <6> QED
            BY <5>1, <5>2, <6>1, <3>1, <2>0 DEF KeepsLink
        <5>3. CASE carRecord[x].voucher # s
          BY <5>1, <5>3, <3>1, <2>3
        <5> QED
          BY <5>2, <5>3
      <4> QED
        BY <4>1, <4>2
    <3>4. CASE carRecord' = kept
      BY <3>3, <3>4, <2>1, LinksKept
    <3>5. CASE c \in Car /\ carRecord' = [kept EXCEPT ![r] =
                  [car |-> c, fault |-> FALSE, cost |-> n, voucher |-> s, auto |-> TRUE]]
      <4> DEFINE row == [car |-> c, fault |-> FALSE, cost |-> n, voucher |-> s, auto |-> TRUE]
      <4>1. row # Null /\ row.voucher = s /\ row.cost = n /\ row.car = c /\ row.auto
        <5>1. s \in Slip \cup {Null} /\ TRUE \in BOOLEAN /\ FALSE \in BOOLEAN
          OBVIOUS
        <5>2. row \in CarRow
          BY <3>5, <5>1, CarRowParts
        <5> QED
          BY <5>2, <2>0
      <4>2. carRecord'[r] = row /\ \A x \in CarRecord \ {r} : carRecord'[x] = kept[x]
        BY <2>0, <3>5, WithoutRows
      <4> HIDE DEF row
      <4>3. r \in MadeBy(s)'
        BY <4>1, <4>2 DEF MadeBy, LinkedTo
      <4>4. LinkedTo(s) = MadeBy(s)
        BY <4>3 DEF LeftToVouchers
      <4>5. ASSUME NEW x \in CarRecord \ {r} PROVE Free(x) \/ (KeepsLink(x) /\ carRecord[x].voucher # s)
        <5>1. CASE carRecord'[x] = Null
          BY <5>1 DEF Free
        <5>2. CASE carRecord'[x] # Null
          <6>1. carRecord'[x] = carRecord[x] /\ x \notin MadeBy(s)
            BY <5>2, <4>2, <3>2
          <6>2. carRecord[x].voucher # s
            BY <6>1, <4>4, <5>2 DEF LinkedTo
          <6> QED
            BY <6>1, <6>2, <3>1, <2>3
        <5> QED
          BY <5>1, <5>2
      <4> QED
        BY <3>1, <4>1, <4>2, <4>5, LinkMade
    <3> QED
      BY <2>15, <3>4, <3>5 DEF EditExpense, Synced
  <2>16. ASSUME NEW s \in Slip, ReverseExpense(s) PROVE OneRecordEach'
    <3>1. /\ slip[s] # Null /\ \A x \in Slip \ {s} : slip'[x] = slip[x]
          /\ \A x \in CarRecord : /\ carRecord'[x] \in {carRecord[x], Null}
                                  /\ x \in MadeBy(s) => carRecord'[x] = Null
      BY <2>0, <2>16, WithoutRows DEF ReverseExpense, VoucherLive
    <3>2. slip'[s] # Null
      <4>1. slip[s] \in SlipRow
        BY <2>0, <3>1
      <4>2. [slip[s] EXCEPT !.reversed = TRUE] \in SlipRow
        BY <4>1, SlipRowParts
      <4> QED
        BY <2>0, <2>16, <4>2 DEF ReverseExpense
    <3>3. ASSUME NEW x \in CarRecord PROVE Free(x) \/ KeepsLink(x)
      <4>1. CASE carRecord'[x] = Null
        BY <4>1 DEF Free
      <4>2. CASE carRecord'[x] # Null
        <5>1. carRecord'[x] = carRecord[x] /\ x \notin MadeBy(s) /\ carRecord[x] # Null
          BY <4>2, <3>1
        <5>2. CASE carRecord[x].voucher = s
          <6>1. ~ carRecord[x].auto
            BY <5>1, <5>2 DEF MadeBy, LinkedTo
          <6> QED
            BY <5>1, <5>2, <6>1, <3>2, <2>0 DEF KeepsLink
        <5>3. CASE carRecord[x].voucher # s
          BY <5>1, <5>3, <3>1, <2>0 DEF KeepsLink, Free, OneRecordEach
        <5> QED
          BY <5>2, <5>3
      <4> QED
        BY <4>1, <4>2
    <3> QED
      BY <3>3, <2>1, LinksKept
  <2>17. ASSUME NEW s \in Slip, DeleteExpense(s) PROVE OneRecordEach'
    <3>1. \A x \in Slip \ {s} : slip'[x] = slip[x]
      BY <2>0, <2>17 DEF DeleteExpense
    <3>2. ASSUME NEW x \in CarRecord PROVE Free(x) \/ KeepsLink(x)
      <4>1. CASE x \in MadeBy(s)
        BY <4>1, <2>17 DEF DeleteExpense, Free
      <4>2. CASE x \in LinkedTo(s) \ MadeBy(s)
        <5>1. carRecord[x] \in CarRow /\ ~ carRecord[x].auto
          BY <4>2, <2>0 DEF LinkedTo, MadeBy
        <5>2. carRecord'[x] = Linked(carRecord[x], Null)
          BY <4>2, <2>17 DEF DeleteExpense, Linked
        <5>3. Null \in Slip \cup {Null} /\ carRecord[x].car \in Car /\ carRecord[x].cost \in Cost
          BY <5>1, CarRowParts
        <5>4. carRecord'[x].voucher = Null /\ carRecord'[x].auto = carRecord[x].auto
          BY <5>1, <5>2, <5>3, CarRowUpdates
        <5> QED
          BY <5>1, <5>4 DEF Free
      <4>3. CASE x \notin LinkedTo(s)
        <5>1. carRecord'[x] = carRecord[x]
          BY <4>3, <2>17 DEF DeleteExpense, MadeBy
        <5>2. carRecord[x] # Null => carRecord[x].voucher # s
          BY <4>3 DEF LinkedTo
        <5> QED
          BY <5>1, <5>2, <3>1, <2>0 DEF KeepsLink, Free, OneRecordEach
      <4> QED
        BY <4>1, <4>2, <4>3
    <3> QED
      BY <3>2, <2>1, LinksKept
  <2>18. CASE DriverNext
    BY <2>18, <1>1 DEF DriverNext, AssignDriver
  <2>19. CASE RecordNext
    BY <2>19, <2>5, <2>6, <2>7, <2>8 DEF RecordNext
  <2>20. CASE ExpenseNext
    BY <2>20, <2>11, <2>13, <2>14, <2>15, <2>16, <2>17 DEF ExpenseNext
  <2> QED
    BY <2>18, <2>19, <2>20 DEF FleetNext
<1> QED
  BY <1>1, <1>2 DEF fleetVars

(* Drivers are told apart, whatever happens to the records of what the      *)
(* vehicles cost (fleet_service.py: assign_driver).                         *)
THEOREM DriversToldApart == FleetSpec => [](FleetTypeOK /\ DriversAgree)
<1>1. FleetInit => FleetTypeOK /\ DriversAgree
  BY CarRowParts DEF FleetInit, FleetTypeOK, DriversAgree
<1> QED
  BY <1>1, FleetTypeStep, DriverStep, PTL DEF FleetSpec

(* And where records are left to their vouchers, what vehicles cost is      *)
(* counted once and as it was paid (fleet_service.py:                       *)
(* sync_expense_voucher, link_voucher).                                     *)
THEOREM FleetCountsOnce ==
  FleetInit /\ [][FleetNext /\ LeftToVouchers]_fleetVars => []FleetAddsUp
<1> DEFINE Inv == FleetTypeOK /\ DriversAgree /\ OneRecordEach
<1>1. FleetInit => Inv
  BY CarRowParts DEF FleetInit, FleetTypeOK, DriversAgree, OneRecordEach
<1>2. Inv /\ [FleetNext /\ LeftToVouchers]_fleetVars => Inv'
  <2>1. [FleetNext /\ LeftToVouchers]_fleetVars => [FleetNext]_fleetVars
    OBVIOUS
  <2> QED
    BY <2>1, FleetTypeStep, DriverStep, CountedStep
<1>3. Inv => FleetAddsUp
  BY OneRecordMeans DEF FleetAddsUp
<1> HIDE DEF Inv
<1> QED
  BY <1>1, <1>2, <1>3, PTL
-----------------------------------------------------------------------------
(* The journal. *)

States == {"draft", "posted", "cancelled"}
Digest == Seq(Entry \X JournalId \X Month \X Text)
Reversed == Entry \cup {Null}

LEMMA EntryRowIs ==
  EntryRow = [state : States, journal : JournalId, month : Month, text : Text, reverses : Reversed,
              numbered : BOOLEAN, place : Nat, seal : Digest]
BY DEF EntryRow, States, Digest, Reversed

LEMMA EntryRowParts ==
  ASSUME NEW row \in EntryRow
  PROVE  /\ row.state \in States /\ row.journal \in JournalId /\ row.month \in Month
         /\ row.text \in Text /\ row.reverses \in Reversed /\ row.numbered \in BOOLEAN
         /\ row.place \in Nat /\ row.seal \in Digest
BY EntryRowIs

Rewrite(row, j, m, text) == [row EXCEPT !.journal = j, !.month = m, !.text = text]

LEMMA RewrittenRow ==
  ASSUME NEW row \in EntryRow, NEW j \in JournalId, NEW m \in Month, NEW text \in Text
  PROVE  /\ Rewrite(row, j, m, text) \in EntryRow
         /\ Rewrite(row, j, m, text).journal = j /\ Rewrite(row, j, m, text).month = m
         /\ Rewrite(row, j, m, text).text = text
         /\ Rewrite(row, j, m, text).state = row.state
         /\ Rewrite(row, j, m, text).reverses = row.reverses
         /\ Rewrite(row, j, m, text).numbered = row.numbered
         /\ Rewrite(row, j, m, text).place = row.place /\ Rewrite(row, j, m, text).seal = row.seal
BY EntryRowIs DEF Rewrite

LEMMA StateRow ==
  ASSUME NEW row \in EntryRow, NEW s \in States
  PROVE  LET new == [row EXCEPT !.state = s] IN
         /\ new \in EntryRow /\ new.state = s
         /\ new.journal = row.journal /\ new.month = row.month /\ new.text = row.text
         /\ new.reverses = row.reverses /\ new.numbered = row.numbered
         /\ new.place = row.place /\ new.seal = row.seal
BY EntryRowIs

LEMMA BlankRow ==
  ASSUME NEW j \in JournalId, NEW m \in Month, NEW text \in Text
  PROVE  /\ Blank(j, m, text) \in EntryRow /\ Blank(j, m, text).state = "draft"
         /\ Blank(j, m, text).month = m /\ Blank(j, m, text).journal = j
         /\ Blank(j, m, text).reverses = Null /\ Blank(j, m, text).place = 0
         /\ Blank(j, m, text).seal = <<>> /\ ~ Blank(j, m, text).numbered
<1>1. "draft" \in States /\ Null \in Reversed /\ <<>> \in Digest /\ 0 \in Nat
  BY DEF States, Reversed, Digest
<1> QED
  BY <1>1, EntryRowIs DEF Blank

Reversal(m, text, e) == [Blank(Misc, m, text) EXCEPT !.reverses = e]

LEMMA ReversedRow ==
  ASSUME NEW row \in EntryRow, NEW e \in Entry
  PROVE  LET new == [row EXCEPT !.reverses = e] IN
         /\ new \in EntryRow /\ new.reverses = e /\ new.state = row.state
         /\ new.journal = row.journal /\ new.month = row.month
         /\ new.numbered = row.numbered /\ new.place = row.place /\ new.seal = row.seal
<1>1. e \in Reversed
  BY DEF Reversed
<1> QED
  BY <1>1, EntryRowIs

LEMMA ReversalRow ==
  ASSUME NEW m \in Month, NEW text \in Text, NEW e \in Entry
  PROVE  /\ Reversal(m, text, e) \in EntryRow /\ Reversal(m, text, e).state = "draft"
         /\ Reversal(m, text, e).month = m /\ Reversal(m, text, e).journal = Misc
         /\ Reversal(m, text, e).reverses = e /\ Reversal(m, text, e).place = 0
         /\ Reversal(m, text, e).seal = <<>> /\ ~ Reversal(m, text, e).numbered
<1>1. Misc \in JournalId
  BY EntryAssumption
<1>2. /\ Blank(Misc, m, text) \in EntryRow /\ Blank(Misc, m, text).state = "draft"
      /\ Blank(Misc, m, text).month = m /\ Blank(Misc, m, text).journal = Misc
      /\ Blank(Misc, m, text).place = 0 /\ Blank(Misc, m, text).seal = <<>>
      /\ ~ Blank(Misc, m, text).numbered
  BY <1>1, BlankRow
<1> QED
  BY <1>2, ReversedRow DEF Reversal

(* The end of a chain is the place of one of its entries, or nothing.       *)
LEMMA LastPlaceIs ==
  ASSUME JournalTypeOK, NEW j
  PROVE  /\ LastPlace(j) \in Nat
         /\ \A e \in InChain(j) : entry[e].place =< LastPlace(j)
         /\ LastPlace(j) = 0 <=> InChain(j) = {}
         /\ LastPlace(j) > 0 => \E e \in InChain(j) : entry[e].place = LastPlace(j)
<1> DEFINE C == InChain(j)
           P == {entry[e].place : e \in C} \cup {0}
<1>1. /\ IsFiniteSet(C) /\ C \subseteq Entry
      /\ \A e \in C : entry[e].place \in Nat /\ entry[e].place > 0
  BY EntryAssumption, FS_Subset, EntryRowParts DEF InChain, Existing, JournalTypeOK
<1>2. \E m \in P : \A k \in P : m >= k
  <2>1. CASE C = {}
    <3>1. P = {0}
      BY <2>1
    <3> HIDE DEF P
    <3> QED
      BY <3>1
  <2>2. CASE C # {}
    <3> DEFINE rank == [e \in C |-> entry[e].place]
    <3>1. \A e \in C : rank[e] \in Int /\ rank[e] = entry[e].place
      BY <1>1
    <3> HIDE DEF rank, C
    <3>2. PICK m \in C : \A u \in C : rank[u] =< rank[m]
      BY <1>1, <2>2, <3>1, HighestExists
    <3>3. \A k \in P : entry[m].place >= k
      BY <1>1, <3>1, <3>2
    <3> QED
      BY <3>3
  <2> QED
    BY <2>1, <2>2
<1>3. LastPlace(j) \in P /\ \A k \in P : LastPlace(j) >= k
  <2>1. LastPlace(j) = CHOOSE m \in P : \A k \in P : m >= k
    BY DEF LastPlace, Max
  <2> HIDE DEF P
  <2> QED
    BY <1>2, <2>1
<1>4. \A e \in C : entry[e].place \in P
  OBVIOUS
<1>5. LastPlace(j) \in Nat /\ (LastPlace(j) = 0 \/ \E e \in C : entry[e].place = LastPlace(j))
  BY <1>1, <1>3
<1> HIDE DEF C, P
<1>6. \A e \in C : entry[e].place =< LastPlace(j)
  BY <1>1, <1>3, <1>4, <1>5
<1>7. LastPlace(j) = 0 <=> C = {}
  BY <1>1, <1>5, <1>6
<1> USE DEF C
<1> QED
  BY <1>5, <1>6, <1>7
LEMMA Appended ==
  ASSUME NEW S, NEW s \in Seq(S), NEW x \in S
  PROVE  Append(s, x) \in Seq(S) /\ Append(s, x) # <<>>
<1>1. Len(Append(s, x)) = Len(s) + 1 /\ Len(s) \in Nat /\ Len(<<>>) = 0
  OBVIOUS
<1> QED
  BY <1>1

(* A digest continues that of the last entry before the place.              *)
LEMMA SealIs ==
  ASSUME JournalTypeOK, NEW e \in Entry, NEW row \in EntryRow, NEW place \in Nat
  PROVE  LET earlier == {x \in InChain(row.journal) : entry[x].place < place} IN
         /\ Seal(e, row, place) \in Digest /\ Seal(e, row, place) # <<>>
         /\ earlier = {} => Seal(e, row, place) = <<Content(e, row)>>
         /\ earlier # {} => \E x \in earlier :
               /\ \A y \in earlier : entry[y].place =< entry[x].place
               /\ Seal(e, row, place) = Append(entry[x].seal, Content(e, row))
<1> DEFINE earlier == {x \in InChain(row.journal) : entry[x].place < place}
           last == CHOOSE x \in earlier : \A y \in earlier : entry[y].place =< entry[x].place
           text == Content(e, row)
<1>1. Seal(e, row, place) = Append(IF earlier = {} THEN <<>> ELSE entry[last].seal, text)
  BY DEF Seal
<1>2. text \in Entry \X JournalId \X Month \X Text
  BY EntryRowParts DEF Content
<1>3. /\ IsFiniteSet(earlier) /\ earlier \subseteq Existing
      /\ \A x \in earlier : entry[x] \in EntryRow /\ entry[x].place \in Int /\ entry[x].seal \in Digest
  BY EntryAssumption, FS_Subset, EntryRowParts DEF InChain, Existing, JournalTypeOK
<1>4. ASSUME earlier # {}
      PROVE  last \in earlier /\ \A y \in earlier : entry[y].place =< entry[last].place
  <2> DEFINE rank == [x \in earlier |-> entry[x].place]
  <2>1. \A x \in earlier : rank[x] \in Int /\ rank[x] = entry[x].place
    BY <1>3
  <2> HIDE DEF rank, earlier
  <2>2. \E x \in earlier : \A y \in earlier : rank[y] =< rank[x]
    BY <1>3, <1>4, <2>1, HighestExists
  <2>3. \E x \in earlier : \A y \in earlier : entry[y].place =< entry[x].place
    BY <2>1, <2>2
  <2> QED
    BY <2>3
<1> HIDE DEF earlier, last, text
<1>5. CASE earlier = {}
  <2>1. Seal(e, row, place) = Append(<<>>, text)
    BY <1>1, <1>5
  <2>2. Append(<<>>, text) = <<text>> /\ <<text>> # <<>>
    OBVIOUS
  <2>3. <<text>> \in Digest
    BY <1>2 DEF Digest
  <2> QED
    BY <1>5, <2>1, <2>2, <2>3 DEF earlier, text
<1>6. CASE earlier # {}
  <2>1. Seal(e, row, place) = Append(entry[last].seal, text) /\ last \in earlier
        /\ \A y \in earlier : entry[y].place =< entry[last].place
    BY <1>1, <1>4, <1>6
  <2>2. entry[last].seal \in Digest
    BY <1>3, <2>1
  <2> DEFINE s == entry[last].seal
  <2>3. s \in Seq(Entry \X JournalId \X Month \X Text)
    BY <2>2 DEF Digest
  <2> HIDE DEF s
  <2>4. Append(s, text) \in Seq(Entry \X JournalId \X Month \X Text) /\ Append(s, text) # <<>>
    <3> DEFINE S == Entry \X JournalId \X Month \X Text
    <3>1. s \in Seq(S) /\ text \in S
      BY <1>2, <2>3
    <3> HIDE DEF S
    <3>2. Append(s, text) \in Seq(S) /\ Append(s, text) # <<>>
      BY <3>1, Appended
    <3> QED
      BY <3>2 DEF S
  <2>5. Seal(e, row, place) \in Digest /\ Seal(e, row, place) # <<>>
    BY <2>1, <2>4 DEF Digest, s
  <2> QED
    BY <1>6, <2>1, <2>5 DEF earlier, text
<1> QED
  BY <1>5, <1>6

LEMMA StampedRow ==
  ASSUME JournalTypeOK, NEW e \in Entry, NEW row \in EntryRow, NEW chained \in BOOLEAN, NEW place \in Nat
  PROVE  LET new == Stamped(e, row, chained, place) IN
         /\ new \in EntryRow /\ new.state = "posted" /\ new.journal = row.journal
         /\ new.month = row.month /\ new.text = row.text /\ new.reverses = row.reverses
         /\ chained => new.place = place + 1 /\ new.seal = Seal(e, row, place + 1)
         /\ ~ chained => new.place = 0 /\ new.seal = <<>>
<1> DEFINE to == IF chained THEN place + 1 ELSE 0
           seal == IF chained THEN Seal(e, row, place + 1) ELSE <<>>
           new == [row EXCEPT !.state = "posted", !.numbered = TRUE, !.place = to, !.seal = seal]
<1>1. to \in Nat /\ place + 1 \in Nat
  OBVIOUS
<1>2. seal \in Digest
  BY <1>1, SealIs DEF Digest
<1>3. "posted" \in States /\ TRUE \in BOOLEAN
  BY DEF States
<1>4. Stamped(e, row, chained, place) = new
  BY DEF Stamped
<1>5. /\ chained => to = place + 1 /\ seal = Seal(e, row, place + 1)
      /\ ~ chained => to = 0 /\ seal = <<>>
  OBVIOUS
<1> HIDE DEF to, seal
<1>6. new \in EntryRow
  BY <1>1, <1>2, <1>3, EntryRowIs
<1>7. /\ new.state = "posted" /\ new.journal = row.journal /\ new.month = row.month
      /\ new.text = row.text /\ new.reverses = row.reverses /\ new.place = to /\ new.seal = seal
  BY EntryRowIs
<1> QED
  BY <1>4, <1>5, <1>6, <1>7
(* Only posted entries have digests, and a request posts what was a draft.  *)
SealedPosted == \A e \in Existing : Sealed(e) => Posted(e)

ReadsDrafts ==
    \A r \in Poster : posting[r] # Null =>
        posting[r].row.state = "draft" /\ posting[r].row.seal = <<>>

JournalHeld == JournalTypeOK /\ SealedPosted /\ ReadsDrafts

LEMMA EntryOf ==
  ASSUME JournalTypeOK, NEW e \in Existing
  PROVE  /\ e \in Entry /\ e \in born /\ entry[e] # Null /\ entry[e] \in EntryRow
         /\ entry[e].place > 0 <=> entry[e].seal # <<>>
BY DEF JournalTypeOK, Existing, Sealed

LEMMA NotNull ==
  /\ \A row \in EntryRow : row # Null
  /\ \A p \in PostingRow : p # Null /\ p.entry \in Entry /\ p.row \in EntryRow
                           /\ p.chained \in BOOLEAN /\ p.last \in Nat
  /\ \A e \in Entry : e # Null
BY JournalNull DEF PostingRow

(* An entry is written.                                                     *)
LEMMA WriteHeld ==
  ASSUME JournalTypeOK, SealedPosted, NEW e \in Entry, NEW row \in EntryRow,
         entry' = [entry EXCEPT ![e] = row], born \subseteq born', born' \subseteq Entry, e \in born',
         row.place > 0 <=> row.seal # <<>>, row.seal # <<>> => row.state = "posted",
         row.reverses # Null => row.reverses \in Existing,
         UNCHANGED <<lockedTo, restricted>>, posting' \in [Poster -> PostingRow \cup {Null}]
  PROVE  JournalTypeOK' /\ SealedPosted'
<1>1. entry' \in [Entry -> EntryRow \cup {Null}] /\ row # Null
  BY NotNull DEF JournalTypeOK
<1>2. /\ entry'[e] = row /\ \A x \in Entry : x # e => entry'[x] = entry[x]
      /\ Existing' = Existing \cup {e}
  BY <1>1 DEF JournalTypeOK, Existing
<1>3. ASSUME NEW x \in Existing'
      PROVE  /\ entry'[x].place > 0 <=> entry'[x].seal # <<>>
             /\ entry'[x].reverses # Null => entry'[x].reverses \in Existing'
             /\ entry'[x].seal # <<>> => entry'[x].state = "posted"
  <2>1. CASE x = e
    BY <1>2, <2>1
  <2>2. CASE x # e
    <3>1. x \in Existing /\ entry'[x] = entry[x]
      BY <1>2, <2>2 DEF Existing
    <3>2. entry[x].reverses # Null => entry[x].reverses \in Existing'
      BY <3>1, <1>2 DEF JournalTypeOK
    <3> QED
      BY <3>1, <3>2, EntryOf DEF SealedPosted, Sealed, Posted
  <2> QED
    BY <2>1, <2>2
<1>4. Existing' \subseteq born'
  BY <1>2 DEF JournalTypeOK
<1> QED
  BY <1>1, <1>3, <1>4 DEF JournalTypeOK, SealedPosted, Sealed, Posted

(* Entries are left alone.                                                  *)
LEMMA NoWriteHeld ==
  ASSUME JournalTypeOK, SealedPosted, UNCHANGED <<entry, born>>,
         lockedTo' \in Month \cup {0}, restricted' \subseteq JournalId,
         posting' \in [Poster -> PostingRow \cup {Null}]
  PROVE  JournalTypeOK' /\ SealedPosted'
BY DEF JournalTypeOK, SealedPosted, Existing, Sealed, Posted

(* A request begins.                                                        *)
LEMMA BeginHeld ==
  ASSUME JournalHeld, NEW r \in Poster, NEW op, NEW e \in Entry, NEW row \in EntryRow,
         row.state = "draft", row.seal = <<>>, Begin(r, op, e, row)
  PROVE  JournalHeld'
<1> DEFINE p == [entry |-> e, row |-> row, chained |-> row.journal \in restricted,
                 last |-> LastPlace(row.journal)]
<1>1. p \in PostingRow
  BY LastPlaceIs DEF PostingRow, JournalHeld
<1>2. posting' = [posting EXCEPT ![r] = p] /\ UNCHANGED <<entry, born, lockedTo, restricted>>
  BY DEF Begin
<1>3. p.row = row
  OBVIOUS
<1> HIDE DEF p
<1>4. JournalTypeOK' /\ SealedPosted'
  BY <1>1, <1>2, NoWriteHeld DEF JournalHeld, JournalTypeOK
<1>5. ReadsDrafts'
  BY <1>1, <1>2, <1>3 DEF ReadsDrafts, JournalHeld, JournalTypeOK
<1> QED
  BY <1>4, <1>5 DEF JournalHeld

(* An entry goes, with its reversals.                                       *)
LEMMA DropHeld ==
  ASSUME JournalHeld, NEW e \in Existing, Drop(e)
  PROVE  JournalHeld'
<1> DEFINE R == ReversalsOf(e)
<1>1. /\ \A x \in Entry : entry'[x] = IF x = e \/ x \in R THEN Null ELSE entry[x]
      /\ entry' \in [Entry -> EntryRow \cup {Null}]
      /\ UNCHANGED <<born, lockedTo, restricted, posting>>
      /\ Existing' = Existing \ ({e} \cup R)
  BY DEF Drop, JournalHeld, JournalTypeOK, Existing
<1>2. ASSUME NEW x \in Existing'
      PROVE  /\ entry'[x] = entry[x] /\ x \in Existing
             /\ entry[x].reverses # Null => entry[x].reverses \in Existing'
  <2>1. x \in Existing /\ x # e /\ x \notin R /\ entry'[x] = entry[x]
    BY <1>1 DEF Existing
  <2>2. ASSUME entry[x].reverses # Null PROVE entry[x].reverses \in Existing'
    <3>1. entry[x].reverses \in Existing
      BY <2>1, <2>2 DEF JournalHeld, JournalTypeOK
    <3>2. entry[x].reverses # e
      BY <2>1 DEF ReversalsOf
    <3>3. ASSUME entry[x].reverses \in R PROVE FALSE
      <4>1. x \in ReversalsOf(entry[x].reverses)
        BY <2>1 DEF ReversalsOf
      <4> QED
        BY <3>3, <4>1 DEF Drop
    <3> QED
      BY <3>1, <3>2, <3>3, <1>1
  <2> QED
    BY <2>1, <2>2
<1>3. JournalTypeOK'
  BY <1>1, <1>2 DEF JournalHeld, JournalTypeOK, Sealed
<1>4. SealedPosted' /\ ReadsDrafts'
  BY <1>1, <1>2 DEF JournalHeld, SealedPosted, ReadsDrafts, Sealed, Posted
<1> QED
  BY <1>3, <1>4 DEF JournalHeld

LEMMA HeldStep == JournalHeld /\ [JournalNext]_journalVars => JournalHeld'
<1> SUFFICES ASSUME JournalHeld, [JournalNext]_journalVars PROVE JournalHeld'
  OBVIOUS
<1>0. JournalTypeOK /\ SealedPosted /\ ReadsDrafts /\ born \subseteq Entry
      /\ posting \in [Poster -> PostingRow \cup {Null}]
  BY DEF JournalHeld, JournalTypeOK
<1>1. CASE UNCHANGED journalVars
  BY <1>0, <1>1, NoWriteHeld DEF journalVars, JournalHeld, JournalTypeOK, ReadsDrafts
(* A row is written at one instant.                                         *)
<1>2. ASSUME NEW e \in Entry, NEW row \in EntryRow, Write(e, row),
             born \subseteq born', born' \subseteq Entry, e \in born',
             row.place > 0 <=> row.seal # <<>>, row.seal # <<>> => row.state = "posted",
             row.reverses # Null => row.reverses \in Existing
      PROVE  JournalHeld'
  <2>1. JournalTypeOK' /\ SealedPosted'
    BY <1>0, <1>2, WriteHeld DEF Write
  <2>2. ReadsDrafts'
    BY <1>0, <1>2 DEF Write, ReadsDrafts
  <2> QED
    BY <2>1, <2>2 DEF JournalHeld
<1>3. ASSUME NEW e \in Existing
      PROVE  /\ e \in Entry /\ e \in born /\ entry[e] \in EntryRow
             /\ entry[e].place > 0 <=> entry[e].seal # <<>>
             /\ entry[e].seal # <<>> => entry[e].state = "posted"
             /\ entry[e].reverses # Null => entry[e].reverses \in Existing
  BY <1>0, EntryOf DEF SealedPosted, Sealed, Posted, JournalTypeOK
<1>4. ASSUME NEW e \in Entry, NEW j \in JournalId, NEW m \in Month, NEW text \in Text, Draft(e, j, m, text)
      PROVE  JournalHeld'
  <2> DEFINE row == Blank(j, m, text)
  <2>1. row \in EntryRow /\ row.place = 0 /\ row.seal = <<>> /\ row.reverses = Null
    BY BlankRow
  <2>2. Write(e, row) /\ born' = born \cup {e}
    BY <1>4 DEF Draft
  <2> HIDE DEF row
  <2> QED
    BY <2>1, <2>2, <1>0, <1>2
<1>5. ASSUME NEW e \in Entry, NEW j \in JournalId, NEW m \in Month, NEW text \in Text,
             UpdateDraft(e, j, m, text)
      PROVE  JournalHeld'
  <2> DEFINE row == Rewrite(entry[e], j, m, text)
  <2>1. e \in Existing /\ Write(e, row) /\ born' = born
    BY <1>5 DEF UpdateDraft, Rewrite
  <2>2. /\ row \in EntryRow /\ row.place = entry[e].place /\ row.seal = entry[e].seal
        /\ row.reverses = entry[e].reverses /\ row.state = entry[e].state
    BY <2>1, <1>3, RewrittenRow
  <2> HIDE DEF row
  <2> QED
    BY <2>1, <2>2, <1>0, <1>2, <1>3
<1>6. ASSUME NEW e \in Entry, NEW j \in JournalId, NEW m \in Month, NEW text \in Text,
             Replace(e, j, m, text)
      PROVE  JournalHeld'
  <2> DEFINE row == Rewrite(entry[e], j, m, text)
             new == Stamped(e, row, j \in restricted, LastPlace(j))
  <2>1. e \in Existing /\ (Write(e, row) \/ Write(e, new)) /\ born' = born
    BY <1>6 DEF Replace, Rewrite
  <2>2. /\ row \in EntryRow /\ row.place = entry[e].place /\ row.seal = entry[e].seal
        /\ row.reverses = entry[e].reverses /\ row.state = entry[e].state
    BY <2>1, <1>3, RewrittenRow
  <2>3. /\ new \in EntryRow /\ new.state = "posted" /\ new.reverses = row.reverses
        /\ new.place > 0 <=> new.seal # <<>>
    <3> DEFINE chained == j \in restricted
               place == LastPlace(j)
    <3>1. chained \in BOOLEAN /\ place \in Nat
      BY <1>0, LastPlaceIs
    <3> HIDE DEF chained, place, row
    <3> DEFINE stamp == Stamped(e, row, chained, place)
    <3>2. /\ stamp \in EntryRow /\ stamp.state = "posted" /\ stamp.reverses = row.reverses
          /\ chained => stamp.place = place + 1 /\ stamp.seal = Seal(e, row, place + 1)
          /\ ~ chained => stamp.place = 0 /\ stamp.seal = <<>>
      BY <1>0, <3>1, <2>2, StampedRow
    <3>3. Seal(e, row, place + 1) # <<>>
      BY <1>0, <3>1, <2>2, SealIs
    <3>4. stamp.place > 0 <=> stamp.seal # <<>>
      BY <3>1, <3>2, <3>3
    <3> QED
      BY <3>2, <3>4 DEF chained, place
  <2> HIDE DEF row, new
  <2>4. CASE Write(e, row)
    BY <2>1, <2>2, <2>4, <1>0, <1>2, <1>3
  <2>5. CASE Write(e, new)
    BY <2>1, <2>2, <2>3, <2>5, <1>0, <1>2, <1>3
  <2> QED
    BY <2>1, <2>4, <2>5
<1>7. ASSUME NEW e \in Entry, ResetToDraft(e) \/ CancelEntry(e) PROVE JournalHeld'
  <2>1. PICK s \in States : e \in Existing /\ Write(e, [entry[e] EXCEPT !.state = s]) /\ born' = born
    BY <1>7 DEF ResetToDraft, CancelEntry, States
  <2> DEFINE row == [entry[e] EXCEPT !.state = s]
  <2>2. /\ row \in EntryRow /\ row.place = entry[e].place /\ row.seal = entry[e].seal
        /\ row.reverses = entry[e].reverses
    BY <2>1, <1>3, StateRow
  <2>3. entry[e].seal = <<>>
    BY <1>7, <1>3, <2>1 DEF ResetToDraft, CancelEntry, Alterable, Sealed, Posted
  <2>4. Write(e, row)
    BY <2>1
  <2> HIDE DEF row
  <2> QED
    BY <2>1, <2>2, <2>3, <2>4, <1>0, <1>2, <1>3
<1>8. ASSUME NEW e \in Entry, DeleteEntry(e) \/ DropOfDocument(e) PROVE JournalHeld'
  BY <1>8, DropHeld DEF DeleteEntry, DropOfDocument
<1>9. ASSUME NEW r \in Poster, NEW e \in Entry, NEW j \in JournalId, NEW m \in Month, NEW text \in Text,
             PostNew(r, e, j, m, text)
      PROVE  JournalHeld'
  <2> DEFINE row == Blank(j, m, text)
  <2>1. row \in EntryRow /\ row.state = "draft" /\ row.seal = <<>> /\ Begin(r, "post", e, row)
    BY <1>9, BlankRow DEF PostNew
  <2> HIDE DEF row
  <2> QED
    BY <2>1, BeginHeld
<1>10. ASSUME NEW r \in Poster, NEW e \in Entry, PostDraft(r, e) PROVE JournalHeld'
  <2>1. /\ e \in Existing /\ entry[e].state = "draft" /\ Begin(r, "draft", e, entry[e])
    BY <1>10 DEF PostDraft
  <2>2. entry[e] \in EntryRow /\ entry[e].seal = <<>>
    BY <2>1, <1>3
  <2> DEFINE row == entry[e]
  <2>3. row \in EntryRow /\ row.state = "draft" /\ row.seal = <<>> /\ Begin(r, "draft", e, row)
    BY <2>1, <2>2
  <2> HIDE DEF row
  <2> QED
    BY <2>3, BeginHeld
<1>11. ASSUME NEW r \in Poster, NEW e \in Entry, NEW x \in Entry, ReverseEntry(r, e, x) PROVE JournalHeld'
  <2>1. e \in Existing /\ entry[e] \in EntryRow
    BY <1>11, <1>3 DEF ReverseEntry
  <2> DEFINE row == Reversal(entry[e].month, entry[e].text, e)
  <2>2. row \in EntryRow /\ row.state = "draft" /\ row.seal = <<>>
    <3> DEFINE m == entry[e].month
               text == entry[e].text
    <3>1. m \in Month /\ text \in Text /\ e \in Entry
      BY <2>1, EntryRowParts DEF Existing
    <3> HIDE DEF m, text, row
    <3>2. /\ Reversal(m, text, e) \in EntryRow /\ Reversal(m, text, e).state = "draft"
          /\ Reversal(m, text, e).seal = <<>>
      BY <3>1, ReversalRow
    <3> QED
      BY <3>2 DEF m, text, row
  <2>3. Begin(r, "reverse", x, row)
    BY <1>11 DEF ReverseEntry, Reversal
  <2> HIDE DEF row
  <2> QED
    BY <2>2, <2>3, BeginHeld
<1>12. ASSUME NEW r \in Poster, Commit(r) PROVE JournalHeld'
  <2> DEFINE p == posting[r]
             new == Stamped(p.entry, p.row, p.chained, p.last)
  <2>1. /\ p \in PostingRow /\ p.entry \in Entry /\ p.row \in EntryRow /\ p.chained \in BOOLEAN
        /\ p.last \in Nat
    BY <1>0, <1>12, NotNull DEF Commit
  <2>2. /\ entry' = [entry EXCEPT ![p.entry] = new] /\ born' = born \cup {p.entry}
        /\ posting' = [posting EXCEPT ![r] = Null] /\ UNCHANGED <<lockedTo, restricted>>
        /\ p.row.reverses # Null => p.row.reverses \in Existing
    BY <1>12 DEF Commit
  <2> HIDE DEF p
  <2>3. /\ new \in EntryRow /\ new.state = "posted" /\ new.reverses = p.row.reverses
        /\ p.chained => new.place = p.last + 1 /\ new.seal = Seal(p.entry, p.row, p.last + 1)
        /\ ~ p.chained => new.place = 0 /\ new.seal = <<>>
    BY <1>0, <2>1, StampedRow
  <2>4. Seal(p.entry, p.row, p.last + 1) # <<>>
    BY <1>0, <2>1, SealIs
  <2>5. new.place > 0 <=> new.seal # <<>>
    BY <2>1, <2>3, <2>4
  <2> HIDE DEF new
  <2>6. posting' \in [Poster -> PostingRow \cup {Null}] /\ ReadsDrafts'
    BY <1>0, <2>2 DEF ReadsDrafts
  <2>7. JournalTypeOK' /\ SealedPosted'
    BY <1>0, <2>1, <2>2, <2>3, <2>5, <2>6, WriteHeld
  <2> QED
    BY <2>6, <2>7 DEF JournalHeld
<1>13. ASSUME NEW r \in Poster, Abandon(r) PROVE JournalHeld'
  <2>1. posting' \in [Poster -> PostingRow \cup {Null}] /\ ReadsDrafts'
    BY <1>0, <1>13 DEF Abandon, ReadsDrafts
  <2> QED
    BY <1>0, <1>13, <2>1, NoWriteHeld DEF Abandon, JournalHeld, JournalTypeOK
<1>14. ASSUME NEW m \in Month \cup {0}, SetLockDate(m) PROVE JournalHeld'
  BY <1>0, <1>14, NoWriteHeld DEF SetLockDate, JournalHeld, JournalTypeOK, ReadsDrafts
<1>15. ASSUME NEW j \in JournalId, StartChain(j) \/ StopChain(j) PROVE JournalHeld'
  BY <1>0, <1>15, NoWriteHeld DEF StartChain, StopChain, JournalHeld, JournalTypeOK, ReadsDrafts
<1> QED
  BY <1>1, <1>4, <1>5, <1>6, <1>7, <1>8, <1>9, <1>10, <1>11, <1>12, <1>13, <1>14, <1>15
     DEF JournalNext
(* Where a row is written, it neither replaces one that is sealed or locked *)
(* nor is posted into a locked month.                                       *)
LEMMA WriteFast ==
  ASSUME JournalTypeOK, NEW e \in Entry, NEW row \in EntryRow, entry' = [entry EXCEPT ![e] = row],
         e \in Existing => ~ Sealed(e) /\ ~ Locked(e),
         row.state = "posted" => row.month > lockedTo
  PROVE  SealedStays /\ LockedStaysByHand
<1>1. entry'[e] = row /\ \A x \in Entry : x # e => entry'[x] = entry[x]
  BY DEF JournalTypeOK
<1>2. SealedStays
  BY <1>1 DEF SealedStays, Existing
<1>3. LockedStaysByHand
  BY <1>1 DEF LockedStaysByHand
<1> QED
  BY <1>2, <1>3

(* What is dropped is not sealed, but for reversals, nor by hand and locked.*)
LEMMA DropFast ==
  ASSUME JournalTypeOK, NEW e \in Entry, DeleteEntry(e) \/ DropOfDocument(e)
  PROVE  SealedStays /\ LockedStaysByHand
<1> DEFINE R == ReversalsOf(e)
<1>1. /\ \A x \in Entry : entry'[x] = IF x = e \/ x \in R THEN Null ELSE entry[x]
      /\ e \in Existing /\ ~ Sealed(e) /\ e # Null
  BY NotNull DEF DeleteEntry, DropOfDocument, Drop
<1>2. SealedStays
  BY <1>1 DEF SealedStays, Existing, ReversalsOf
<1>3. ASSUME NEW x \in Existing, OwnedByHand(x), Locked(x) PROVE entry'[x] = entry[x]
  <2>1. x \in {e} \cup R => ~ DeleteEntry(e)
    BY <1>3 DEF DeleteEntry, Locked
  <2>2. x \in {e} \cup R => ~ DropOfDocument(e)
    BY <1>1, <1>3 DEF DropOfDocument, OwnedByHand, ReversalsOf
  <2>3. x \in Entry /\ x \notin {e} \cup R
    BY <2>1, <2>2 DEF Existing
  <2> QED
    BY <1>1, <2>3
<1>4. LockedStaysByHand
  BY <1>1, <1>3 DEF LockedStaysByHand
<1> QED
  BY <1>2, <1>4

LEMMA FastStep == JournalHeld /\ UpToDate /\ JournalNext => SealedStays /\ LockedStaysByHand
<1> DEFINE Fast == SealedStays /\ LockedStaysByHand
<1> SUFFICES ASSUME JournalHeld, UpToDate, JournalNext PROVE Fast
  OBVIOUS
<1>0. JournalTypeOK /\ SealedPosted /\ ReadsDrafts
      /\ posting \in [Poster -> PostingRow \cup {Null}]
  BY DEF JournalHeld, JournalTypeOK
<1>1. ASSUME entry' = entry PROVE Fast
  BY <1>1 DEF SealedStays, LockedStaysByHand
<1>2. ASSUME NEW e \in Entry, NEW row \in EntryRow, Write(e, row),
             e \in Existing => ~ Sealed(e) /\ ~ Locked(e),
             row.state = "posted" => row.month > lockedTo
      PROVE  Fast
  BY <1>0, <1>2, WriteFast DEF Write
<1>3. ASSUME NEW e \in Existing
      PROVE  e \in Entry /\ entry[e] \in EntryRow /\ e \in born /\ (Sealed(e) => Posted(e))
  BY <1>0, EntryOf DEF SealedPosted
<1> HIDE DEF Fast
<1>4. ASSUME NEW e \in Entry, NEW j \in JournalId, NEW m \in Month, NEW text \in Text, Draft(e, j, m, text)
      PROVE  Fast
  <2> DEFINE row == Blank(j, m, text)
  <2>1. row \in EntryRow /\ row.state = "draft"
    BY BlankRow
  <2>2. Write(e, row) /\ e \notin Existing
    BY <1>3, <1>4 DEF Draft, Taken
  <2> HIDE DEF row
  <2> QED
    BY <2>1, <2>2, <1>2
<1>5. ASSUME NEW e \in Entry, NEW j \in JournalId, NEW m \in Month, NEW text \in Text,
             UpdateDraft(e, j, m, text)
      PROVE  Fast
  <2> DEFINE row == Rewrite(entry[e], j, m, text)
  <2>1. e \in Existing /\ Write(e, row) /\ entry[e].state = "draft"
    BY <1>5 DEF UpdateDraft, Rewrite
  <2>2. row \in EntryRow /\ row.state = "draft"
    BY <2>1, <1>3, RewrittenRow
  <2>3. ~ Sealed(e) /\ ~ Locked(e)
    BY <2>1, <1>3 DEF Locked, Posted
  <2> HIDE DEF row
  <2> QED
    BY <2>1, <2>2, <2>3, <1>2
<1>6. ASSUME NEW e \in Entry, NEW j \in JournalId, NEW m \in Month, NEW text \in Text,
             Replace(e, j, m, text)
      PROVE  Fast
  <2> DEFINE row == Rewrite(entry[e], j, m, text)
             chained == j \in restricted
             place == LastPlace(j)
             new == Stamped(e, row, chained, place)
  <2>1. /\ e \in Existing /\ (IF Posted(e) THEN Write(e, new) ELSE Write(e, row))
        /\ Open(entry[e].month) /\ Open(m) /\ (Posted(e) => ~ Sealed(e))
    BY <1>6 DEF Replace, Rewrite
  <2>2. row \in EntryRow /\ row.state = entry[e].state /\ row.month = m
    BY <2>1, <1>3, RewrittenRow
  <2>3. ~ Sealed(e) /\ ~ Locked(e)
    BY <2>1, <1>3 DEF Locked
  <2>4. chained \in BOOLEAN /\ place \in Nat
    BY <1>0, LastPlaceIs
  <2> HIDE DEF row, chained, place
  <2>5. new \in EntryRow /\ new.month = row.month
    BY <1>0, <2>2, <2>4, StampedRow
  <2> HIDE DEF new
  <2>6. CASE Posted(e)
    BY <2>1, <2>2, <2>3, <2>5, <2>6, <1>2 DEF Open
  <2>7. CASE ~ Posted(e)
    BY <2>1, <2>2, <2>3, <2>7, <1>2 DEF Posted
  <2> QED
    BY <2>6, <2>7
<1>7. ASSUME NEW e \in Entry, ResetToDraft(e) \/ CancelEntry(e) PROVE Fast
  <2>1. PICK s \in {"draft", "cancelled"} : e \in Existing /\ Write(e, [entry[e] EXCEPT !.state = s])
    BY <1>7 DEF ResetToDraft, CancelEntry
  <2> DEFINE row == [entry[e] EXCEPT !.state = s]
  <2>2. row \in EntryRow /\ row.state # "posted"
    BY <2>1, <1>3, StateRow DEF States
  <2>3. ~ Sealed(e) /\ ~ Locked(e)
    BY <1>7, <1>3, <2>1 DEF ResetToDraft, CancelEntry, Alterable, Locked
  <2>4. Write(e, row)
    BY <2>1
  <2> HIDE DEF row
  <2> QED
    BY <2>1, <2>2, <2>3, <2>4, <1>2
<1>8. ASSUME NEW e \in Entry, DeleteEntry(e) \/ DropOfDocument(e) PROVE Fast
  BY <1>0, <1>8, DropFast DEF Fast
<1>9. ASSUME NEW r \in Poster, Commit(r) PROVE Fast
  <2> DEFINE p == posting[r]
             new == Stamped(p.entry, p.row, p.chained, p.last)
  <2>1. /\ p \in PostingRow /\ p.entry \in Entry /\ p.row \in EntryRow /\ p.chained \in BOOLEAN
        /\ p.last \in Nat /\ p # Null
    BY <1>0, <1>9, NotNull DEF Commit
  <2>2. entry' = [entry EXCEPT ![p.entry] = new]
    BY <1>9 DEF Commit
  <2>3. Open(p.row.month) /\ entry[p.entry] \in {Null, p.row} /\ p.row.state = "draft" /\ p.row.seal = <<>>
    BY <1>0, <2>1 DEF UpToDate, ReadsDrafts
  <2> HIDE DEF p
  <2>4. p.entry \in Existing => ~ Sealed(p.entry) /\ ~ Locked(p.entry)
    BY <2>3 DEF Existing, Sealed, Locked, Posted
  <2>5. new \in EntryRow /\ new.month = p.row.month
    BY <1>0, <2>1, StampedRow
  <2> HIDE DEF new
  <2> QED
    BY <1>0, <2>1, <2>2, <2>3, <2>4, <2>5, WriteFast DEF Open, Fast
<1>10. ASSUME NEW r \in Poster, NEW e \in Entry, NEW j \in JournalId, NEW m \in Month, NEW text \in Text,
              PostNew(r, e, j, m, text)
       PROVE  Fast
  BY <1>1, <1>10 DEF PostNew, Begin
<1>11. ASSUME NEW r \in Poster, NEW e \in Entry, PostDraft(r, e) PROVE Fast
  BY <1>1, <1>11 DEF PostDraft, Begin
<1>12. ASSUME NEW r \in Poster, NEW e \in Entry, NEW x \in Entry, ReverseEntry(r, e, x) PROVE Fast
  BY <1>1, <1>12 DEF ReverseEntry, Begin
<1>13. ASSUME NEW r \in Poster, Abandon(r) PROVE Fast
  BY <1>1, <1>13 DEF Abandon
<1>14. ASSUME NEW m \in Month \cup {0}, SetLockDate(m) PROVE Fast
  BY <1>1, <1>14 DEF SetLockDate
<1>15. ASSUME NEW j \in JournalId, StartChain(j) \/ StopChain(j) PROVE Fast
  BY <1>1, <1>15 DEF StartChain, StopChain
<1> QED
  BY <1>4, <1>5, <1>6, <1>7, <1>8, <1>9, <1>10, <1>11, <1>12, <1>13, <1>14, <1>15 DEF JournalNext

LEMMA HeldInit == JournalInit => JournalHeld
BY DEF JournalInit, JournalHeld, JournalTypeOK, SealedPosted, ReadsDrafts, Existing

(* The rows of the journal keep their types, and an entry that is reversed  *)
(* is there (ledger_service.py: reverse_entry, the foreign key).            *)
THEOREM JournalTyped == JournalSpec => []JournalTypeOK
<1>1. JournalHeld => JournalTypeOK
  BY DEF JournalHeld
<1> QED
  BY <1>1, HeldInit, HeldStep, PTL DEF JournalSpec

(* A hashed entry neither changes nor goes, and what was entered by hand in *)
(* a locked month stays, unless the lock date or the draft changed while a  *)
(* request was under way (secure_hash_service.py: assert_editable,          *)
(* lock_date_service.py: assert_open).                                      *)
THEOREM EntriesHeldFast == JournalSpec => HeldFast
<1>1. JournalHeld /\ [JournalNext]_journalVars
      => [UpToDate => SealedStays /\ LockedStaysByHand]_journalVars
  BY FastStep
<1> QED
  BY <1>1, HeldInit, HeldStep, PTL DEF JournalSpec, HeldFast
-----------------------------------------------------------------------------
(* The chain of a journal, when requests race for its end.                  *)

Fresh ==
    \A r \in Poster : posting[r] # Null => posting[r].entry \notin born /\ ~ posting[r].row.numbered

Apart ==
    \A r, q \in Poster : r # q /\ posting[r] # Null /\ posting[q] # Null =>
        /\ posting[r].entry # posting[q].entry
        /\ posting[r].row.journal # posting[q].row.journal

ReadsEnd ==
    \A r \in Poster : posting[r] # Null => posting[r].last = LastPlace(posting[r].row.journal)

Race == Fresh /\ Apart /\ ReadsEnd

(* A chain whose entries stay is as it was.                                 *)
LEMMA ChainStays ==
  ASSUME ChainIntact, NEW j \in JournalId, InChain(j)' = InChain(j),
         \A e \in InChain(j) : entry'[e] = entry[e]
  PROVE  /\ LastPlace(j)' = LastPlace(j)
         /\ \A e \in InChain(j)' :
              /\ Posted(e)'
              /\ \A x \in InChain(j)' \ {e} : entry'[x].place # entry'[e].place
              /\ LET earlier == {x \in InChain(j)' : entry'[x].place < entry'[e].place} IN
                 IF earlier = {} THEN entry'[e].seal = <<Content(e, entry'[e])>>
                 ELSE \E x \in earlier :
                        /\ entry'[x].place = entry'[e].place - 1
                        /\ entry'[e].seal = Append(entry'[x].seal, Content(e, entry'[e]))
<1> DEFINE C == InChain(j)
<1>1. {entry'[e].place : e \in C} = {entry[e].place : e \in C}
  OBVIOUS
<1>2. LastPlace(j)' = LastPlace(j)
  BY <1>1 DEF LastPlace
<1>3. ASSUME NEW e \in C
      PROVE  /\ Posted(e)'
             /\ \A x \in C \ {e} : entry'[x].place # entry'[e].place
             /\ LET earlier == {x \in C : entry'[x].place < entry'[e].place} IN
                IF earlier = {} THEN entry'[e].seal = <<Content(e, entry'[e])>>
                ELSE \E x \in earlier :
                       /\ entry'[x].place = entry'[e].place - 1
                       /\ entry'[e].seal = Append(entry'[x].seal, Content(e, entry'[e]))
  <2>1. entry'[e] = entry[e] /\ {x \in C : entry'[x].place < entry'[e].place}
                                = {x \in C : entry[x].place < entry[e].place}
    BY <1>3
  <2>2. Posted(e) /\ \A x \in C \ {e} : entry[x].place # entry[e].place
    BY <1>3 DEF ChainIntact
  <2> DEFINE earlier == {x \in C : entry[x].place < entry[e].place}
  <2>3. IF earlier = {} THEN entry[e].seal = <<Content(e, entry[e])>>
        ELSE \E x \in earlier :
                /\ entry[x].place = entry[e].place - 1
                /\ entry[e].seal = Append(entry[x].seal, Content(e, entry[e]))
    BY <1>3 DEF ChainIntact
  <2>4. \A x \in earlier : entry'[x] = entry[x]
    OBVIOUS
  <2> QED
    BY <2>1, <2>2, <2>3, <2>4 DEF Posted
<1> QED
  BY <1>2, <1>3

(* Where no sealed entry comes or goes, no chain changes.                   *)
LEMMA NoneSealed ==
  ASSUME JournalTypeOK, OnlyNew, ChainIntact,
         \A e \in Entry \ Existing : entry'[e] # Null => entry'[e].place = 0
  PROVE  /\ \A j \in JournalId : LastPlace(j)' = LastPlace(j)
         /\ ChainIntact'
<1>1. ASSUME NEW j \in JournalId
      PROVE  InChain(j)' = InChain(j) /\ \A e \in InChain(j) : entry'[e] = entry[e]
  <2>1. ASSUME NEW e \in InChain(j) PROVE entry'[e] = entry[e] /\ e \in InChain(j)'
    BY EntryOf DEF InChain, OnlyNew, Sealed, JournalTypeOK, Existing
  <2>2. ASSUME NEW e \in InChain(j)' PROVE e \in InChain(j)
    <3>1. e \in Entry /\ entry'[e] # Null /\ entry'[e].journal = j /\ entry'[e].place > 0
      BY DEF InChain, Existing
    <3>2. e \in Existing
      BY <3>1
    <3>3. entry'[e] = entry[e]
      BY <3>1, <3>2 DEF OnlyNew
    <3> QED
      BY <3>1, <3>2, <3>3 DEF InChain
  <2> QED
    BY <2>1, <2>2
<1>2. \A j \in JournalId : LastPlace(j)' = LastPlace(j)
  BY <1>1, ChainStays
<1>3. ChainIntact'
  BY <1>1, ChainStays DEF ChainIntact
<1> QED
  BY <1>2, <1>3

(* A request appends its entry to the chain whose end it has read.          *)
LEMMA Chained ==
  ASSUME JournalTypeOK, ChainIntact, NEW e \in Entry, e \notin Existing,
         NEW row \in EntryRow, NEW chained \in BOOLEAN,
         entry' = [entry EXCEPT ![e] = Stamped(e, row, chained, LastPlace(row.journal))]
  PROVE  /\ \A j \in JournalId \ {row.journal} : LastPlace(j)' = LastPlace(j)
         /\ ChainIntact'
<1> DEFINE home == row.journal
           last == LastPlace(home)
           new == Stamped(e, row, chained, last)
           C == InChain(home)
<1>1. /\ last \in Nat /\ home \in JournalId /\ \A x \in C : entry[x].place =< last
      /\ last = 0 <=> C = {}
      /\ last > 0 => \E x \in C : entry[x].place = last
  BY LastPlaceIs, EntryRowParts
<1> HIDE DEF last
<1>2. /\ new \in EntryRow /\ new.state = "posted" /\ new.journal = home
      /\ new.month = row.month /\ new.text = row.text
      /\ chained => new.place = last + 1 /\ new.seal = Seal(e, row, last + 1)
      /\ ~ chained => new.place = 0 /\ new.seal = <<>>
  BY <1>1, StampedRow
<1>3. entry' = [entry EXCEPT ![e] = new]
  BY DEF last
<1> HIDE DEF new
<1>4. /\ entry'[e] = new /\ new # Null /\ \A x \in Entry \ {e} : entry'[x] = entry[x]
      /\ Existing' = Existing \cup {e}
      /\ \A x \in Existing : x \in Entry /\ x # e
  BY <1>2, <1>3, NotNull DEF JournalTypeOK, Existing
<1>5. \A j \in JournalId : \A x \in InChain(j) : entry'[x] = entry[x] /\ x # e
  BY <1>4 DEF InChain
<1>6. ASSUME NEW j \in JournalId, j # home \/ ~ chained PROVE InChain(j)' = InChain(j)
  <2>1. ~ (new.journal = j /\ new.place > 0)
    BY <1>2, <1>6
  <2> QED
    BY <1>4, <2>1 DEF InChain
<1>7. \A j \in JournalId \ {home} : LastPlace(j)' = LastPlace(j)
  BY <1>5, <1>6, ChainStays
<1>8. CASE ~ chained
  <2>1. ChainIntact'
    BY <1>5, <1>6, <1>8, ChainStays DEF ChainIntact
  <2> QED
    BY <1>7, <2>1
<1>9. CASE chained
  <2>1. InChain(home)' = C \cup {e} /\ new.place = last + 1 /\ last + 1 > 0
    <3>1. new.place = last + 1 /\ last + 1 > 0
      BY <1>1, <1>2, <1>9
    <3> QED
      BY <1>2, <1>4, <3>1 DEF InChain
  <2>2. \A x \in C : /\ entry'[x] = entry[x] /\ x # e /\ entry[x].place \in Nat
                     /\ entry[x].place =< last /\ entry[x].place < last + 1
    BY <1>1, <1>5, EntryOf, EntryRowParts DEF InChain
  (* The entries before it.                                                 *)
  <2>3. ASSUME NEW x \in C
        PROVE  /\ Posted(x)'
               /\ \A y \in InChain(home)' \ {x} : entry'[y].place # entry'[x].place
               /\ LET earlier == {y \in InChain(home)' : entry'[y].place < entry'[x].place} IN
                  IF earlier = {} THEN entry'[x].seal = <<Content(x, entry'[x])>>
                  ELSE \E y \in earlier :
                         /\ entry'[y].place = entry'[x].place - 1
                         /\ entry'[x].seal = Append(entry'[y].seal, Content(x, entry'[x]))
    <3> DEFINE earlier == {y \in C : entry[y].place < entry[x].place}
    <3>1. /\ Posted(x) /\ \A y \in C \ {x} : entry[y].place # entry[x].place
          /\ IF earlier = {} THEN entry[x].seal = <<Content(x, entry[x])>>
             ELSE \E y \in earlier :
                    /\ entry[y].place = entry[x].place - 1
                    /\ entry[x].seal = Append(entry[y].seal, Content(x, entry[x]))
      BY <1>1, <2>3 DEF ChainIntact
    <3>2. {y \in InChain(home)' : entry'[y].place < entry'[x].place} = earlier
      BY <1>1, <1>4, <2>1, <2>2, <2>3
    <3>3. \A y \in InChain(home)' \ {x} : entry'[y].place # entry'[x].place
      BY <1>1, <1>4, <2>1, <2>2, <2>3, <3>1
    <3>4. \A y \in earlier : entry'[y] = entry[y]
      BY <2>2
    <3> QED
      BY <2>2, <2>3, <3>1, <3>2, <3>3, <3>4 DEF Posted
  (* The entry itself.                                                      *)
  <2>4. /\ Posted(e)'
        /\ \A y \in InChain(home)' \ {e} : entry'[y].place # entry'[e].place
        /\ LET earlier == {y \in InChain(home)' : entry'[y].place < entry'[e].place} IN
           IF earlier = {} THEN entry'[e].seal = <<Content(e, entry'[e])>>
           ELSE \E y \in earlier :
                  /\ entry'[y].place = entry'[e].place - 1
                  /\ entry'[e].seal = Append(entry'[y].seal, Content(e, entry'[e]))
    <3>1. {y \in InChain(home)' : entry'[y].place < entry'[e].place} = C
      BY <1>1, <1>4, <2>1, <2>2
    <3>2. {y \in C : entry[y].place < last + 1} = C
      BY <2>2
    <3>3. Content(e, new) = Content(e, row)
      BY <1>2 DEF Content
    <3>4. /\ C = {} => Seal(e, row, last + 1) = <<Content(e, row)>>
          /\ C # {} => \E y \in C : /\ \A z \in C : entry[z].place =< entry[y].place
                                    /\ Seal(e, row, last + 1) = Append(entry[y].seal, Content(e, row))
      <4> DEFINE place == last + 1
      <4>1. place \in Nat
        BY <1>1
      <4> HIDE DEF place
      <4>2. LET before == {x \in InChain(row.journal) : entry[x].place < place} IN
            /\ before = {} => Seal(e, row, place) = <<Content(e, row)>>
            /\ before # {} => \E x \in before :
                  /\ \A y \in before : entry[y].place =< entry[x].place
                  /\ Seal(e, row, place) = Append(entry[x].seal, Content(e, row))
        BY <4>1, SealIs
      <4>3. {x \in InChain(row.journal) : entry[x].place < place} = C
        BY <3>2 DEF place
      <4> QED
        BY <4>2, <4>3 DEF place
    <3>5. ASSUME NEW y \in C, \A z \in C : entry[z].place =< entry[y].place
          PROVE  entry'[y].place = entry'[e].place - 1
      BY <1>1, <1>4, <2>1, <2>2, <3>5
    <3>6. \A y \in InChain(home)' \ {e} : entry'[y].place # entry'[e].place
      BY <1>1, <1>4, <2>1, <2>2
    <3>7. new.seal = Seal(e, row, last + 1) /\ Posted(e)'
      BY <1>2, <1>4, <1>9 DEF Posted
    <3> HIDE DEF C
    <3>8. CASE C = {}
      BY <1>4, <3>1, <3>3, <3>4, <3>6, <3>7, <3>8
    <3>9. CASE C # {}
      <4>1. PICK y \in C : /\ \A z \in C : entry[z].place =< entry[y].place
                           /\ Seal(e, row, last + 1) = Append(entry[y].seal, Content(e, row))
        BY <3>4, <3>9
      <4>2. entry'[y].place = entry'[e].place - 1 /\ entry'[y] = entry[y]
        BY <2>2, <3>5, <4>1
      <4> QED
        BY <1>4, <3>1, <3>3, <3>6, <3>7, <3>9, <4>1, <4>2
    <3> QED
      BY <3>8, <3>9
  <2> DEFINE Whole(j, x) ==
        /\ entry'[x].state = "posted"
        /\ \A y \in InChain(j)' \ {x} : entry'[y].place # entry'[x].place
        /\ LET earlier == {y \in InChain(j)' : entry'[y].place < entry'[x].place} IN
           IF earlier = {} THEN entry'[x].seal = <<Content(x, entry'[x])>>
           ELSE \E y \in earlier :
                  /\ entry'[y].place = entry'[x].place - 1
                  /\ entry'[x].seal = Append(entry'[y].seal, Content(x, entry'[x]))
  <2>5. \A x \in InChain(home)' : Whole(home, x)
    BY <2>1, <2>3, <2>4 DEF Posted
  <2>6. ASSUME NEW j \in JournalId, j # home PROVE \A x \in InChain(j)' : Whole(j, x)
    BY <1>5, <1>6, <2>6, ChainStays DEF Posted
  <2>7. \A j \in JournalId : \A x \in InChain(j)' : Whole(j, x)
    BY <2>5, <2>6
  <2>8. ChainIntact'
    BY <2>7 DEF ChainIntact, Posted
  <2> QED
    BY <1>7, <2>8
<1> QED
  BY <1>8, <1>9
(* The row of journal_sequence is that of a journal and a year.             *)
OneYear == \A m, n \in Month : Year[m] = Year[n]

(* Requests under way stay apart where none begins or commits.              *)
LEMMA RaceStays ==
  ASSUME Race, UNCHANGED posting,
         \A r \in Poster : posting[r] # Null => posting[r].entry \notin born' \ born,
         \A r \in Poster : posting[r] # Null =>
            LastPlace(posting[r].row.journal)' = LastPlace(posting[r].row.journal)
  PROVE  Race'
<1>1. \A r \in Poster : posting'[r] = posting[r]
  OBVIOUS
<1>2. Fresh' /\ Apart' /\ ReadsEnd'
  BY <1>1 DEF Race, Fresh, Apart, ReadsEnd
<1> QED
  BY <1>2 DEF Race

LEMMA RaceAbandoned ==
  ASSUME Race, JournalTypeOK, NEW r \in Poster, posting' = [posting EXCEPT ![r] = Null],
         born' = born, entry' = entry
  PROVE  Race'
<1>1. posting'[r] = Null /\ \A q \in Poster : q # r => posting'[q] = posting[q]
  BY DEF JournalTypeOK
<1>2. \A j : LastPlace(j)' = LastPlace(j)
  BY DEF LastPlace, InChain, Existing
<1>3. Fresh' /\ Apart' /\ ReadsEnd'
  BY <1>1, <1>2 DEF Race, Fresh, Apart, ReadsEnd
<1> QED
  BY <1>3 DEF Race

(* A request that begins takes a journal that no other has, and reads its   *)
(* end.                                                                     *)
LEMMA RaceBegun ==
  ASSUME Race, JournalTypeOK, OneYear,
         NEW r \in Poster, NEW op, NEW e \in Entry, NEW row \in EntryRow,
         e \notin Taken, ~ row.numbered, Begin(r, op, e, row)
  PROVE  Race'
<1> DEFINE p == [entry |-> e, row |-> row, chained |-> row.journal \in restricted,
                 last |-> LastPlace(row.journal)]
<1>1. /\ posting' = [posting EXCEPT ![r] = p] /\ UNCHANGED <<entry, born>>
      /\ SequenceFree(row.journal, row.month)
  BY DEF Begin
<1>2. p.entry = e /\ p.row = row /\ p.last = LastPlace(row.journal)
  OBVIOUS
<1> HIDE DEF p
<1>3. posting'[r] = p /\ \A q \in Poster : q # r => posting'[q] = posting[q]
  BY <1>1 DEF JournalTypeOK
<1>4. \A j : LastPlace(j)' = LastPlace(j)
  BY <1>1 DEF LastPlace, InChain, Existing
<1>5. ASSUME NEW q \in Poster, posting[q] # Null
      PROVE  posting[q].entry # e /\ posting[q].row.journal # row.journal
  <2>1. posting[q].entry # e
    BY <1>5 DEF Taken
  <2>2. posting[q] \in PostingRow
    BY <1>5 DEF JournalTypeOK
  <2>3. posting[q].row.month \in Month /\ row.month \in Month
    BY <2>2, NotNull, EntryRowParts
  <2>4. ~ posting[q].row.numbered
    BY <1>5 DEF Race, Fresh
  <2> QED
    BY <1>1, <1>5, <2>1, <2>3, <2>4 DEF SequenceFree, OneYear
<1>6. e \notin born
  BY DEF Taken
<1>7. Fresh'
  BY <1>1, <1>2, <1>3, <1>6 DEF Race, Fresh
<1>8. Apart'
  BY <1>2, <1>3, <1>5 DEF Race, Apart
<1>9. ReadsEnd'
  BY <1>2, <1>3, <1>4 DEF Race, ReadsEnd
<1> QED
  BY <1>7, <1>8, <1>9 DEF Race

ChainInv == JournalHeld /\ Race /\ ChainIntact

LEMMA ChainStep ==
  ASSUME OneYear, ChainInv, JournalNext, OnlyNew
  PROVE  Race' /\ ChainIntact'
<1> DEFINE Goal == Race' /\ ChainIntact'
<1>0. /\ JournalHeld /\ JournalTypeOK /\ Race /\ ChainIntact /\ Existing \subseteq born
      /\ posting \in [Poster -> PostingRow \cup {Null}]
  BY DEF ChainInv, JournalHeld, JournalTypeOK
<1>1. ASSUME NEW r \in Poster, posting[r] # Null
      PROVE  /\ posting[r] \in PostingRow /\ posting[r].entry \in Entry /\ posting[r].row \in EntryRow
             /\ posting[r].chained \in BOOLEAN /\ posting[r].last \in Nat
             /\ posting[r].row.journal \in JournalId /\ posting[r].entry \notin born
             /\ posting[r].last = LastPlace(posting[r].row.journal)
  <2>1. posting[r] \in PostingRow
    BY <1>0, <1>1
  <2> QED
    BY <1>0, <1>1, <2>1, NotNull, EntryRowParts DEF Race, Fresh, ReadsEnd
(* No entry with a place is made.                                           *)
<1>2. ASSUME \A e \in Entry \ Existing : entry'[e] # Null => entry'[e].place = 0,
             posting' = posting,
             \A r \in Poster : posting[r] # Null => posting[r].entry \notin born' \ born
      PROVE  Goal
  <2>1. /\ \A j \in JournalId : LastPlace(j)' = LastPlace(j)
        /\ ChainIntact'
    BY <1>0, <1>2, NoneSealed
  <2>2. \A r \in Poster : posting[r] # Null =>
            LastPlace(posting[r].row.journal)' = LastPlace(posting[r].row.journal)
    BY <1>1, <1>2, <2>1
  <2> QED
    BY <1>0, <1>2, <2>1, <2>2, RaceStays
<1>3. ASSUME UNCHANGED entry PROVE ChainIntact'
  BY <1>0, <1>3 DEF ChainIntact, InChain, Existing, Posted
<1>4. ASSUME NEW e \in Existing, NEW row, Write(e, row), born' = born PROVE Goal
  <2>1. \A x \in Entry \ Existing : entry'[x] = entry[x]
    BY <1>0, <1>4 DEF Write, JournalTypeOK
  <2>2. \A x \in Entry \ Existing : entry'[x] = Null
    BY <2>1 DEF Existing
  <2> HIDE DEF Goal
  <2> QED
    BY <1>2, <1>4, <2>2 DEF Write
<1> HIDE DEF Goal
<1>5. ASSUME NEW e \in Entry, NEW j \in JournalId, NEW m \in Month, NEW text \in Text, Draft(e, j, m, text)
      PROVE  Goal
  <2>1. Blank(j, m, text) \in EntryRow /\ Blank(j, m, text).place = 0
    BY BlankRow
  <2>2. /\ entry' = [entry EXCEPT ![e] = Blank(j, m, text)] /\ born' = born \cup {e}
        /\ posting' = posting /\ e \notin Taken
    BY <1>5 DEF Draft, Write
  <2>3. \A x \in Entry \ Existing : entry'[x] # Null => entry'[x].place = 0
    BY <1>0, <2>1, <2>2 DEF JournalTypeOK, Existing
  <2>4. \A r \in Poster : posting[r] # Null => posting[r].entry \notin born' \ born
    BY <2>2 DEF Taken
  <2> QED
    BY <1>2, <2>2, <2>3, <2>4
<1>6. ASSUME NEW e \in Entry, NEW j \in JournalId, NEW m \in Month, NEW text \in Text,
             UpdateDraft(e, j, m, text)
      PROVE  Goal
  BY <1>4, <1>6 DEF UpdateDraft
<1>7. ASSUME NEW e \in Entry, NEW j \in JournalId, NEW m \in Month, NEW text \in Text,
             Replace(e, j, m, text)
      PROVE  Goal
  BY <1>4, <1>7 DEF Replace
<1>8. ASSUME NEW e \in Entry, ResetToDraft(e) \/ CancelEntry(e) PROVE Goal
  <2>1. \E row : e \in Existing /\ Write(e, row) /\ born' = born
    BY <1>8 DEF ResetToDraft, CancelEntry
  <2> QED
    BY <1>4, <2>1
<1>9. ASSUME NEW e \in Entry, DeleteEntry(e) \/ DropOfDocument(e) PROVE Goal
  <2>1. Drop(e)
    BY <1>9 DEF DeleteEntry, DropOfDocument
  <2>2. /\ \A x \in Entry : entry'[x] \in {Null, entry[x]}
        /\ born' = born /\ posting' = posting
    BY <2>1 DEF Drop
  <2>3. \A x \in Entry \ Existing : entry'[x] = Null
    BY <2>2 DEF Existing
  <2> QED
    BY <1>2, <2>2, <2>3
<1>10. ASSUME NEW r \in Poster, NEW e \in Entry, NEW j \in JournalId, NEW m \in Month, NEW text \in Text,
              PostNew(r, e, j, m, text)
       PROVE  Goal
  <2> DEFINE row == Blank(j, m, text)
  <2>1. row \in EntryRow /\ ~ row.numbered
    BY BlankRow
  <2>2. Begin(r, "post", e, row) /\ e \notin Taken
    BY <1>10 DEF PostNew
  <2> HIDE DEF row
  <2>3. Race'
    BY <1>0, <2>1, <2>2, RaceBegun
  <2>4. UNCHANGED entry
    BY <2>2 DEF Begin
  <2> QED
    BY <1>3, <2>3, <2>4 DEF Goal
<1>11. ASSUME NEW r \in Poster, NEW e \in Entry, PostDraft(r, e) PROVE Goal
  <2> DEFINE row == entry[e]
             p == [entry |-> e, row |-> row, chained |-> row.journal \in restricted,
                   last |-> LastPlace(row.journal)]
  <2>1. posting' = [posting EXCEPT ![r] = p] /\ e \in born /\ row \in EntryRow
    BY <1>0, <1>11, EntryOf DEF PostDraft, Begin
  <2>2. p \in PostingRow /\ p.entry = e
    BY <1>0, <2>1, LastPlaceIs, EntryOf DEF PostingRow, JournalTypeOK
  <2> HIDE DEF p
  <2>3. posting'[r] # Null /\ posting'[r].entry \in born
    BY <1>0, <2>1, <2>2, NotNull
  <2> QED
    BY <2>3 DEF OnlyNew
<1>12. ASSUME NEW r \in Poster, NEW e \in Entry, NEW x \in Entry, ReverseEntry(r, e, x) PROVE Goal
  <2>1. e \in Entry /\ entry[e] \in EntryRow
    BY <1>0, <1>12, EntryOf DEF ReverseEntry
  <2> DEFINE m == entry[e].month
             text == entry[e].text
  <2>2. m \in Month /\ text \in Text
    BY <2>1, EntryRowParts
  <2>3. Begin(r, "reverse", x, Reversal(m, text, e)) /\ x \notin Taken
    BY <1>12 DEF ReverseEntry, Reversal
  <2> HIDE DEF m, text
  <2>4. Reversal(m, text, e) \in EntryRow /\ ~ Reversal(m, text, e).numbered
    BY <2>1, <2>2, ReversalRow
  <2> DEFINE row == Reversal(m, text, e)
  <2>5. row \in EntryRow /\ ~ row.numbered /\ Begin(r, "reverse", x, row)
    BY <2>3, <2>4
  <2> HIDE DEF row
  <2>6. Race'
    BY <1>0, <2>3, <2>5, RaceBegun
  <2>7. UNCHANGED entry
    BY <2>5 DEF Begin
  <2> QED
    BY <1>3, <2>6, <2>7 DEF Goal
<1>13. ASSUME NEW r \in Poster, Commit(r) PROVE Goal
  <2> DEFINE p == posting[r]
  <2>1. p # Null /\ entry' = [entry EXCEPT ![p.entry] = Stamped(p.entry, p.row, p.chained, p.last)]
        /\ born' = born \cup {p.entry} /\ posting' = [posting EXCEPT ![r] = Null]
    BY <1>13 DEF Commit
  <2>2. /\ p.entry \in Entry /\ p.row \in EntryRow /\ p.chained \in BOOLEAN /\ p.entry \notin Existing
        /\ p.last = LastPlace(p.row.journal)
    BY <1>0, <1>1, <2>1
  <2> DEFINE home == p.row.journal
  <2>3. /\ \A j \in JournalId \ {home} : LastPlace(j)' = LastPlace(j)
        /\ ChainIntact'
    <3> DEFINE e == p.entry
               row == p.row
               chained == p.chained
    <3>1. /\ e \in Entry /\ row \in EntryRow /\ chained \in BOOLEAN /\ e \notin Existing
          /\ entry' = [entry EXCEPT ![e] = Stamped(e, row, chained, LastPlace(row.journal))]
      BY <2>1, <2>2
    <3> HIDE DEF e, row, chained
    <3>2. /\ \A j \in JournalId \ {row.journal} : LastPlace(j)' = LastPlace(j)
          /\ ChainIntact'
      BY <1>0, <3>1, Chained
    <3> QED
      BY <3>2 DEF row
  <2>4. posting'[r] = Null /\ \A q \in Poster : q # r => posting'[q] = posting[q]
    BY <1>0, <2>1
  <2>5. ASSUME NEW q \in Poster, posting'[q] # Null
        PROVE  /\ q # r /\ posting'[q] = posting[q] /\ posting[q] # Null
               /\ posting[q].entry # p.entry
               /\ LastPlace(posting[q].row.journal)' = LastPlace(posting[q].row.journal)
    <3>1. q # r /\ posting'[q] = posting[q] /\ posting[q] # Null
      BY <2>4, <2>5
    <3>2. posting[q].entry # p.entry /\ posting[q].row.journal # home
      BY <1>0, <2>1, <3>1 DEF Race, Apart
    <3>3. posting[q].row.journal \in JournalId
      BY <1>1, <3>1
    <3> QED
      BY <2>3, <3>1, <3>2, <3>3
  <2> HIDE DEF p
  <2>6. Fresh' /\ Apart'
    BY <1>0, <2>1, <2>5 DEF Race, Fresh, Apart
  <2>7. ReadsEnd'
    BY <1>0, <2>5 DEF Race, ReadsEnd
  <2> QED
    BY <2>3, <2>6, <2>7 DEF Goal, Race
<1>14. ASSUME NEW r \in Poster, Abandon(r) PROVE Goal
  BY <1>0, <1>3, <1>14, RaceAbandoned DEF Abandon, Goal
<1>15. ASSUME UNCHANGED <<entry, born, posting>> PROVE Goal
  <2>1. \A e \in Entry \ Existing : entry'[e] = Null
    BY <1>15 DEF Existing
  <2> QED
    BY <1>2, <1>15, <2>1
<1>16. ASSUME NEW m \in Month \cup {0}, SetLockDate(m) PROVE Goal
  BY <1>15, <1>16 DEF SetLockDate
<1>17. ASSUME NEW j \in JournalId, StartChain(j) \/ StopChain(j) PROVE Goal
  BY <1>15, <1>17 DEF StartChain, StopChain
<1>18. Goal
  BY <1>5, <1>6, <1>7, <1>8, <1>9, <1>10, <1>11, <1>12, <1>13, <1>14, <1>16, <1>17 DEF JournalNext
<1> QED
  BY <1>18 DEF Goal

LEMMA ChainInit == JournalInit => ChainInv
BY HeldInit DEF JournalInit, ChainInv, Race, Fresh, Apart, ReadsEnd, ChainIntact, InChain, Existing

LEMMA ChainKept ==
  ASSUME OneYear
  PROVE  ChainInv /\ [JournalNext /\ OnlyNew]_journalVars => ChainInv'
<1>1. ASSUME ChainInv, JournalNext, OnlyNew PROVE ChainInv'
  BY <1>1, OneYear, HeldStep, ChainStep DEF ChainInv
<1>2. ASSUME ChainInv, UNCHANGED journalVars PROVE ChainInv'
  <2>1. JournalHeld'
    BY <1>2, HeldStep DEF ChainInv
  <2>2. UNCHANGED <<entry, born, lockedTo, restricted, posting>>
    BY <1>2 DEF journalVars
  <2>3. Race'
    <3>1. \A j : LastPlace(j)' = LastPlace(j)
      BY <2>2 DEF LastPlace, InChain, Existing
    <3> QED
      BY <1>2, <2>2, <3>1, RaceStays DEF ChainInv
  <2>4. ChainIntact'
    BY <1>2, <2>2 DEF ChainInv, ChainIntact, InChain, Existing, Posted
  <2> QED
    BY <2>1, <2>3, <2>4 DEF ChainInv
<1> QED
  BY <1>1, <1>2

(* The chain of a restricted journal has no gap, no double and no broken    *)
(* link, however requests race for its end: the row of journal_sequence,    *)
(* which each holds until it commits, keeps them apart (secure_hash_service *)
(* .py: _previous, check_journal).  Of one year and of new entries only,    *)
(* for the row is that of a year and a draft that was numbered takes none.  *)
THEOREM ChainUnbroken ==
  ASSUME OneYear
  PROVE  JournalInit /\ [][JournalNext /\ OnlyNew]_journalVars => []ChainIntact
<1>1. ChainInv => ChainIntact
  BY DEF ChainInv
<1>2. ChainInv /\ [JournalNext /\ OnlyNew]_journalVars => ChainInv'
  BY OneYear, ChainKept
<1> QED
  BY <1>1, <1>2, ChainInit, PTL

(* The same beside the other components, as the run states it: in every     *)
(* world entries are well formed, and where requests that number new        *)
(* entries race the chain stays whole (secure_hash_service.py: stamp).      *)
THEOREM ChainsWholeInWorlds ==
  ASSUME OneYear
  PROVE  Spec => []ChainIntactRace
<1> DEFINE Held == JournalHeld /\ (world = "journal_race" => ChainInv)
<1>1. Init => Held
  BY HeldInit, ChainInit DEF Init
<1>2. Held /\ [Next]_vars => Held'
  <2> SUFFICES ASSUME Held, [Next]_vars PROVE Held'
    OBVIOUS
  <2>1. world' = world /\ [JournalNext]_journalVars
    BY DEF Next, vars, journalVars
  <2>2. world = "journal_race" => [JournalNext /\ OnlyNew]_journalVars
    BY DEF Next, vars, journalVars
  <2>3. JournalHeld'
    BY <2>1, HeldStep
  <2>4. world = "journal_race" => ChainInv'
    BY <2>2, OneYear, ChainKept
  <2> QED
    BY <2>1, <2>3, <2>4
<1>3. Held => ChainIntactRace
  BY DEF JournalHeld, ChainInv, ChainIntactRace
<1> QED
  BY <1>1, <1>2, <1>3, PTL DEF Spec
=============================================================================
