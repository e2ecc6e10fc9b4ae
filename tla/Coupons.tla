------------------------------- MODULE Coupons -------------------------------
(***************************************************************************)
(* Paper coupons (src/backend/src: services/coupon_custody_service.py,     *)
(* coupon_receipt_service.py, document_edit_service.py, api/sales.py,      *)
(* api/coupon_custody.py, api/coupon_receipts.py).  The office loads books *)
(* of numbered sheets on representatives, who hand them to customers on    *)
(* invoices or give them back; plumbers bring the sheets in, on receipts   *)
(* that are approved or rejected.                                          *)
(*                                                                         *)
(* All sheets are of one kind.  A book is a range of numbers.  Each request*)
(* is one transaction and runs at one instant.                             *)
(***************************************************************************)
EXTENDS Integers, FiniteSets, Functions, NullValue

CONSTANTS
    Sheet, Book,   \* numbers, and the ranges of them that documents name
    Rep,
    Load,          \* custody documents
    Bill,          \* sales invoices
    CouponReceipt

ASSUME BookAssumption == Book \subseteq (SUBSET Sheet) \ {{}}
ASSUME PaperAssumption == IsFiniteSet(Sheet) /\ IsFiniteSet(Load)

(* Rows of the tables, as their constraints have them.                      *)
LoadRow == [dir : {"out", "in"}, rep : Rep, book : Book]
SheetRow == [rep : Rep, status : {"with_rep", "returned", "given"}, load : Load,
             back : Load \cup {Null}, bill : Bill \cup {Null}]
BillRow == [rep : Rep, book : Book \cup {{}}]
ReceiptRow == [status : {"pending", "approved", "rejected"}, on : [Sheet -> Bill \cup {Null}]]

ASSUME CouponNull ==
    Null \notin Load \cup Bill \cup LoadRow \cup SheetRow \cup BillRow \cup ReceiptRow

VARIABLES
    load,    \* rows of coupon_custody: direction, representative, book
    sheet,   \* rows of coupon_custody_serial
    bill,    \* of invoices: representative and book printed on it
    brought  \* rows of coupon_receipt: status, and the bill of each sheet

couponVars == <<load, sheet, bill, brought>>

Loads == {d \in Load : load[d] # Null}
Bills == {i \in Bill : bill[i] # Null}

Is(s, status) == sheet[s] # Null /\ sheet[s].status = status
PrintedOn(s) == {i \in Bills : s \in bill[i].book}

-----------------------------------------------------------------------------
(* Custody. *)

(* The book may have been loaded and come back; a sheet never loaded must   *)
(* not be on an invoice.                                                    *)
Issue(d, r, B) ==
    /\ load[d] = Null
    /\ \A s \in B : IF sheet[s] = Null THEN PrintedOn(s) = {} ELSE Is(s, "returned")
    /\ load' = [load EXCEPT ![d] = [dir |-> "out", rep |-> r, book |-> B]]
    /\ sheet' = [s \in Sheet |-> IF s \notin B THEN sheet[s] ELSE
                    [rep |-> r, status |-> "with_rep", load |-> d, back |-> Null, bill |-> Null]]
    /\ UNCHANGED <<bill, brought>>

HeldBy(s, r) == Is(s, "with_rep") /\ sheet[s].rep = r

GiveBack(d, r, B) ==
    /\ load[d] = Null /\ \A s \in B : HeldBy(s, r)
    /\ load' = [load EXCEPT ![d] = [dir |-> "in", rep |-> r, book |-> B]]
    /\ sheet' = [s \in Sheet |-> IF s \notin B THEN sheet[s] ELSE
                    [sheet[s] EXCEPT !.status = "returned", !.back = d]]
    /\ UNCHANGED <<bill, brought>>

(* Wrong on purpose: the rows that still name the document are counted, but *)
(* not looked at.                                                           *)
UnmovedByCount(d) ==
    \A s \in load[d].book : sheet[s] # Null /\ d \in {sheet[s].load, sheet[s].back}

(* Every sheet of the document is where the document put it.                *)
Unmoved(d) ==
    \A s \in load[d].book :
        IF load[d].dir = "out" THEN HeldBy(s, load[d].rep) /\ sheet[s].load = d
                               ELSE Is(s, "returned") /\ sheet[s].back = d

DeleteLoad(d) ==
    /\ d \in Loads /\ Unmoved(d)
    /\ load' = [load EXCEPT ![d] = Null]
    /\ sheet' = [s \in Sheet |->
                    IF s \notin load[d].book THEN sheet[s]
                    ELSE IF load[d].dir = "out" THEN Null
                    ELSE [sheet[s] EXCEPT !.status = "with_rep", !.back = Null]]
    /\ UNCHANGED <<bill, brought>>

-----------------------------------------------------------------------------
(* Invoices. *)

Loaded(r) == \E d \in Loads : load[d].dir = "out" /\ load[d].rep = r

(* release_for_invoice.                                                     *)
Freed(i) ==
    [s \in Sheet |-> IF sheet[s] # Null /\ sheet[s].bill = i
                     THEN [sheet[s] EXCEPT !.status = "with_rep", !.bill = Null] ELSE sheet[s]]

(* Once the kind has been loaded on anyone, sheets in custody are handed    *)
(* out by who holds them only; one who was loaded hands out nothing else,   *)
(* but for what the invoice already named before.                           *)
MayHand(rows, r, B, same) ==
    Loads # {} =>
        \A s \in B :
            CASE rows[s] = Null -> Loaded(r) => same
              [] rows[s] # Null /\ rows[s].status = "returned" -> ~ Loaded(r)
              [] OTHER -> rows[s].status = "with_rep" /\ rows[s].rep = r /\ Loaded(r)

Handed(rows, i, r, B) ==
    [s \in Sheet |-> IF s \in B /\ rows[s] # Null /\ rows[s].status = "with_rep"
                     THEN [rows[s] EXCEPT !.status = "given", !.bill = i] ELSE rows[s]]

SellWith(i, r, B) ==
    /\ i \notin Bills /\ MayHand(sheet, r, B, FALSE)
    /\ bill' = [bill EXCEPT ![i] = [rep |-> r, book |-> B]]
    /\ sheet' = Handed(sheet, i, r, B)
    /\ UNCHANGED <<load, brought>>

Received(i) == {s \in Sheet : \E c \in CouponReceipt : brought[c] # Null /\ brought[c].on[s] = i}

(* Wrong on purpose: what a plumber brought in may leave its invoice.       *)
ReceivedKeptAnyway(i, rows) == TRUE

ReceivedKept(i, rows) == \A s \in Received(i) : rows[s] # Null => rows[s].status # "with_rep"

EditBill(i, r, B) ==
    LET rows == Handed(Freed(i), i, r, B) IN
    /\ i \in Bills /\ MayHand(Freed(i), r, B, B = bill[i].book)
    /\ ReceivedKept(i, rows)
    /\ bill' = [bill EXCEPT ![i] = [rep |-> r, book |-> B]]
    /\ sheet' = rows
    /\ UNCHANGED <<load, brought>>

(* Takes the lines of receipts with it.                                     *)
DeleteBill(i) ==
    /\ i \in Bills
    /\ bill' = [bill EXCEPT ![i] = Null]
    /\ sheet' = Freed(i)
    /\ brought' = [c \in CouponReceipt |-> IF brought[c] = Null THEN Null ELSE
          [brought[c] EXCEPT !.on = [s \in Sheet |-> IF @[s] = i THEN Null ELSE @[s]]]]
    /\ UNCHANGED load

-----------------------------------------------------------------------------
(* Receipts. *)

LinesOf(c) == {s \in Sheet : brought[c].on[s] # Null}
Taken(c) == {s \in Sheet : \E x \in CouponReceipt \ {c} : brought[x] # Null /\ brought[x].on[s] # Null}

(* A sheet that is on an invoice, in no one's custody, and on no other      *)
(* receipt; on names its invoice, any of those that carry it.               *)
Matches(c, S, on) ==
    \A s \in S : on[s] \in PrintedOn(s) /\ ~ Is(s, "with_rep") /\ s \notin Taken(c)

NoLines == [s \in Sheet |-> Null]
Lines == [Sheet -> Bill \cup {Null}] \ {NoLines}

BringIn(c, on, status) ==
    /\ brought[c] = Null /\ Matches(c, {s \in Sheet : on[s] # Null}, on)
    /\ brought' = [brought EXCEPT ![c] = [status |-> status, on |-> on]]
    /\ UNCHANGED <<load, sheet, bill>>

Approve(c) ==
    /\ brought[c] # Null /\ brought[c].status = "pending" /\ LinesOf(c) # {}
    /\ brought' = [brought EXCEPT ![c].status = "approved"]
    /\ UNCHANGED <<load, sheet, bill>>

(* The sheets are free to be brought again.                                 *)
Reject(c) ==
    /\ brought[c] # Null /\ brought[c].status = "pending"
    /\ brought' = [brought EXCEPT ![c] = [status |-> "rejected", on |-> NoLines]]
    /\ UNCHANGED <<load, sheet, bill>>

(* Lines that stay are not matched again.                                   *)
EditReceipt(c, on) ==
    /\ brought[c] # Null /\ brought[c].status # "rejected"
    /\ Matches(c, {s \in Sheet : on[s] \notin {Null, brought[c].on[s]}}, on)
    /\ brought' = [brought EXCEPT ![c].on = on]
    /\ UNCHANGED <<load, sheet, bill>>

DeleteReceipt(c) ==
    /\ brought[c] # Null
    /\ brought' = [brought EXCEPT ![c] = Null]
    /\ UNCHANGED <<load, sheet, bill>>

-----------------------------------------------------------------------------
CouponInit ==
    /\ load = [d \in Load |-> Null] /\ sheet = [s \in Sheet |-> Null]
    /\ bill = [i \in Bill |-> Null] /\ brought = [c \in CouponReceipt |-> Null]

CouponNext ==
    \/ \E d \in Load, r \in Rep, B \in Book : Issue(d, r, B) \/ GiveBack(d, r, B)
    \/ \E d \in Load : DeleteLoad(d)
    \/ \E i \in Bill, r \in Rep, B \in Book \cup {{}} : SellWith(i, r, B) \/ EditBill(i, r, B)
    \/ \E i \in Bill : DeleteBill(i)
    \/ \E c \in CouponReceipt, on \in Lines :
          \/ \E status \in {"pending", "approved"} : BringIn(c, on, status)
          \/ EditReceipt(c, on)
    \/ \E c \in CouponReceipt : Approve(c) \/ Reject(c) \/ DeleteReceipt(c)

CouponSpec == CouponInit /\ [][CouponNext]_couponVars

-----------------------------------------------------------------------------
InCustody(s) == sheet[s] # Null /\ sheet[s].status # "returned"

(* What a row says and what it refers to agree.                             *)
CouponTypeOK ==
    /\ \A s \in Sheet : sheet[s] # Null =>
          LET k == sheet[s] IN
          /\ k.load \in Loads /\ s \in load[k.load].book
          /\ load[k.load].dir = "out" /\ load[k.load].rep = k.rep
          /\ k.status = "given" <=> k.bill # Null
          /\ k.status = "returned" <=> k.back # Null
          /\ k.back # Null => k.back \in Loads /\ load[k.back].rep = k.rep
    /\ \A c \in CouponReceipt : brought[c] # Null =>
          /\ brought[c].status \in {"pending", "approved", "rejected"}
          /\ brought[c].status = "rejected" => LinesOf(c) = {}

Documents(dir, r) == {d \in Loads : load[d].dir = dir /\ load[d].rep = r}
OnPaper(dir, r) ==
    SumFunctionOnSet([d \in Documents(dir, r) |-> Cardinality(load[d].book)], Documents(dir, r))
Custody(r) == {s \in Sheet : InCustody(s) /\ sheet[s].rep = r}

(* What the documents say was loaded on a representative and not given back *)
(* is what he holds and what he handed out, sheet for sheet.                *)
CustodyAddsUp ==
    \A r \in Rep : OnPaper("out", r) - OnPaper("in", r) = Cardinality(Custody(r))

(* A sheet given is on an invoice that is there, of the representative it   *)
(* was loaded on.                                                           *)
GivenIsPrinted ==
    \A s \in Sheet : Is(s, "given") =>
        sheet[s].bill \in PrintedOn(s) /\ bill[sheet[s].bill].rep = sheet[s].rep

(* No two customers were handed one sheet.                                  *)
HandedOnce == \A s \in Sheet : Cardinality(PrintedOn(s)) =< 1

(* "They are still loaded on the representative, so a plumber cannot have   *)
(* them": a sheet brought in is in no one's custody.                        *)
BroughtWasHanded ==
    \A c \in CouponReceipt, s \in Sheet :
        brought[c] # Null /\ brought[c].on[s] # Null => ~ Is(s, "with_rep")
=============================================================================
