----------------------------- MODULE MCDocuments -----------------------------
(* Instances of Sales, Coupons and Attendance.  A behaviour takes place in  *)
(* one world, where one of them moves: "sales" and "sales_alone", where a   *)
(* request for a return is not interrupted; "coupons" and "coupons_loaded", *)
(* where those who issue invoices have all had coupons loaded on them;      *)
(* "punches", where two employees punch and nothing else makes a row,       *)
(* "leaves", where one takes leave, and "hands", where one does everything, *)
(* on days of work.                                                         *)
EXTENDS Sales, Coupons, Attendance, TLC

CONSTANTS World, shop, p1, p2, nour, sami, q1
VARIABLE world

vars == <<world, salesVars, couponVars, attendanceVars>>

P(no, at, way) == [no |-> no, at |-> at, way |-> way]
OfNour == {P(1, 1, "in"), P(1, 2, "out")}
MCPunch == OfNour \cup {P(2, 2, "in"), P(1, 3, "in")}
MCHandRow == {[status |-> Null, in |-> 1, out |-> 2],
              [status |-> "leave", in |-> Null, out |-> Null]}
MCTable == {<<nour, 1>> :> [in |-> 1, out |-> Null] @@ <<nour, 2>> :> [in |-> Null, out |-> Null]}
MCQuota == [type \in {"casual"} |-> 2]

MCHome == [p \in Piece |-> shop]
MCBest == [p \in Piece |-> IF p = p1 THEN 1 ELSE 2]
MCBook == {{1}, {2}, {1, 2}}

(* Documents are called by the same names in all worlds.                    *)
MCSymmetry == Permutations(Invoice) \cup Permutations(Return) \cup Permutations(Load)

Init ==
    /\ world \in World
    /\ SalesInit /\ (world \notin {"sales", "sales_alone"} => tracking = "lots")
    /\ CouponInit
    /\ AttendanceInit

(* Where other things vary, one employee has no number and the other none   *)
(* but the first.                                                           *)
NumberKept == number'[nour] # 2 /\ number'[sami] = Null
Upload == \E S \in SUBSET OfNour : IngestPunches(S)
OneLeave == \A q \in Leave : leave'[q] # Null => q = q1 /\ leave'[q].employee = nour

OnAttendance ==
    \/ /\ world = "punches"
       /\ Numbering \/ \E S \in SUBSET Punch : IngestPunches(S)
    \/ /\ world = "leaves"
       /\ (Leaves \/ Numbering \/ Upload) /\ NumberKept
       /\ \A q \in Leave : leave'[q] # leave[q] =>
             leave'[q].employee = nour /\ (leave'[q].status = "cancelled" => Living(leave[q]))
    \/ /\ world = "hands"
       /\ \/ Numbering /\ NumberKept /\ number'[nour] # Null
          \/ Leaves /\ OneLeave
          \/ Upload \/ ByHand \/ PayrollOfMonth
       /\ posted' \in {Null, {nour}}
       /\ \A k \in Key : day'[k] # Null => k[1] = nour /\ k[2] \notin RestDay

Next ==
    /\ UNCHANGED world
    /\ \/ /\ world \in {"sales", "sales_alone"}
          /\ SalesNext
          /\ world = "sales_alone" /\ (\E r \in Asker : asked[r] # Null) =>
                \A r \in Asker : asked'[r] = Null
          /\ UNCHANGED <<couponVars, attendanceVars>>
       \/ /\ world \in {"coupons", "coupons_loaded"}
          /\ CouponNext
          /\ world = "coupons_loaded" =>
                \A i \in Bill : bill'[i] \notin {bill[i], Null} => Loaded(bill'[i].rep)
          /\ UNCHANGED <<salesVars, attendanceVars>>
       \/ OnAttendance /\ UNCHANGED <<salesVars, couponVars>>

Spec == Init /\ [][Next]_vars

-----------------------------------------------------------------------------
(* The rows of sales are well formed, what a document moved is what it      *)
(* says, and a piece that was sold is on the invoice it was sold on         *)
(* (sales_service.py: create_sale; document_edit_service.py: purge_sale).   *)
SalesAddUp == SalesTypeOK /\ MovedAsDocumented /\ SoldOnLiveInvoice

(* One request at a time, no more comes back of an invoice than it sold     *)
(* (sales_service.py: return_sale).                                         *)
ReturnedWithinSoldAlone == world = "sales_alone" => ReturnedWithinSold

(* The rows of coupons are well formed, given are printed ones, and each is *)
(* in one custody; where all who sell have coupons loaded on them, one      *)
(* sheet is handed to one customer, and what a plumber brought in is in     *)
(* nobody's custody (coupon_custody_service.py: consume_for_invoice,        *)
(* assert_received_kept).                                                   *)
CouponsAddUp ==
    /\ CouponTypeOK /\ CustodyAddsUp /\ GivenIsPrinted
    /\ world = "coupons_loaded" => HandedOnce /\ BroughtWasHanded

(* Nobody is given more days of leave than there are; a row made from       *)
(* punches shows those of its employee and day, where nothing locks it; and *)
(* the days of an approved leave are days of leave, where none are entered  *)
(* by hand and what was rejected is not cancelled too (leave_service.py;    *)
(* attendance_device_service.py: rebuild_day, reprocess).                   *)
DaysAddUp ==
    /\ WithinQuota
    /\ world \in {"punches", "leaves"} => ShowsPunches
    /\ world = "leaves" => LeaveIsShown

(* What payroll has counted stays as it was until the run is reversed       *)
(* (attendance_service.py: _assert_open; leave_service.py: cancel).         *)
LockedStep == [][LockedDayStays]_vars
=============================================================================
