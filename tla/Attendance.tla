------------------------------ MODULE Attendance ------------------------------
(***************************************************************************)
(* Days of attendance (src/backend/src/services/attendance_service.py,     *)
(* attendance_device_service.py, leave_service.py).                        *)
(*                                                                         *)
(* An employee has at most one row for a day.  It is made from the day's   *)
(* punches, by hand, from an imported sheet or by a leave, and each of     *)
(* these may come upon a row another has made; what a posted payroll run   *)
(* has locked, none may touch.                                             *)
(*                                                                         *)
(* A request is one transaction, taken at one instant.  There is one       *)
(* device, one branch and one payroll month; employees are active and      *)
(* holidays and shifts do not change.  Times stand for minutes.            *)
(***************************************************************************)
EXTENDS Integers, FiniteSets, FiniteSetsExt, Functions, NullValue

CONSTANTS
    Staff, Number,
    Punch,          \* what the device may record: [no, at, way]
    PerDay,         \* times in a day
    Day,            \* 1..n
    RestDay,        \* weekends and holidays
    HandRow,        \* what is entered by hand: [status, in, out]
    Table,          \* sheets to import: a [in, out] for some <<employee, day>>
    LeaveType,
    Direct,         \* types of leave that need no approval
    Quota,          \* of the others, days there are
    Leave           \* requests that may be filed

ASSUME DaysAssumption == IsFiniteSet(Day) /\ Day = 1..Cardinality(Day)
ASSUME StaffAssumption == Null \notin Staff
ASSUME LeaveAssumption ==
    IsFiniteSet(Leave) /\ \A type \in LeaveType \ Direct : Quota[type] \in Nat

VARIABLES
    number,         \* employee.fingerprint_no
    owner,          \* of each punch on the server, its employee
    day,            \* rows of attendance_day
    leave,          \* rows of leave_request
    posted          \* employees in the posted run of the month, or Null

attendanceVars == <<number, owner, day, leave, posted>>

Key == Staff \X Day
DayOf(t) == ((t - 1) \div PerDay) + 1

-----------------------------------------------------------------------------
(* Punches of a day                                                         *)

Holder(num, n) == CHOOSE e \in Staff \cup {Null} :
    IF \E s \in Staff : num[s] = n THEN e \in Staff /\ num[e] = n ELSE e = Null

PunchesOf(own, k) == {p \in DOMAIN own : own[p] = k[1] /\ DayOf(p.at) = k[2]}

(* First and last of a day's punches, told apart by the button pressed.     *)
Shown(P) ==
    LET times == {p.at : p \in P}
        ins == {p.at : p \in {q \in P : q.way = "in"}}
        outs == {p.at : p \in {q \in P : q.way = "out"}}
        after(t, x) == IF x > t THEN x ELSE Null
    IN  IF outs = {} THEN [in |-> Min(times), out |-> after(Min(times), Max(times))]
        ELSE IF ins = {}
        THEN [in |-> IF Min(times) < Max(outs) THEN Min(times) ELSE Null, out |-> Max(outs)]
        ELSE [in |-> Min(ins),
              out |-> IF Max(outs) > Min(ins) THEN Max(outs) ELSE after(Min(ins), Max(times))]

DayRow(status, in, out, source) ==
    [status |-> status, in |-> in, out |-> out, source |-> source, locked |-> FALSE]

OnLeave == DayRow("leave", Null, Null, "generated")

ASSUME DayNull == Null # OnLeave

Locked(d, k) == d[k] # Null /\ d[k].locked

(* Wrong on purpose: a leave gives way to punches.                          *)
RebuiltOverLeave(d, own, k) ==
    IF PunchesOf(own, k) = {} \/ Locked(d, k) \/ (d[k] # Null /\ d[k].source = "manual")
    THEN d[k]
    ELSE DayRow("present", Shown(PunchesOf(own, k)).in, Shown(PunchesOf(own, k)).out, "device")

Rebuilt(d, own, k) ==
    IF \/ PunchesOf(own, k) = {}
       \/ Locked(d, k)
       \/ d[k] # Null /\ \/ d[k].source = "manual"
                         \/ d[k].source = "generated" /\ d[k].status = "leave"
    THEN d[k]
    ELSE DayRow("present", Shown(PunchesOf(own, k)).in, Shown(PunchesOf(own, k)).out, "device")

RebuildDays(d, own, keys) ==
    [k \in Key |-> IF k \in keys THEN Rebuilt(d, own, k) ELSE d[k]]

KeysOf(own, P) == {<<own[p], DayOf(p.at)>> : p \in {q \in P : own[q] # Null}}

-----------------------------------------------------------------------------
(* Punches the server has are passed over; the days of the others are made  *)
(* anew.                                                                    *)
IngestPunches(P) ==
    LET fresh == P \ DOMAIN owner
    IN
    /\ owner' = [p \in DOMAIN owner \cup fresh |->
                    IF p \in fresh THEN Holder(number, p.no) ELSE owner[p]]
    /\ day' = RebuildDays(day, owner', KeysOf(owner', fresh))
    /\ UNCHANGED <<number, leave, posted>>

(* A number is one employee's; punches nobody owned become its employee's.  *)
SetNumber(e, n) ==
    /\ number[e] # n /\ (n # Null => Holder(number, n) = Null)
    /\ number' = [number EXCEPT ![e] = n]
    /\ LET claimed == {p \in DOMAIN owner : n # Null /\ p.no = n /\ owner[p] = Null}
       IN  /\ owner' = [p \in DOMAIN owner |-> IF p \in claimed THEN e ELSE owner[p]]
           /\ day' = RebuildDays(day, owner', KeysOf(owner', claimed))
    /\ UNCHANGED <<leave, posted>>

(* Punches of some days go to who has their number now.                     *)
Reprocess(D) ==
    LET asked == {p \in DOMAIN owner : DayOf(p.at) \in D}
        moved == {p \in asked : owner[p] # Holder(number, p.no)}
    IN
    /\ asked # {}
    /\ owner' = [p \in DOMAIN owner |-> IF p \in asked THEN Holder(number, p.no) ELSE owner[p]]
    /\ day' = RebuildDays(day, owner', KeysOf(owner, moved) \cup KeysOf(owner', asked))
    /\ UNCHANGED <<number, leave, posted>>

-----------------------------------------------------------------------------
(* Rows by hand and from a sheet                                            *)

Derived(k, in) ==
    IF k[2] \in RestDay THEN "rest" ELSE IF in # Null THEN "present" ELSE "absent"

RecordDay(k, r) ==
    /\ ~ Locked(day, k)
    /\ day' = [day EXCEPT ![k] =
        DayRow(IF r.status = Null THEN Derived(k, r.in) ELSE r.status, r.in, r.out, "manual")]
    /\ UNCHANGED <<number, owner, leave, posted>>

DeleteDay(k) ==
    /\ day[k] # Null /\ ~ Locked(day, k)
    /\ day' = [day EXCEPT ![k] = Null]
    /\ UNCHANGED <<number, owner, leave, posted>>

(* Wrong on purpose: what is locked is imported too.                        *)
ImportAll(table) ==
    /\ day' = [k \in Key |-> IF k \in DOMAIN table
            THEN DayRow(Derived(k, table[k].in), table[k].in, table[k].out, "import") ELSE day[k]]
    /\ UNCHANGED <<number, owner, leave, posted>>

ImportSheet(table) ==
    /\ day' = [k \in Key |-> IF k \in DOMAIN table /\ ~ Locked(day, k)
            THEN DayRow(Derived(k, table[k].in), table[k].in, table[k].out, "import") ELSE day[k]]
    /\ UNCHANGED <<number, owner, leave, posted>>

-----------------------------------------------------------------------------
(* Leave                                                                    *)

WorkDays(from, to) == (from..to) \ RestDay
DaysOf(l) == WorkDays(l.from, l.to)
Living(l) == l # Null /\ l.status \in {"submitted", "approved"}

ApprovedLeaves(lv, e, type) ==
    {q \in Leave : lv[q] # Null /\ lv[q].employee = e /\ lv[q].type = type
                                 /\ lv[q].status = "approved"}

DaysTaken(lv, e, type) ==
    LET S == ApprovedLeaves(lv, e, type)
    IN  SumFunctionOnSet([q \in S |-> Cardinality(DaysOf(lv[q]))], S)

WriteDays(l) ==
    [k \in Key |-> IF k[1] = l.employee /\ k[2] \in DaysOf(l) /\ ~ Locked(day, k)
                   THEN OnLeave ELSE day[k]]

RequestLeave(q, e, type, from, to) ==
    LET l == [employee |-> e, type |-> type, from |-> from, to |-> to,
              status |-> IF type \in Direct THEN "approved" ELSE "submitted"]
    IN
    /\ leave[q] = Null /\ from =< to /\ WorkDays(from, to) # {}
    /\ \A x \in Leave : Living(leave[x]) /\ leave[x].employee = e =>
          leave[x].from > to \/ leave[x].to < from
    /\ leave' = [leave EXCEPT ![q] = l]
    /\ day' = IF type \in Direct THEN WriteDays(l) ELSE day
    /\ UNCHANGED <<number, owner, posted>>

ApproveLeave(q) ==
    LET l == leave[q]
    IN
    /\ l # Null /\ l.status = "submitted"
    /\ DaysTaken(leave, l.employee, l.type) + Cardinality(DaysOf(l)) =< Quota[l.type]
    /\ leave' = [leave EXCEPT ![q].status = "approved"]
    /\ day' = WriteDays(l)
    /\ UNCHANGED <<number, owner, posted>>

RejectLeave(q) ==
    /\ leave[q] # Null /\ leave[q].status # "approved"
    /\ leave' = [leave EXCEPT ![q].status = "rejected"]
    /\ UNCHANGED <<number, owner, day, posted>>

(* The days of leave in its time go, whichever leave wrote them.            *)
CancelLeave(q) ==
    LET l == leave[q]
        days == {k \in Key : /\ k[1] = l.employee /\ k[2] \in l.from..l.to
                             /\ day[k] # Null /\ day[k].status = "leave"}
    IN
    /\ l # Null /\ l.status # "cancelled"
    /\ \A k \in days : ~ Locked(day, k)
    /\ leave' = [leave EXCEPT ![q].status = "cancelled"]
    /\ day' = [k \in Key |-> IF k \in days THEN Null ELSE day[k]]
    /\ UNCHANGED <<number, owner, posted>>

-----------------------------------------------------------------------------
(* Payroll of the month                                                     *)

PostRun(E) ==
    /\ posted = Null /\ E # {}
    /\ posted' = E
    /\ day' = [k \in Key |-> IF k[1] \in E /\ day[k] # Null
                             THEN [day[k] EXCEPT !.locked = TRUE] ELSE day[k]]
    /\ UNCHANGED <<number, owner, leave>>

ReverseRun ==
    /\ posted # Null
    /\ posted' = Null
    /\ day' = [k \in Key |-> IF day[k] # Null
                             THEN [day[k] EXCEPT !.locked = FALSE] ELSE day[k]]
    /\ UNCHANGED <<number, owner, leave>>

-----------------------------------------------------------------------------
AttendanceInit ==
    /\ number = [e \in Staff |-> Null]
    /\ owner = [p \in {} |-> Null]
    /\ day = [k \in Key |-> Null]
    /\ leave = [q \in Leave |-> Null]
    /\ posted = Null

Numbering ==
    \/ \E e \in Staff, n \in Number \cup {Null} : SetNumber(e, n)
    \/ \E D \in SUBSET Day : Reprocess(D)

Leaves ==
    \E q \in Leave :
        \/ \E e \in Staff, type \in LeaveType, from, to \in Day : RequestLeave(q, e, type, from, to)
        \/ ApproveLeave(q) \/ RejectLeave(q) \/ CancelLeave(q)

ByHand ==
    \/ \E k \in Key : (\E r \in HandRow : RecordDay(k, r)) \/ DeleteDay(k)
    \/ \E table \in Table : ImportSheet(table)

PayrollOfMonth == (\E E \in SUBSET Staff : PostRun(E)) \/ ReverseRun

AttendanceNext ==
    \/ \E P \in SUBSET Punch : IngestPunches(P)
    \/ Numbering \/ Leaves \/ ByHand \/ PayrollOfMonth

-----------------------------------------------------------------------------
(* A row made from punches shows the day's punches, unless all of them have *)
(* become another's (attendance_device_service.py: rebuild_day, reprocess). *)
ShowsPunches ==
    \A k \in Key : day[k] # Null /\ day[k].source = "device" =>
        LET P == PunchesOf(owner, k)
        IN  P = {} \/ [in |-> day[k].in, out |-> day[k].out] = Shown(P)

(* The days of an approved leave are days of leave, whatever the device     *)
(* brings (leave_service.py: _write_days, cancel).                          *)
LeaveIsShown ==
    \A q \in Leave : leave[q] # Null /\ leave[q].status = "approved" =>
        \A d \in DaysOf(leave[q]) :
            LET k == <<leave[q].employee, d>> IN day[k] # Null /\ day[k].status = "leave"

(* Nobody has more days of leave approved than there are                    *)
(* (leave_service.py: approve).                                             *)
WithinQuota ==
    \A e \in Staff, type \in LeaveType \ Direct : DaysTaken(leave, e, type) =< Quota[type]

(* What payroll has counted stays as it was until the run is reversed:      *)
(* neither hand, sheet, device nor leave changes it (attendance_service.py: *)
(* _assert_open; leave_service.py: cancel).                                 *)
LockedDayStays ==
    \A k \in Key : Locked(day, k) =>
        \/ day'[k] = day[k]
        \/ posted' = Null /\ day'[k] = [day[k] EXCEPT !.locked = FALSE]
=============================================================================
