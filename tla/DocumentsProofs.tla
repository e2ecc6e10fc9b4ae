--------------------------- MODULE DocumentsProofs ---------------------------
(***************************************************************************)
(* Theorems about Sales, Coupons and Attendance in the worlds of           *)
(* MCDocuments, for any number of documents, pieces, sheets, employees and *)
(* days, and about Attendance by itself.                                   *)
(***************************************************************************)
EXTENDS MCDocuments, FiniteTheorems

-----------------------------------------------------------------------------
(* Attendance. *)

LeaveRow ==
    [employee : Staff, type : LeaveType, from : Day, to : Day,
     status : {"submitted", "approved", "rejected", "cancelled"}]

IsRow(r) ==
    /\ r = [status |-> r.status, in |-> r.in, out |-> r.out, source |-> r.source,
            locked |-> r.locked]
    /\ r.locked \in BOOLEAN

(* Rows of attendance are rows.                                             *)
RowsAreRows ==
    /\ day = [k \in Key |-> day[k]]
    /\ \A k \in Key : day[k] # Null => IsRow(day[k])

LeavesAreRows ==
    /\ leave = [q \in Leave |-> leave[q]]
    /\ \A q \in Leave : leave[q] # Null => leave[q] \in LeaveRow

LEMMA DayRowIsRow ==
  ASSUME NEW status, NEW in, NEW out, NEW source
  PROVE  /\ IsRow(DayRow(status, in, out, source))
         /\ DayRow(status, in, out, source).locked = FALSE
         /\ DayRow(status, in, out, source).source = source
         /\ DayRow(status, in, out, source).status = status
         /\ DayRow(status, in, out, source).in = in
         /\ DayRow(status, in, out, source).out = out
BY DEF IsRow, DayRow

Marked(r, b) == [r EXCEPT !.locked = b]

LEMMA MarkingARow ==
  ASSUME NEW r, IsRow(r), NEW b \in BOOLEAN
  PROVE  /\ IsRow(Marked(r, b))
         /\ Marked(r, b).locked = b
         /\ r.locked = b => Marked(r, b) = r
<1>1. r = [status |-> r.status, in |-> r.in, out |-> r.out, source |-> r.source,
           locked |-> r.locked]
  BY DEF IsRow
<1> DEFINE u == [status |-> r.status, in |-> r.in, out |-> r.out, source |-> r.source,
                 locked |-> b]
<1>2. Marked(r, b) = u
  BY <1>1 DEF Marked
<1>3. IsRow(u) /\ u.locked = b
  BY DEF IsRow
<1>4. r.locked = b => u = r
  BY <1>1
<1> QED
  BY <1>2, <1>3, <1>4

(* What is locked is not rebuilt, and what is rebuilt is a row.             *)
LEMMA RebuildKeeps ==
  ASSUME NEW d, NEW own, NEW k
  PROVE  /\ Locked(d, k) => Rebuilt(d, own, k) = d[k]
         /\ (d[k] # Null => IsRow(d[k])) => (Rebuilt(d, own, k) # Null => IsRow(Rebuilt(d, own, k)))
<1>1. Rebuilt(d, own, k) = d[k]
      \/ /\ ~ Locked(d, k)
         /\ Rebuilt(d, own, k) = DayRow("present", Shown(PunchesOf(own, k)).in,
                                        Shown(PunchesOf(own, k)).out, "device")
  BY DEF Rebuilt
<1>2. ASSUME NEW r, r = Rebuilt(d, own, k), d[k] # Null => IsRow(d[k])
      PROVE  r # Null => IsRow(r)
  <2>1. CASE r = d[k]
    BY <1>2, <2>1
  <2>2. CASE r # d[k]
    <3>1. PICK a, b : r = DayRow("present", a, b, "device")
      BY <1>1, <1>2, <2>2
    <3> QED
      BY <3>1, DayRowIsRow
  <2> QED
    BY <2>1, <2>2
<1> QED
  BY <1>1, <1>2

LEMMA RebuildDaysKeep ==
  ASSUME NEW own, NEW keys, RowsAreRows, day' = RebuildDays(day, own, keys)
  PROVE  /\ RowsAreRows'
         /\ \A k \in Key : Locked(day, k) => day'[k] = day[k]
<1>1. ASSUME NEW k \in Key
      PROVE  /\ day'[k] = day[k] \/ day'[k] = Rebuilt(day, own, k)
             /\ day'[k] # Null => IsRow(day'[k])
             /\ Locked(day, k) => day'[k] = day[k]
  <2>1. day'[k] = IF k \in keys THEN Rebuilt(day, own, k) ELSE day[k]
    BY DEF RebuildDays
  <2> QED
    BY <2>1, RebuildKeeps DEF RowsAreRows
<1> QED
  BY <1>1 DEF RowsAreRows, RebuildDays

(* Each step keeps rows rows, and what is locked as it is.                  *)
DaysHeld ==
    /\ RowsAreRows'
    /\ LockedDayStays

LEMMA IngestHolds ==
  ASSUME RowsAreRows, NEW S, IngestPunches(S)
  PROVE  DaysHeld
BY RebuildDaysKeep DEF IngestPunches, DaysHeld, LockedDayStays

LEMMA NumberingHolds ==
  ASSUME RowsAreRows, Numbering
  PROVE  DaysHeld
<1>1. ASSUME NEW e, NEW n, SetNumber(e, n) PROVE DaysHeld
  BY <1>1, RebuildDaysKeep DEF SetNumber, DaysHeld, LockedDayStays
<1>2. ASSUME NEW D, Reprocess(D) PROVE DaysHeld
  BY <1>2, RebuildDaysKeep DEF Reprocess, DaysHeld, LockedDayStays
<1> QED
  BY <1>1, <1>2 DEF Numbering

LEMMA WriteDaysHolds ==
  ASSUME RowsAreRows, NEW l, day' = WriteDays(l)
  PROVE  DaysHeld
<1>1. ASSUME NEW k \in Key
      PROVE  /\ day'[k] = day[k] \/ (day'[k] = OnLeave /\ ~ Locked(day, k))
  BY DEF WriteDays
<1> QED
  BY <1>1, DayRowIsRow DEF RowsAreRows, DaysHeld, LockedDayStays, WriteDays, OnLeave

LEMMA SameDaysHold ==
  ASSUME RowsAreRows, day' = day
  PROVE  DaysHeld
BY DEF RowsAreRows, DaysHeld, LockedDayStays

LEMMA LeavesHold ==
  ASSUME RowsAreRows, Leaves
  PROVE  DaysHeld
<1>1. ASSUME NEW q, NEW e, NEW type, NEW from, NEW to, RequestLeave(q, e, type, from, to)
      PROVE  DaysHeld
  BY <1>1, WriteDaysHolds, SameDaysHold DEF RequestLeave
<1>2. ASSUME NEW q, ApproveLeave(q) PROVE DaysHeld
  BY <1>2, WriteDaysHolds DEF ApproveLeave
<1>3. ASSUME NEW q, RejectLeave(q) PROVE DaysHeld
  BY <1>3, SameDaysHold DEF RejectLeave
<1>4. ASSUME NEW q, CancelLeave(q) PROVE DaysHeld
  <2>1. PICK days \in SUBSET Key : /\ \A k \in days : ~ Locked(day, k)
                                   /\ day' = [k \in Key |-> IF k \in days THEN Null ELSE day[k]]
    BY <1>4 DEF CancelLeave
  <2> QED
    BY <2>1 DEF RowsAreRows, DaysHeld, LockedDayStays
<1> QED
  BY <1>1, <1>2, <1>3, <1>4 DEF Leaves

LEMMA ByHandHolds ==
  ASSUME RowsAreRows, ByHand
  PROVE  DaysHeld
<1>1. ASSUME NEW k \in Key, NEW r, RecordDay(k, r) PROVE DaysHeld
  <2>1. PICK row : IsRow(row) /\ day' = [day EXCEPT ![k] = row]
    BY <1>1, DayRowIsRow DEF RecordDay
  <2> QED
    BY <1>1, <2>1 DEF RecordDay, RowsAreRows, DaysHeld, LockedDayStays
<1>2. ASSUME NEW k \in Key, DeleteDay(k) PROVE DaysHeld
  BY <1>2 DEF DeleteDay, RowsAreRows, DaysHeld, LockedDayStays
<1>3. ASSUME NEW table, ImportSheet(table) PROVE DaysHeld
  <2>1. ASSUME NEW k \in Key
        PROVE  day'[k] = day[k] \/ (IsRow(day'[k]) /\ ~ Locked(day, k))
    BY ZenonT(40), <1>3, DayRowIsRow DEF ImportSheet
  <2>2. day' = [k \in Key |-> day'[k]]
    BY <1>3 DEF ImportSheet
  <2> QED
    BY <2>1, <2>2 DEF RowsAreRows, DaysHeld, LockedDayStays
<1> QED
  BY <1>1, <1>2, <1>3 DEF ByHand

(* Posting locks what is locked again; reversing unlocks and no more.       *)
LEMMA PayrollHolds ==
  ASSUME RowsAreRows, PayrollOfMonth
  PROVE  DaysHeld
<1>1. ASSUME NEW E, PostRun(E) PROVE DaysHeld
  <2>1. ASSUME NEW k \in Key
        PROVE  /\ day'[k] # Null => IsRow(day'[k])
               /\ Locked(day, k) => day'[k] = day[k]
    <3>1. day'[k] = day[k] \/ (day[k] # Null /\ day'[k] = Marked(day[k], TRUE))
      BY <1>1 DEF PostRun, Marked
    <3>2. PICK r : r = day[k]
      OBVIOUS
    <3>3. /\ r # Null => IsRow(r)
          /\ r # Null /\ r.locked => r.locked = TRUE
      BY <3>2 DEF RowsAreRows, IsRow
    <3>4. PICK u : u = day'[k]
      OBVIOUS
    <3>5. /\ u # Null => IsRow(u)
          /\ r # Null /\ r.locked => u = r
      <4>1. CASE u = r
        BY <3>3, <4>1
      <4>2. CASE u # r
        <5>1. r # Null /\ IsRow(r) /\ u = Marked(r, TRUE)
          BY <3>1, <3>2, <3>3, <3>4, <4>2
        <5> QED
          BY <3>3, <5>1, MarkingARow
      <4> QED
        BY <4>1, <4>2
    <3> QED
      BY <3>2, <3>4, <3>5 DEF Locked
  <2>2. day' = [k \in Key |-> day'[k]]
    BY <1>1 DEF PostRun
  <2> QED
    BY <2>1, <2>2 DEF RowsAreRows, DaysHeld, LockedDayStays
<1>2. ASSUME ReverseRun PROVE DaysHeld
  <2>1. ASSUME NEW k \in Key
        PROVE  /\ day'[k] # Null => IsRow(day'[k])
               /\ Locked(day, k) => day'[k] = Marked(day[k], FALSE)
    <3>1. day'[k] = IF day[k] # Null THEN Marked(day[k], FALSE) ELSE day[k]
      BY <1>2 DEF ReverseRun, Marked
    <3>2. PICK r : r = day[k] /\ (r # Null => IsRow(r))
      BY DEF RowsAreRows
    <3>3. PICK u : u = day'[k]
      OBVIOUS
    <3>4. u # Null => IsRow(u)
      <4>1. CASE r = Null
        BY <3>1, <3>2, <3>3, <4>1
      <4>2. CASE r # Null
        <5>1. IsRow(r) /\ u = Marked(r, FALSE)
          BY <3>1, <3>2, <3>3, <4>2
        <5> QED
          BY <5>1, MarkingARow
      <4> QED
        BY <4>1, <4>2
    <3> QED
      BY <3>1, <3>3, <3>4 DEF Locked
  <2>2. day' = [k \in Key |-> day'[k]] /\ posted' = Null
    BY <1>2 DEF ReverseRun
  <2> QED
    BY <2>1, <2>2 DEF Marked, RowsAreRows, DaysHeld, LockedDayStays
<1> QED
  BY <1>1, <1>2 DEF PayrollOfMonth

LEMMA AttendanceHolds ==
  ASSUME RowsAreRows, [AttendanceNext]_attendanceVars
  PROVE  DaysHeld
BY IngestHolds, NumberingHolds, LeavesHold, ByHandHolds, PayrollHolds, SameDaysHold
   DEF AttendanceNext, attendanceVars

LEMMA RowsAtFirst ==
  ASSUME AttendanceInit
  PROVE  RowsAreRows
BY DEF AttendanceInit, RowsAreRows

(* A day that payroll has counted stays as it was until the run is          *)
(* reversed, whatever is punched, entered by hand, imported, asked for and  *)
(* granted (attendance_service.py: _assert_open; leave_service.py: cancel;  *)
(* attendance_device_service.py: rebuild_day).                              *)
THEOREM LockedDaysStay ==
  AttendanceInit /\ [][AttendanceNext]_attendanceVars => [][LockedDayStays]_attendanceVars
<1>1. AttendanceInit => RowsAreRows
  BY RowsAtFirst
<1>2. RowsAreRows /\ [AttendanceNext]_attendanceVars => RowsAreRows'
  BY AttendanceHolds DEF DaysHeld
<1>3. RowsAreRows /\ [AttendanceNext]_attendanceVars => LockedDayStays
  BY AttendanceHolds DEF DaysHeld
<1> QED
  BY <1>1, <1>2, <1>3, PTL
-----------------------------------------------------------------------------
(* Days of leave against the days there are. *)

LEMMA DaysAreNumbers ==
  /\ Day \subseteq Nat
  /\ \A from, to \in Day : from..to \subseteq Day
<1>1. PICK n \in Nat : Day = 1..n
  BY DaysAssumption, FS_CardinalityType
<1> QED
  BY <1>1

LEMMA LeaveDays ==
  ASSUME NEW l \in LeaveRow
  PROVE  /\ l.employee \in Staff
         /\ DaysOf(l) \subseteq Day /\ DaysOf(l) \subseteq l.from..l.to
         /\ Cardinality(DaysOf(l)) \in Nat
<1>1. l.from \in Int /\ l.to \in Int /\ l.from..l.to \subseteq Day /\ l.employee \in Staff
  <2>1. l.from \in Day /\ l.to \in Day /\ l.employee \in Staff
    BY DEF LeaveRow
  <2>2. Day \subseteq Int
    BY DaysAreNumbers
  <2>3. \A a, b \in Day : a..b \subseteq Day
    BY DaysAreNumbers
  <2>4. l.from..l.to \subseteq Day
    BY <2>1, <2>3, Zenon
  <2> QED
    BY <2>1, <2>2, <2>4, Zenon
<1>2. DaysOf(l) \subseteq l.from..l.to
  BY DEF DaysOf, WorkDays
<1>3. IsFiniteSet(DaysOf(l))
  BY <1>1, <1>2, FS_Interval, FS_Subset
<1> QED
  BY <1>1, <1>2, <1>3, FS_CardinalityType

(* What one row of leave adds to the days taken, or takes from them.        *)
LEMMA TakenBefore ==
  ASSUME NEW lv, NEW lw, NEW q \in Leave, NEW e, NEW type,
         \A x \in Leave : lv[x] # Null => lv[x] \in LeaveRow,
         \A x \in Leave : lw[x] # Null => lw[x] \in LeaveRow,
         \A x \in Leave \ {q} : lw[x] = lv[x]
  PROVE  /\ DaysTaken(lv, e, type) \in Int
         /\ q \notin ApprovedLeaves(lw, e, type) =>
              DaysTaken(lw, e, type) =< DaysTaken(lv, e, type)
         /\ q \in ApprovedLeaves(lw, e, type) /\ q \notin ApprovedLeaves(lv, e, type) =>
              DaysTaken(lw, e, type) = DaysTaken(lv, e, type) + Cardinality(DaysOf(lw[q]))
<1> DEFINE A == ApprovedLeaves(lv, e, type)
           B == ApprovedLeaves(lw, e, type)
           f == [x \in A |-> Cardinality(DaysOf(lv[x]))]
           g == [x \in B |-> Cardinality(DaysOf(lw[x]))]
<1>1. /\ A \subseteq Leave /\ B \subseteq Leave
      /\ \A x \in A : lv[x] \in LeaveRow
      /\ \A x \in B : lw[x] \in LeaveRow
      /\ \A x \in Leave \ {q} : x \in A <=> x \in B
  BY DEF ApprovedLeaves
<1>2. /\ IsFiniteSet(A) /\ IsFiniteSet(B)
      /\ DaysTaken(lv, e, type) = SumFunctionOnSet(f, A)
      /\ DaysTaken(lw, e, type) = SumFunctionOnSet(g, B)
  BY <1>1, LeaveAssumption, FS_Subset DEF DaysTaken
<1>3. /\ \A x \in A : f[x] = Cardinality(DaysOf(lv[x])) /\ f[x] \in Nat
      /\ \A x \in B : g[x] = Cardinality(DaysOf(lw[x])) /\ g[x] \in Nat
      /\ \A x \in B \ {q} : g[x] = f[x]
  BY <1>1, LeaveDays
<1> HIDE DEF A, B, f, g
<1>4. A \ {q} = B \ {q}
  BY <1>1
<1>5. /\ SumFunctionOnSet(f, A) \in Int
      /\ q \notin B => SumFunctionOnSet(g, B) =< SumFunctionOnSet(f, A)
      /\ q \in B /\ q \notin A => SumFunctionOnSet(g, B) = SumFunctionOnSet(f, A) + g[q]
  <2>1. (\A x \in A : f[x] \in Nat) /\ \A x \in B : g[x] \in Nat
    BY <1>3
  <2>2. \A x \in B \ {q} : g[x] = f[x]
    BY <1>3
  <2> QED
    BY ONLY <1>2, <1>4, <2>1, <2>2, SumOneMoved
<1> QED
  BY <1>2, <1>3, <1>5 DEF A, B

LeavesHeld ==
    LeavesAreRows /\ WithinQuota

LEMMA OneLeaveChanged ==
  ASSUME LeavesHeld, NEW q \in Leave, NEW l \in LeaveRow, leave' = [leave EXCEPT ![q] = l],
         \/ l.status # "approved"
         \/ l.type \in Direct
         \/ /\ leave[q] # Null /\ leave[q].status # "approved"
            /\ DaysTaken(leave, l.employee, l.type) + Cardinality(DaysOf(l)) =< Quota[l.type]
  PROVE  LeavesHeld'
<1> PICK lw : lw = leave'
  OBVIOUS
<1>1. /\ lw = [x \in Leave |-> lw[x]] /\ lw[q] = l
      /\ \A x \in Leave \ {q} : lw[x] = leave[x]
  BY DEF LeavesHeld, LeavesAreRows
<1>2. /\ \A x \in Leave : leave[x] # Null => leave[x] \in LeaveRow
      /\ \A x \in Leave : lw[x] # Null => lw[x] \in LeaveRow
  BY <1>1 DEF LeavesHeld, LeavesAreRows
<1>3. LeavesAreRows'
  BY <1>1, <1>2 DEF LeavesAreRows
<1>4. ASSUME NEW e \in Staff, NEW type \in LeaveType \ Direct
      PROVE  DaysTaken(lw, e, type) =< Quota[type]
  <2>0. /\ q \notin ApprovedLeaves(lw, e, type) =>
             DaysTaken(lw, e, type) =< DaysTaken(leave, e, type)
        /\ q \in ApprovedLeaves(lw, e, type) /\ q \notin ApprovedLeaves(leave, e, type) =>
             DaysTaken(lw, e, type) = DaysTaken(leave, e, type) + Cardinality(DaysOf(lw[q]))
    <3>1. \A x \in Leave \ {q} : lw[x] = leave[x]
      BY <1>1
    <3> QED
      BY ONLY <1>2, <3>1, TakenBefore
  <2>1. /\ DaysTaken(leave, e, type) \in Int /\ Quota[type] \in Int
        /\ DaysTaken(leave, e, type) =< Quota[type]
    BY <1>1, <1>2, TakenBefore, LeaveAssumption DEF LeavesHeld, WithinQuota
  <2>2. CASE q \notin ApprovedLeaves(lw, e, type)
    <3>1. DaysTaken(lw, e, type) =< DaysTaken(leave, e, type) /\ DaysTaken(lw, e, type) \in Int
      BY <1>1, <1>2, <2>0, <2>2, TakenBefore
    <3> QED
      BY <2>1, <3>1
  <2>3. CASE q \in ApprovedLeaves(lw, e, type)
    <3>1. l.status = "approved" /\ l.employee = e /\ l.type = type /\ l.type \notin Direct
      BY <1>1, <1>4, <2>3 DEF ApprovedLeaves
    <3>2. q \notin ApprovedLeaves(leave, e, type)
      BY <3>1 DEF ApprovedLeaves
    <3>3. DaysTaken(lw, e, type) = DaysTaken(leave, e, type) + Cardinality(DaysOf(lw[q]))
      BY <2>0, <2>3, <3>2
    <3> QED
      BY <1>1, <3>1, <3>3
  <2> QED
    BY <2>2, <2>3
<1>5. WithinQuota'
  BY <1>4 DEF WithinQuota
<1> QED
  BY <1>3, <1>5 DEF LeavesHeld

LEMMA SameLeavesHold ==
  ASSUME LeavesHeld, leave' = leave
  PROVE  LeavesHeld'
BY DEF LeavesHeld, LeavesAreRows, WithinQuota

(* A leave changes its status and nothing else.                             *)
LeaveAs(l, status) == [l EXCEPT !.status = status]

LEMMA StatusChanged ==
  ASSUME NEW l \in LeaveRow,
         NEW status \in {"submitted", "approved", "rejected", "cancelled"}
  PROVE  /\ LeaveAs(l, status) \in LeaveRow
         /\ LeaveAs(l, status).status = status
         /\ LeaveAs(l, status).employee = l.employee /\ LeaveAs(l, status).type = l.type
         /\ LeaveAs(l, status).from = l.from /\ LeaveAs(l, status).to = l.to
         /\ DaysOf(LeaveAs(l, status)) = DaysOf(l)
BY DEF LeaveRow, LeaveAs, DaysOf

Requested(e, type, from, to) ==
    [employee |-> e, type |-> type, from |-> from, to |-> to,
     status |-> IF type \in Direct THEN "approved" ELSE "submitted"]

LEMMA RequestedIsRow ==
  ASSUME NEW e \in Staff, NEW type \in LeaveType, NEW from \in Day, NEW to \in Day
  PROVE  /\ Requested(e, type, from, to) \in LeaveRow
         /\ Requested(e, type, from, to).type = type
         /\ Requested(e, type, from, to).employee = e
         /\ Requested(e, type, from, to).from = from /\ Requested(e, type, from, to).to = to
         /\ Requested(e, type, from, to).status = "approved" => type \in Direct
         /\ type \in Direct => Requested(e, type, from, to).status = "approved"
BY DEF Requested, LeaveRow

LEMMA LeaveChanged ==
  ASSUME LeavesHeld, NEW q \in Leave
  PROVE  /\ \A e, type, from, to : RequestLeave(q, e, type, from, to) =>
               leave' = [leave EXCEPT ![q] = Requested(e, type, from, to)]
         /\ ApproveLeave(q) =>
               /\ leave[q] \in LeaveRow
               /\ leave' = [leave EXCEPT ![q] = LeaveAs(leave[q], "approved")]
         /\ RejectLeave(q) =>
               /\ leave[q] \in LeaveRow
               /\ leave' = [leave EXCEPT ![q] = LeaveAs(leave[q], "rejected")]
         /\ CancelLeave(q) =>
               /\ leave[q] \in LeaveRow
               /\ leave' = [leave EXCEPT ![q] = LeaveAs(leave[q], "cancelled")]
<1>1. leave[q] # Null => leave[q] \in LeaveRow
  BY DEF LeavesHeld, LeavesAreRows
<1>2. \A e, type, from, to : RequestLeave(q, e, type, from, to) =>
        leave' = [leave EXCEPT ![q] = Requested(e, type, from, to)]
  BY DEF RequestLeave, Requested
<1>3. ApproveLeave(q) => leave[q] # Null
                         /\ leave' = [leave EXCEPT ![q] = LeaveAs(leave[q], "approved")]
  BY DEF ApproveLeave, LeaveAs
<1>4. RejectLeave(q) => leave[q] # Null
                        /\ leave' = [leave EXCEPT ![q] = LeaveAs(leave[q], "rejected")]
  BY DEF RejectLeave, LeaveAs
<1>5. CancelLeave(q) => leave[q] # Null
                        /\ leave' = [leave EXCEPT ![q] = LeaveAs(leave[q], "cancelled")]
  BY DEF CancelLeave, LeaveAs
<1> QED
  BY <1>1, <1>2, <1>3, <1>4, <1>5

LEMMA QuotaHolds ==
  ASSUME LeavesHeld, Leaves
  PROVE  LeavesHeld'
<1>1. ASSUME NEW q \in Leave, NEW e \in Staff, NEW type \in LeaveType, NEW from \in Day,
             NEW to \in Day, RequestLeave(q, e, type, from, to)
      PROVE  LeavesHeld'
  <2>1. PICK l : l = Requested(e, type, from, to)
    OBVIOUS
  <2>2. /\ l \in LeaveRow /\ leave' = [leave EXCEPT ![q] = l]
        /\ l.status # "approved" \/ l.type \in Direct
    BY <1>1, <2>1, RequestedIsRow, LeaveChanged
  <2> QED
    BY <2>2, OneLeaveChanged
<1>2. ASSUME NEW q \in Leave, ApproveLeave(q)
      PROVE  LeavesHeld'
  <2>1. PICK l : l = LeaveAs(leave[q], "approved")
    OBVIOUS
  <2>2. leave[q] \in LeaveRow /\ leave' = [leave EXCEPT ![q] = l]
    BY <1>2, <2>1, LeaveChanged
  <2>3. /\ l \in LeaveRow /\ l.employee = leave[q].employee /\ l.type = leave[q].type
        /\ DaysOf(l) = DaysOf(leave[q])
    BY <2>1, <2>2, StatusChanged
  <2>4. /\ leave[q] # Null /\ leave[q].status # "approved"
        /\ DaysTaken(leave, l.employee, l.type) + Cardinality(DaysOf(l)) =< Quota[l.type]
    BY <1>2, <2>3 DEF ApproveLeave
  <2> QED
    BY <2>2, <2>3, <2>4, OneLeaveChanged
<1>3. ASSUME NEW q \in Leave, RejectLeave(q) \/ CancelLeave(q)
      PROVE  LeavesHeld'
  <2>1. PICK status \in {"rejected", "cancelled"} :
          leave[q] \in LeaveRow /\ leave' = [leave EXCEPT ![q] = LeaveAs(leave[q], status)]
    BY <1>3, LeaveChanged
  <2>2. PICK l : l = LeaveAs(leave[q], status)
    OBVIOUS
  <2>3. l \in LeaveRow /\ l.status # "approved" /\ leave' = [leave EXCEPT ![q] = l]
    BY <2>1, <2>2, StatusChanged
  <2> QED
    BY <2>3, OneLeaveChanged
<1> QED
  BY <1>1, <1>2, <1>3 DEF Leaves

LEMMA LeavesUntouched ==
  ASSUME AttendanceNext
  PROVE  Leaves \/ leave' = leave
BY DEF AttendanceNext, IngestPunches, Numbering, SetNumber, Reprocess, ByHand, RecordDay,
       DeleteDay, ImportSheet, PayrollOfMonth, PostRun, ReverseRun

LEMMA LeavesAtFirst ==
  ASSUME AttendanceInit
  PROVE  LeavesHeld
<1>1. LeavesAreRows /\ \A q \in Leave : leave[q] = Null
  BY DEF AttendanceInit, LeavesAreRows
<1>2. ASSUME NEW e, NEW type PROVE ApprovedLeaves(leave, e, type) = {}
  BY <1>1 DEF ApprovedLeaves
<1>3. ASSUME NEW e, NEW type PROVE DaysTaken(leave, e, type) = 0
  BY <1>2, SumEmpty DEF DaysTaken
<1> QED
  BY <1>1, <1>3, LeaveAssumption DEF LeavesHeld, WithinQuota

(* Nobody is given more days of a type of leave than there are, in whatever *)
(* order leaves are asked for, approved, rejected and cancelled             *)
(* (leave_service.py: approve, which counts the days again).                *)
THEOREM LeaveWithinQuota ==
  AttendanceInit /\ [][AttendanceNext]_attendanceVars => []WithinQuota
<1>1. AttendanceInit => LeavesHeld
  BY LeavesAtFirst
<1>2. LeavesHeld /\ [AttendanceNext]_attendanceVars => LeavesHeld'
  BY LeavesUntouched, QuotaHolds, SameLeavesHold DEF attendanceVars
<1>3. LeavesHeld => WithinQuota
  BY DEF LeavesHeld
<1> QED
  BY <1>1, <1>2, <1>3, PTL
-----------------------------------------------------------------------------
(* Rows made from punches, and rows of leave, where nothing else makes or   *)
(* locks a row.                                                             *)

PunchRows ==
    \A k \in Key : day[k] # Null =>
        /\ day[k].locked = FALSE
        /\ \/ day[k].source = "device" /\ day[k].status # "leave"
           \/ day[k].source = "generated" /\ day[k].status = "leave"

ShownHere(own, k, r) ==
    LET S == PunchesOf(own, k)
    IN  S = {} \/ [in |-> r.in, out |-> r.out] = Shown(S)

LEMMA ShownIsRecord ==
  ASSUME NEW S
  PROVE  Shown(S) = [in |-> Shown(S).in, out |-> Shown(S).out]
<1>1. CASE {p.at : p \in {q \in S : q.way = "out"}} = {}
  BY <1>1 DEF Shown
<1>2. CASE /\ {p.at : p \in {q \in S : q.way = "out"}} # {}
           /\ {p.at : p \in {q \in S : q.way = "in"}} = {}
  BY <1>2 DEF Shown
<1>3. CASE /\ {p.at : p \in {q \in S : q.way = "out"}} # {}
           /\ {p.at : p \in {q \in S : q.way = "in"}} # {}
  BY <1>3 DEF Shown
<1> QED
  BY <1>1, <1>2, <1>3

(* Where nothing is locked or entered by hand, a rebuilt row shows the      *)
(* punches, or is one of leave.                                             *)
LEMMA RebuiltShows ==
  ASSUME NEW own, NEW k \in Key, PunchRows,
         NEW r, r = Rebuilt(day, own, k)
  PROVE  /\ day[k] # Null /\ day[k].source = "generated" => r = day[k]
         /\ r # Null => r.locked = FALSE
         /\ r # Null => \/ r.source = "device" /\ r.status # "leave"
                        \/ r.source = "generated" /\ r.status = "leave"
         /\ r # Null /\ r.source = "device" => ShownHere(own, k, r)
<1> DEFINE S == PunchesOf(own, k)
<1>1. ~ Locked(day, k)
  BY DEF PunchRows, Locked
<1>2. CASE S = {}
  <2>1. r = day[k]
    BY <1>2 DEF Rebuilt
  <2> QED
    BY <1>2, <2>1 DEF PunchRows, ShownHere
<1>3. CASE S # {} /\ day[k] # Null /\ day[k].source = "generated"
  <2>1. r = day[k]
    BY <1>3 DEF Rebuilt, PunchRows
  <2> QED
    BY <1>3, <2>1 DEF PunchRows
<1>4. CASE S # {} /\ ~ (day[k] # Null /\ day[k].source = "generated")
  <2> PICK a, b : a = Shown(S).in /\ b = Shown(S).out
    OBVIOUS
  <2>1. r = DayRow("present", a, b, "device")
    BY <1>1, <1>4 DEF Rebuilt, PunchRows
  <2>2. /\ r.locked = FALSE /\ r.source = "device" /\ r.status = "present"
        /\ r.in = a /\ r.out = b
    BY ONLY <2>1 DEF DayRow
  <2>3. [in |-> r.in, out |-> r.out] = Shown(S)
    BY <2>2, ShownIsRecord
  <2> QED
    BY <1>4, <2>2, <2>3 DEF ShownHere
<1> QED
  BY <1>2, <1>3, <1>4

PunchesShown ==
    PunchRows /\ ShowsPunches

LEMMA DaysRebuilt ==
  ASSUME PunchesShown, NEW keys, NEW own, own = owner', day' = RebuildDays(day, own, keys),
         \A k \in Key : k \in keys \/ PunchesOf(own, k) = PunchesOf(owner, k)
  PROVE  /\ PunchesShown'
         /\ \A k \in Key : day[k] # Null /\ day[k].source = "generated" => day'[k] = day[k]
<1>1. ASSUME NEW k \in Key, NEW r, r = day'[k]
      PROVE  /\ day[k] # Null /\ day[k].source = "generated" => r = day[k]
             /\ r # Null => r.locked = FALSE
             /\ r # Null => \/ r.source = "device" /\ r.status # "leave"
                            \/ r.source = "generated" /\ r.status = "leave"
             /\ r # Null /\ r.source = "device" => ShownHere(own, k, r)
  <2>1. CASE k \in keys
    <3>1. r = Rebuilt(day, own, k)
      BY <1>1, <2>1 DEF RebuildDays
    <3> QED
      BY ZenonT(40), <3>1, RebuiltShows DEF PunchesShown
  <2>2. CASE k \notin keys
    <3>1. r = day[k] /\ PunchesOf(own, k) = PunchesOf(owner, k)
      BY <1>1, <2>2 DEF RebuildDays
    <3>2. r # Null /\ r.source = "device" => ShownHere(owner, k, r)
      BY <3>1 DEF PunchesShown, ShowsPunches, ShownHere
    <3> QED
      BY <3>1, <3>2 DEF PunchesShown, PunchRows, ShownHere
  <2> QED
    BY <2>1, <2>2
<1>2. PunchRows'
  BY <1>1 DEF PunchRows
<1>3. ShowsPunches'
  BY <1>1 DEF ShowsPunches, ShownHere
<1> QED
  BY <1>1, <1>2, <1>3 DEF PunchesShown

(* The days whose punches change hands are those that are made anew.        *)
LEMMA KeyOfPunch ==
  ASSUME NEW own, NEW S, NEW k \in Key, NEW p \in S, own[p] = k[1], DayOf(p.at) = k[2]
  PROVE  k \in KeysOf(own, S)
<1>1. k = <<k[1], k[2]>> /\ k[1] # Null
  BY StaffAssumption DEF Key
<1> QED
  BY <1>1 DEF KeysOf

LEMMA PunchStepShown ==
  ASSUME PunchesShown, Numbering \/ \E S : IngestPunches(S)
  PROVE  /\ PunchesShown'
         /\ \A k \in Key : day[k] # Null /\ day[k].source = "generated" => day'[k] = day[k]
<1> PICK own : own = owner'
  OBVIOUS
<1>1. ASSUME NEW S, IngestPunches(S)
      PROVE  \E keys : /\ day' = RebuildDays(day, own, keys)
                       /\ \A k \in Key : k \in keys \/ PunchesOf(own, k) = PunchesOf(owner, k)
  <2> DEFINE fresh == S \ DOMAIN owner
  <2>1. /\ DOMAIN own = DOMAIN owner \cup fresh
        /\ \A p \in DOMAIN owner : own[p] = owner[p]
        /\ day' = RebuildDays(day, own, KeysOf(own, fresh))
    BY <1>1 DEF IngestPunches
  <2>2. ASSUME NEW k \in Key, k \notin KeysOf(own, fresh)
        PROVE  PunchesOf(own, k) = PunchesOf(owner, k)
    <3>1. ASSUME NEW p \in fresh PROVE p \notin PunchesOf(own, k)
      BY <2>2, KeyOfPunch DEF PunchesOf
    <3> QED
      BY <2>1, <3>1 DEF PunchesOf
  <2> QED
    BY <2>1, <2>2
<1>2. ASSUME NEW e, NEW n, SetNumber(e, n)
      PROVE  \E keys : /\ day' = RebuildDays(day, own, keys)
                       /\ \A k \in Key : k \in keys \/ PunchesOf(own, k) = PunchesOf(owner, k)
  <2> DEFINE claimed == {p \in DOMAIN owner : n # Null /\ p.no = n /\ owner[p] = Null}
  <2>1. /\ own = [p \in DOMAIN owner |-> IF p \in claimed THEN e ELSE owner[p]]
        /\ day' = RebuildDays(day, own, KeysOf(own, claimed))
    BY <1>2 DEF SetNumber
  <2>2. ASSUME NEW k \in Key, k \notin KeysOf(own, claimed)
        PROVE  PunchesOf(own, k) = PunchesOf(owner, k)
    <3>1. ASSUME NEW p \in claimed PROVE p \notin PunchesOf(own, k) /\ p \notin PunchesOf(owner, k)
      <4>1. p \notin PunchesOf(own, k)
        BY <2>2, KeyOfPunch DEF PunchesOf
      <4>2. k[1] # Null
        BY StaffAssumption DEF Key
      <4> QED
        BY <4>1, <4>2 DEF PunchesOf
    <3> QED
      BY <2>1, <3>1 DEF PunchesOf
  <2> QED
    BY <2>1, <2>2
<1>3. ASSUME NEW D, Reprocess(D)
      PROVE  \E keys : /\ day' = RebuildDays(day, own, keys)
                       /\ \A k \in Key : k \in keys \/ PunchesOf(own, k) = PunchesOf(owner, k)
  <2> DEFINE claimed == {p \in DOMAIN owner : DayOf(p.at) \in D}
             moved == {p \in claimed : owner[p] # Holder(number, p.no)}
             keys == KeysOf(owner, moved) \cup KeysOf(own, claimed)
  <2>1. /\ own = [p \in DOMAIN owner |-> IF p \in claimed THEN Holder(number, p.no) ELSE owner[p]]
        /\ day' = RebuildDays(day, own, keys)
    BY <1>3 DEF Reprocess
  <2>2. ASSUME NEW k \in Key, k \notin keys
        PROVE  PunchesOf(own, k) = PunchesOf(owner, k)
    <3>1. ASSUME NEW p \in claimed PROVE p \notin PunchesOf(own, k)
      BY <2>2, KeyOfPunch DEF PunchesOf
    <3>2. ASSUME NEW p \in moved PROVE p \notin PunchesOf(owner, k)
      BY <2>2, KeyOfPunch DEF PunchesOf
    <3>3. ASSUME NEW p \in claimed, p \notin moved PROVE own[p] = owner[p]
      BY <2>1, <3>3
    <3>4. \A p \in DOMAIN owner : p \notin claimed => own[p] = owner[p]
      BY <2>1
    <3>5. DOMAIN own = DOMAIN owner
      BY <2>1
    <3>6. moved \subseteq claimed /\ claimed \subseteq DOMAIN owner
      OBVIOUS
    <3> HIDE DEF claimed, moved, keys
    <3> QED
      BY <3>1, <3>2, <3>3, <3>4, <3>5, <3>6 DEF PunchesOf
  <2> HIDE DEF keys
  <2> QED
    BY <2>1, <2>2
<1>4. \E keys : /\ day' = RebuildDays(day, own, keys)
                /\ \A k \in Key : k \in keys \/ PunchesOf(own, k) = PunchesOf(owner, k)
  BY <1>1, <1>2, <1>3 DEF Numbering
<1> QED
  BY <1>4, DaysRebuilt

-----------------------------------------------------------------------------
(* Leaves of one employee do not meet, and their days are days of leave.    *)

LeavesApart ==
    \A q, x \in Leave :
        q # x /\ Living(leave[q]) /\ Living(leave[x]) /\ leave[q].employee = leave[x].employee =>
            leave[q].from > leave[x].to \/ leave[q].to < leave[x].from

LeaveShown ==
    LeavesHeld /\ PunchesShown /\ LeavesApart /\ LeaveIsShown

LEMMA LeaveRowsStay ==
  ASSUME LeaveShown, Numbering \/ \E S : IngestPunches(S)
  PROVE  LeaveShown'
<1>1. /\ PunchesShown'
      /\ \A k \in Key : day[k] # Null /\ day[k].source = "generated" => day'[k] = day[k]
  BY PunchStepShown DEF LeaveShown
<1>2. leave' = leave
  BY DEF IngestPunches, Numbering, SetNumber, Reprocess
<1>3. LeavesHeld' /\ LeavesApart'
  BY <1>2, SameLeavesHold DEF LeaveShown, LeavesApart
<1>4. LeaveIsShown'
  <2> SUFFICES ASSUME NEW q \in Leave, leave[q] # Null, leave[q].status = "approved",
                      NEW d \in DaysOf(leave[q])
               PROVE  day'[<<leave[q].employee, d>>] # Null
                      /\ day'[<<leave[q].employee, d>>].status = "leave"
    BY <1>2 DEF LeaveIsShown
  <2> PICK k : k = <<leave[q].employee, d>>
    OBVIOUS
  <2>1. day[k] # Null /\ day[k].status = "leave"
    BY DEF LeaveShown, LeaveIsShown
  <2>2. k \in Key
    BY LeaveDays DEF LeaveShown, LeavesHeld, LeavesAreRows, Key
  <2>3. day[k].source = "generated"
    BY <2>1, <2>2 DEF LeaveShown, PunchesShown, PunchRows
  <2> QED
    BY <1>1, <2>1, <2>2, <2>3
<1> QED
  BY <1>1, <1>3, <1>4 DEF LeaveShown
LEMMA WrittenShown ==
  ASSUME PunchesShown, NEW l, day' = WriteDays(l), owner' = owner
  PROVE  /\ PunchesShown'
         /\ \A k \in Key : /\ k[1] = l.employee /\ k[2] \in DaysOf(l) => day'[k] = OnLeave
                           /\ day'[k] = day[k] \/ day'[k] = OnLeave
<1>1. ASSUME NEW k \in Key
      PROVE  /\ k[1] = l.employee /\ k[2] \in DaysOf(l) => day'[k] = OnLeave
             /\ day'[k] = day[k] \/ day'[k] = OnLeave
  <2>1. ~ Locked(day, k)
    BY DEF PunchesShown, PunchRows, Locked
  <2> QED
    BY <2>1 DEF WriteDays
<1>2. OnLeave.locked = FALSE /\ OnLeave.source = "generated" /\ OnLeave.status = "leave"
  BY DEF OnLeave, DayRow
<1>3. PunchRows'
  BY <1>1, <1>2 DEF PunchesShown, PunchRows
<1>4. ShowsPunches'
  <2> SUFFICES ASSUME NEW k \in Key, day'[k] # Null, day'[k].source = "device"
               PROVE  ShownHere(owner, k, day'[k])
    BY DEF ShowsPunches, ShownHere
  <2>1. day'[k] = day[k]
    BY <1>1, <1>2
  <2> QED
    BY <2>1 DEF PunchesShown, ShowsPunches, ShownHere
<1> QED
  BY <1>1, <1>3, <1>4 DEF PunchesShown

LEMMA ApartStill ==
  ASSUME LeavesHeld, LeavesApart, NEW q \in Leave, NEW r, leave' = [leave EXCEPT ![q] = r],
         r.employee = leave[q].employee, r.from = leave[q].from, r.to = leave[q].to,
         Living(r) => Living(leave[q])
  PROVE  LeavesApart'
<1> PICK lw : lw = leave'
  OBVIOUS
<1>1. lw[q] = r /\ \A x \in Leave \ {q} : lw[x] = leave[x]
  BY DEF LeavesHeld, LeavesAreRows
<1>2. ASSUME NEW x \in Leave
      PROVE  /\ Living(lw[x]) => Living(leave[x])
             /\ lw[x].employee = leave[x].employee /\ lw[x].from = leave[x].from
             /\ lw[x].to = leave[x].to
  <2>1. CASE x = q
    BY <1>1, <2>1
  <2>2. CASE x # q
    BY <1>1, <2>2
  <2> QED
    BY <2>1, <2>2
<1>3. \A x, y \in Leave :
        x # y /\ Living(lw[x]) /\ Living(lw[y]) /\ lw[x].employee = lw[y].employee =>
            lw[x].from > lw[y].to \/ lw[x].to < lw[y].from
  BY <1>2 DEF LeavesApart
<1> QED
  BY <1>3 DEF LeavesApart

(* A step of leaves: what it writes covers the leave it approves, and it    *)
(* removes no day of one that stays approved.                               *)
LEMMA ShownAfter ==
  ASSUME LeaveShown, LeavesHeld', PunchesShown', LeavesApart',
         NEW q \in Leave, NEW l, leave' = [leave EXCEPT ![q] = l],
         \A k \in Key : \/ day'[k] = day[k] \/ day'[k] = OnLeave
                        \/ /\ Living(leave[q]) /\ k[1] = leave[q].employee
                           /\ k[2] \in leave[q].from..leave[q].to,
         l.status = "approved" =>
            \A k \in Key : k[1] = l.employee /\ k[2] \in DaysOf(l) => day'[k] = OnLeave,
         (\A k \in Key : day'[k] = day[k] \/ day'[k] = OnLeave) \/ l.status # "approved"
  PROVE  LeaveShown'
<1> PICK lw : lw = leave'
  OBVIOUS
<1>0. OnLeave # Null /\ OnLeave.status = "leave"
  BY DayNull DEF OnLeave, DayRow
<1>1. lw[q] = l /\ \A x \in Leave \ {q} : lw[x] = leave[x]
  BY DEF LeaveShown, LeavesHeld, LeavesAreRows
<1>2. ASSUME NEW x \in Leave, lw[x] # Null, lw[x].status = "approved", NEW d \in DaysOf(lw[x]),
             NEW k, k = <<lw[x].employee, d>>
      PROVE  day'[k] # Null /\ day'[k].status = "leave"
  <2>0. lw[x] \in LeaveRow
    BY <1>2 DEF LeavesHeld, LeavesAreRows
  <2>1. k \in Key /\ k[1] = lw[x].employee /\ k[2] = d
    BY <1>2, <2>0, LeaveDays DEF Key
  <2>2. CASE x = q
    BY <1>0, <1>1, <1>2, <2>1, <2>2
  <2>3. CASE x # q
    <3>1. leave[x] = lw[x]
      BY <1>1, <2>3
    <3>2. day[k] # Null /\ day[k].status = "leave"
      BY <1>2, <3>1 DEF LeaveShown, LeaveIsShown
    <3>3. CASE day'[k] = day[k] \/ day'[k] = OnLeave
      BY <1>0, <3>2, <3>3
    <3>4. CASE /\ Living(leave[q]) /\ k[1] = leave[q].employee
               /\ k[2] \in leave[q].from..leave[q].to
      <4>1. leave[q] \in LeaveRow /\ leave[x] \in LeaveRow
        BY <2>0, <3>1, <3>4 DEF LeaveShown, LeavesHeld, LeavesAreRows, Living
      <4>2. Living(leave[x]) /\ leave[x].employee = leave[q].employee
        BY <1>2, <2>1, <3>1, <3>4 DEF Living
      <4>3. leave[x].from > leave[q].to \/ leave[x].to < leave[q].from
        BY <2>3, <3>4, <4>2 DEF LeaveShown, LeavesApart
      <4>4. d \in leave[x].from..leave[x].to /\ d \in leave[q].from..leave[q].to
        BY <1>2, <2>1, <3>1, <3>4, <4>1, LeaveDays
      <4>5. /\ leave[x].from \in Int /\ leave[x].to \in Int
            /\ leave[q].from \in Int /\ leave[q].to \in Int
        <5>1. Day \subseteq Int
          BY DaysAreNumbers
        <5> QED
          BY <4>1, <5>1 DEF LeaveRow
      <4> QED
        BY <4>3, <4>4, <4>5
    <3> QED
      BY <2>1, <3>3, <3>4
  <2> QED
    BY <2>2, <2>3
<1>3. LeaveIsShown'
  BY <1>2 DEF LeaveIsShown
<1> QED
  BY <1>3 DEF LeaveShown

(* Where what was rejected is not cancelled too.                            *)
LivingCancelled ==
    \A q \in Leave : leave'[q] # leave[q] =>
        (leave'[q].status = "cancelled" => Living(leave[q]))

LEMMA LeaveStepShown ==
  ASSUME LeaveShown, Leaves, LivingCancelled
  PROVE  LeaveShown'
<1> USE DEF LeaveShown
<1>0. LeavesHeld'
  BY QuotaHolds
<1>1. ASSUME NEW q \in Leave, NEW e \in Staff, NEW type \in LeaveType, NEW from \in Day,
             NEW to \in Day, RequestLeave(q, e, type, from, to)
      PROVE  LeaveShown'
  <2>1. PICK l : l = Requested(e, type, from, to)
    OBVIOUS
  <2>2. leave' = [leave EXCEPT ![q] = l]
    BY <1>1, <2>1, LeaveChanged
  <2>3. /\ l \in LeaveRow /\ l.employee = e /\ l.from = from /\ l.to = to
        /\ l.status = "approved" <=> type \in Direct
    BY <2>1, RequestedIsRow
  <2>4. /\ owner' = owner
        /\ \A x \in Leave : Living(leave[x]) /\ leave[x].employee = e =>
              leave[x].from > to \/ leave[x].to < from
    BY <1>1 DEF RequestLeave
  <2>5. day' = IF type \in Direct THEN WriteDays(l) ELSE day
    BY <1>1, <2>1 DEF RequestLeave, Requested
  <2>6. /\ PunchesShown'
        /\ \A k \in Key : day'[k] = day[k] \/ day'[k] = OnLeave
        /\ l.status = "approved" =>
              \A k \in Key : k[1] = l.employee /\ k[2] \in DaysOf(l) => day'[k] = OnLeave
    <3>1. CASE type \in Direct
      BY <2>4, <2>5, <3>1, WrittenShown
    <3>2. CASE type \notin Direct
      BY <2>3, <2>4, <2>5, <3>2 DEF PunchesShown, PunchRows, ShowsPunches
    <3> QED
      BY <3>1, <3>2
  <2>7. LeavesApart'
    <3> PICK lw : lw = leave'
      OBVIOUS
    <3>1. lw[q] = l /\ \A x \in Leave \ {q} : lw[x] = leave[x]
      BY <2>2 DEF LeavesHeld, LeavesAreRows
    <3>2. \A x \in Leave \ {q} : Living(lw[x]) /\ lw[x].employee = l.employee =>
            lw[x].from > l.to \/ lw[x].to < l.from
      BY <2>3, <2>4, <3>1
    <3>3. \A x \in Leave : Living(lw[x]) => lw[x].from \in Int /\ lw[x].to \in Int
      <4>1. \A x \in Leave : lw[x] # Null => lw[x] \in LeaveRow
        BY <1>0 DEF LeavesHeld, LeavesAreRows
      <4>2. Day \subseteq Int
        BY DaysAreNumbers
      <4> QED
        BY <4>1, <4>2 DEF Living, LeaveRow
    <3>4. ASSUME NEW x \in Leave, NEW y \in Leave, x # y, Living(lw[x]), Living(lw[y]),
                 lw[x].employee = lw[y].employee
          PROVE  lw[x].from > lw[y].to \/ lw[x].to < lw[y].from
      <4>1. CASE x = q
        BY <3>1, <3>2, <3>3, <3>4, <4>1
      <4>2. CASE y = q
        BY <3>1, <3>2, <3>3, <3>4, <4>2
      <4>3. CASE x # q /\ y # q
        BY <3>1, <3>4, <4>3 DEF LeavesApart
      <4> QED
        BY <4>1, <4>2, <4>3
    <3> QED
      BY <3>4 DEF LeavesApart
  <2> QED
    BY <1>0, <2>2, <2>6, <2>7, ShownAfter
<1>2. ASSUME NEW q \in Leave, ApproveLeave(q)
      PROVE  LeaveShown'
  <2>1. PICK l : l = LeaveAs(leave[q], "approved")
    OBVIOUS
  <2>2. leave[q] \in LeaveRow /\ leave' = [leave EXCEPT ![q] = l]
    BY <1>2, <2>1, LeaveChanged
  <2>3. /\ l.employee = leave[q].employee /\ l.from = leave[q].from /\ l.to = leave[q].to
        /\ DaysOf(l) = DaysOf(leave[q])
    BY <2>1, <2>2, StatusChanged
  <2>4. owner' = owner /\ day' = WriteDays(leave[q]) /\ Living(leave[q])
    BY <1>2 DEF ApproveLeave, Living
  <2>5. LeavesApart'
    BY <2>2, <2>3, <2>4, ApartStill
  <2>6. /\ PunchesShown'
        /\ \A k \in Key : /\ k[1] = l.employee /\ k[2] \in DaysOf(l) => day'[k] = OnLeave
                          /\ day'[k] = day[k] \/ day'[k] = OnLeave
    BY <2>3, <2>4, WrittenShown
  <2> QED
    BY <1>0, <2>2, <2>5, <2>6, ShownAfter
<1>3. ASSUME NEW q \in Leave, RejectLeave(q)
      PROVE  LeaveShown'
  <2>1. PICK l : l = LeaveAs(leave[q], "rejected")
    OBVIOUS
  <2>2. leave[q] \in LeaveRow /\ leave' = [leave EXCEPT ![q] = l]
    BY <1>3, <2>1, LeaveChanged
  <2>3. /\ l.employee = leave[q].employee /\ l.from = leave[q].from /\ l.to = leave[q].to
        /\ l.status = "rejected"
    BY <2>1, <2>2, StatusChanged
  <2>4. owner' = owner /\ day' = day
    BY <1>3 DEF RejectLeave
  <2>5. LeavesApart'
    BY <2>2, <2>3, ApartStill DEF Living
  <2>6. PunchesShown'
    BY <2>4 DEF PunchesShown, PunchRows, ShowsPunches
  <2> QED
    BY <1>0, <2>2, <2>3, <2>4, <2>5, <2>6, ShownAfter
<1>4. ASSUME NEW q \in Leave, CancelLeave(q)
      PROVE  LeaveShown'
  <2>1. PICK l : l = LeaveAs(leave[q], "cancelled")
    OBVIOUS
  <2>2. leave[q] \in LeaveRow /\ leave' = [leave EXCEPT ![q] = l]
    BY <1>4, <2>1, LeaveChanged
  <2>3. /\ l.employee = leave[q].employee /\ l.from = leave[q].from /\ l.to = leave[q].to
        /\ l.status = "cancelled"
    BY <2>1, <2>2, StatusChanged
  <2>4. leave'[q] = l /\ leave[q] # l
    BY <1>4, <2>2, <2>3 DEF CancelLeave, LeavesHeld, LeavesAreRows
  <2>5. Living(leave[q])
    BY <2>3, <2>4 DEF LivingCancelled
  <2>6. LeavesApart'
    BY <2>2, <2>3, <2>5, ApartStill
  <2>7. /\ owner' = owner
        /\ \A k \in Key : \/ day'[k] = day[k]
                          \/ /\ k[1] = leave[q].employee /\ k[2] \in leave[q].from..leave[q].to
                             /\ day'[k] = Null
    BY <1>4 DEF CancelLeave
  <2>8. PunchesShown'
    BY <2>7 DEF PunchesShown, PunchRows, ShowsPunches
  <2> QED
    BY <1>0, <2>2, <2>3, <2>5, <2>6, <2>7, <2>8, ShownAfter
<1> QED
  BY <1>1, <1>2, <1>3, <1>4 DEF Leaves
-----------------------------------------------------------------------------
(* Attendance in the worlds it is checked in. *)

(* A step in any world is a step of attendance, or leaves it alone.         *)
LEMMA WorldStep ==
  ASSUME [Next]_vars
  PROVE  /\ world' = world
         /\ Numbering \/ (\E S : IngestPunches(S)) \/ Leaves \/ ByHand \/ PayrollOfMonth
            \/ UNCHANGED attendanceVars
         /\ world \in {"punches", "leaves"} =>
               Numbering \/ (\E S : IngestPunches(S)) \/ (world = "leaves" /\ Leaves)
               \/ UNCHANGED attendanceVars
         /\ world = "leaves" => LivingCancelled \/ UNCHANGED attendanceVars
<1>1. CASE UNCHANGED vars
  BY <1>1 DEF vars
<1>2. CASE Next /\ ~ OnAttendance
  BY <1>2 DEF Next
<1>3. CASE Next /\ OnAttendance /\ world = "punches"
  BY <1>3 DEF Next, OnAttendance
<1>4. CASE Next /\ OnAttendance /\ world = "leaves"
  BY <1>4 DEF Next, OnAttendance, Upload, LivingCancelled
<1>5. CASE Next /\ OnAttendance /\ world \notin {"punches", "leaves"}
  BY <1>5 DEF Next, OnAttendance, Upload
<1> QED
  BY <1>1, <1>2, <1>3, <1>4, <1>5

LEMMA RowsStep ==
  ASSUME RowsAreRows, [Next]_vars
  PROVE  DaysHeld
BY WorldStep, IngestHolds, NumberingHolds, LeavesHold, ByHandHolds, PayrollHolds, SameDaysHold
   DEF attendanceVars

(* The same of every world: what payroll has counted stays.                 *)
THEOREM LockedDaysStayInWorlds == Spec => LockedStep
<1>1. Init => RowsAreRows
  BY RowsAtFirst DEF Init
<1>2. RowsAreRows /\ [Next]_vars => RowsAreRows' /\ LockedDayStays
  BY RowsStep DEF DaysHeld
<1> QED
  BY <1>1, <1>2, PTL DEF Spec, LockedStep

DaysInv ==
    /\ LeavesHeld
    /\ world \in {"punches", "leaves"} => PunchesShown
    /\ world = "leaves" => LeaveShown

LEMMA DaysAtFirst ==
  ASSUME AttendanceInit
  PROVE  DaysInv
<1>1. LeavesHeld
  BY LeavesAtFirst
<1>2. PunchesShown
  BY DEF AttendanceInit, PunchesShown, PunchRows, ShowsPunches
<1>3. LeavesApart /\ LeaveIsShown
  BY DEF AttendanceInit, LeavesApart, LeaveIsShown, Living
<1> QED
  BY <1>1, <1>2, <1>3 DEF DaysInv, LeaveShown

LEMMA DaysUnchanged ==
  ASSUME DaysInv, UNCHANGED attendanceVars, world' = world
  PROVE  DaysInv'
<1>1. LeavesHeld'
  BY SameLeavesHold DEF attendanceVars, DaysInv
<1>2. PunchesShown => PunchesShown'
  BY DEF attendanceVars, PunchesShown, PunchRows, ShowsPunches
<1>3. LeavesApart /\ LeaveIsShown => LeavesApart' /\ LeaveIsShown'
  BY DEF attendanceVars, LeavesApart, LeaveIsShown
<1> QED
  BY <1>1, <1>2, <1>3 DEF DaysInv, LeaveShown

LEMMA DaysStep ==
  ASSUME DaysInv, [Next]_vars
  PROVE  DaysInv'
<1>1. CASE UNCHANGED attendanceVars
  BY <1>1, WorldStep, DaysUnchanged
<1>2. LeavesHeld'
  <2>1. Leaves \/ leave' = leave
    BY WorldStep DEF attendanceVars, IngestPunches, Numbering, SetNumber, Reprocess, ByHand,
       RecordDay, DeleteDay, ImportSheet, PayrollOfMonth, PostRun, ReverseRun
  <2> QED
    BY <2>1, QuotaHolds, SameLeavesHold DEF DaysInv
<1>3. CASE world = "leaves" /\ ~ UNCHANGED attendanceVars
  <2>1. LeaveShown'
    BY <1>3, WorldStep, LeaveRowsStay, LeaveStepShown DEF DaysInv
  <2> QED
    BY <1>2, <1>3, <2>1, WorldStep DEF DaysInv, LeaveShown
<1>4. CASE world = "punches" /\ ~ UNCHANGED attendanceVars
  <2>1. PunchesShown'
    BY <1>4, WorldStep, PunchStepShown DEF DaysInv
  <2> QED
    BY <1>2, <1>4, <2>1, WorldStep DEF DaysInv
<1>5. CASE world \notin {"punches", "leaves"}
  BY <1>2, <1>5, WorldStep DEF DaysInv
<1> QED
  BY <1>1, <1>3, <1>4, <1>5

(* Nobody is given more days of leave than there are; where rows come of    *)
(* punches and leaves only, a row made of punches shows those of its        *)
(* employee and day, under whatever numbers they came in; and the days of   *)
(* an approved leave are days of leave (leave_service.py: approve,          *)
(* _write_days, cancel; attendance_device_service.py: rebuild_day,          *)
(* reprocess, claim_for_employee).                                          *)
THEOREM DaysHaveOneStory == Spec => []DaysAddUp
<1>1. Init => DaysInv
  BY DaysAtFirst DEF Init
<1>2. DaysInv /\ [Next]_vars => DaysInv'
  BY DaysStep
<1>3. DaysInv => DaysAddUp
  BY DEF DaysInv, LeavesHeld, PunchesShown, LeaveShown, DaysAddUp
<1> QED
  BY <1>1, <1>2, <1>3, PTL DEF Spec
-----------------------------------------------------------------------------
(* Sales: the tables a request leaves behind. *)

PieceRow == [sold : BOOLEAN, loc : Loc \cup {Null}, inv : Invoice \cup {Null}]
Tables ==
    [moved : [Doc -> [Loc -> Int]], piece : [Piece -> PieceRow],
     log : SUBSET [piece : Piece, doc : Doc],
     lots : [Loc -> [Expiry -> Int]], lotLog : [Doc -> [Loc -> [Expiry -> Int]]]]

LEMMA TablesParts ==
  ASSUME NEW s
  PROVE  /\ s \in Tables <=>
              /\ s = [moved |-> s.moved, piece |-> s.piece, log |-> s.log,
                      lots |-> s.lots, lotLog |-> s.lotLog]
              /\ s.moved \in [Doc -> [Loc -> Int]] /\ s.piece \in [Piece -> PieceRow]
              /\ s.log \in SUBSET [piece : Piece, doc : Doc]
              /\ s.lots \in [Loc -> [Expiry -> Int]]
              /\ s.lotLog \in [Doc -> [Loc -> [Expiry -> Int]]]
BY DEF Tables

(* A table set anew.                                                        *)
Moving(s, d, l, n) == [s EXCEPT !.moved[d][l] = n]
Putting(s, piece, log) == [[s EXCEPT !.piece = piece] EXCEPT !.log = log]
InLotsOf(s, lots, lotLog) == [[s EXCEPT !.lots = lots] EXCEPT !.lotLog = lotLog]

LEMMA MovingTables ==
  ASSUME NEW s \in Tables, NEW d \in Doc, NEW l \in Loc, NEW n \in Int
  PROVE  /\ Moving(s, d, l, n) \in Tables
         /\ Moving(s, d, l, n).moved[d][l] = n
         /\ \A x \in Doc, y \in Loc : x # d \/ y # l =>
               Moving(s, d, l, n).moved[x][y] = s.moved[x][y]
         /\ Moving(s, d, l, n).piece = s.piece /\ Moving(s, d, l, n).log = s.log
         /\ Moving(s, d, l, n).lots = s.lots /\ Moving(s, d, l, n).lotLog = s.lotLog
<1> DEFINE u == Moving(s, d, l, n)
<1>0. s = [moved |-> s.moved, piece |-> s.piece, log |-> s.log, lots |-> s.lots,
           lotLog |-> s.lotLog]
  BY TablesParts
<1>1. /\ u = [moved |-> [s.moved EXCEPT ![d][l] = n], piece |-> s.piece, log |-> s.log,
              lots |-> s.lots, lotLog |-> s.lotLog]
  BY ONLY <1>0 DEF Moving
<1>2. /\ u.moved = [s.moved EXCEPT ![d][l] = n] /\ u.piece = s.piece /\ u.log = s.log
      /\ u.lots = s.lots /\ u.lotLog = s.lotLog
      /\ u = [moved |-> u.moved, piece |-> u.piece, log |-> u.log, lots |-> u.lots,
              lotLog |-> u.lotLog]
  BY <1>1
<1> HIDE DEF u
<1>3. s.moved \in [Doc -> [Loc -> Int]]
  BY TablesParts
<1>4. u.moved \in [Doc -> [Loc -> Int]]
  BY <1>2, <1>3
<1>5. u \in Tables
  BY <1>2, <1>4, TablesParts
<1>6. /\ u.moved[d][l] = n
      /\ \A x \in Doc, y \in Loc : x # d \/ y # l => u.moved[x][y] = s.moved[x][y]
  BY <1>2, <1>3
<1> QED
  BY <1>2, <1>5, <1>6 DEF u

LEMMA PuttingTables ==
  ASSUME NEW s \in Tables, NEW piece \in [Piece -> PieceRow],
         NEW log \in SUBSET [piece : Piece, doc : Doc]
  PROVE  /\ Putting(s, piece, log) \in Tables
         /\ Putting(s, piece, log).moved = s.moved
         /\ Putting(s, piece, log).piece = piece /\ Putting(s, piece, log).log = log
         /\ Putting(s, piece, log).lots = s.lots /\ Putting(s, piece, log).lotLog = s.lotLog
<1> DEFINE u == Putting(s, piece, log)
<1>0. s = [moved |-> s.moved, piece |-> s.piece, log |-> s.log, lots |-> s.lots,
           lotLog |-> s.lotLog]
  BY TablesParts
<1>1. u = [moved |-> s.moved, piece |-> piece, log |-> log, lots |-> s.lots,
           lotLog |-> s.lotLog]
  <2> PICK v : v = [s EXCEPT !.piece = piece]
    OBVIOUS
  <2>1. v = [moved |-> s.moved, piece |-> piece, log |-> s.log, lots |-> s.lots,
             lotLog |-> s.lotLog]
    BY ONLY <1>0, v = [s EXCEPT !.piece = piece]
  <2>2. [v EXCEPT !.log = log]
          = [moved |-> s.moved, piece |-> piece, log |-> log, lots |-> s.lots,
             lotLog |-> s.lotLog]
    BY ONLY <2>1
  <2>3. Putting(s, piece, log) = [v EXCEPT !.log = log]
    BY DEF Putting
  <2> QED
    BY <2>2, <2>3
<1>2. /\ u.moved = s.moved /\ u.piece = piece /\ u.log = log
      /\ u.lots = s.lots /\ u.lotLog = s.lotLog
      /\ u = [moved |-> u.moved, piece |-> u.piece, log |-> u.log, lots |-> u.lots,
              lotLog |-> u.lotLog]
  BY <1>1
<1> HIDE DEF u
<1>3. u \in Tables
  BY <1>2, TablesParts
<1> QED
  BY <1>2, <1>3 DEF u

LEMMA InLotsTables ==
  ASSUME NEW s \in Tables, NEW lots \in [Loc -> [Expiry -> Int]],
         NEW lotLog \in [Doc -> [Loc -> [Expiry -> Int]]]
  PROVE  /\ InLotsOf(s, lots, lotLog) \in Tables
         /\ InLotsOf(s, lots, lotLog).moved = s.moved
         /\ InLotsOf(s, lots, lotLog).piece = s.piece /\ InLotsOf(s, lots, lotLog).log = s.log
<1> DEFINE u == InLotsOf(s, lots, lotLog)
<1>0. s = [moved |-> s.moved, piece |-> s.piece, log |-> s.log, lots |-> s.lots,
           lotLog |-> s.lotLog]
  BY TablesParts
<1>1. u = [moved |-> s.moved, piece |-> s.piece, log |-> s.log, lots |-> lots,
           lotLog |-> lotLog]
  <2> PICK v : v = [s EXCEPT !.lots = lots]
    OBVIOUS
  <2>1. v = [moved |-> s.moved, piece |-> s.piece, log |-> s.log, lots |-> lots,
             lotLog |-> s.lotLog]
    BY ONLY <1>0, v = [s EXCEPT !.lots = lots]
  <2>2. [v EXCEPT !.lotLog = lotLog]
          = [moved |-> s.moved, piece |-> s.piece, log |-> s.log, lots |-> lots,
             lotLog |-> lotLog]
    BY ONLY <2>1
  <2>3. InLotsOf(s, lots, lotLog) = [v EXCEPT !.lotLog = lotLog]
    BY DEF InLotsOf
  <2> QED
    BY <2>2, <2>3
<1>2. /\ u.moved = s.moved /\ u.piece = s.piece /\ u.log = s.log
      /\ u.lots = lots /\ u.lotLog = lotLog
      /\ u = [moved |-> u.moved, piece |-> u.piece, log |-> u.log, lots |-> u.lots,
              lotLog |-> u.lotLog]
  BY <1>1
<1> HIDE DEF u
<1>3. u \in Tables
  BY <1>2, TablesParts
<1> QED
  BY <1>2, <1>3 DEF u
LEMMA TablesFields ==
  ASSUME NEW s \in Tables
  PROVE  /\ s.moved \in [Doc -> [Loc -> Int]] /\ s.piece \in [Piece -> PieceRow]
         /\ s.log \in SUBSET [piece : Piece, doc : Doc]
         /\ s.lots \in [Loc -> [Expiry -> Int]]
         /\ s.lotLog \in [Doc -> [Loc -> [Expiry -> Int]]]
         /\ \A l \in Loc : s.lots[l] \in [Expiry -> Int]
         /\ \A d \in Doc, l \in Loc : s.lotLog[d][l] \in [Expiry -> Int]
BY DEF Tables

LEMMA MaxOfTwo ==
  ASSUME NEW a \in Int, NEW b \in Int
  PROVE  Max({a, b}) \in {a, b} /\ Min({a, b}) \in {a, b}
<1>1. \E x \in {a, b} : \A y \in {a, b} : x >= y
  OBVIOUS
<1>2. \E x \in {a, b} : \A y \in {a, b} : x =< y
  OBVIOUS
<1> QED
  BY <1>1, <1>2 DEF Max, Min

(* What a lot gives is a whole number.                                      *)
LEMMA FefoIsInt ==
  ASSUME NEW s \in Tables, NEW l \in Loc, NEW n \in Int
  PROVE  \A e \in Expiry : Fefo(s, l, n)[e] \in Int
<1>1. ASSUME NEW e \in Expiry PROVE Have(s, l, e) \in Int
  <2>1. s.lots[l][e] \in Int
    BY TablesFields
  <2>2. Max({0, s.lots[l][e]}) \in {0, s.lots[l][e]}
    BY <2>1, MaxOfTwo
  <2> QED
    BY <2>1, <2>2 DEF Have
<1>2. ASSUME NEW e \in Expiry PROVE Fefo(s, l, n)[e] \in Int
  <2> DEFINE f == [x \in Expiry |-> Have(s, l, x)]
             S == {x \in Expiry : x < e}
  <2>1. IsFiniteSet(S) /\ \A x \in S : f[x] \in Int
    BY <1>1, ExpiryAssumption, FS_Subset
  <2> PICK m : m = SumFunctionOnSet(f, S)
    OBVIOUS
  <2>2. m \in Int
    BY <2>1, SumInt
  <2> PICK h : h = Have(s, l, e)
    OBVIOUS
  <2>3. Min({h, n - m}) \in Int
    <3>1. h \in Int /\ n - m \in Int
      BY <1>1, <2>2
    <3> QED
      BY <3>1, MaxOfTwo
  <2>4. Max({0, Min({h, n - m})}) \in Int
    BY <2>3, MaxOfTwo
  <2>5. Fefo(s, l, n)[e] = Max({0, Min({h, n - m})})
    BY DEF Fefo
  <2> QED
    BY <2>4, <2>5
<1> QED
  BY <1>2

SoldPieces(s, i, Q) ==
    [p \in Piece |-> IF p \in Q THEN [sold |-> TRUE, loc |-> Null, inv |-> i] ELSE s.piece[p]]
Logged(d, Q) == {[piece |-> p, doc |-> d] : p \in Q}

LEMMA SoldTables ==
  ASSUME NEW s \in Tables, NEW i \in Invoice, NEW l \in Loc, NEW S \in SUBSET Piece,
         NEW u, u = Sold(s, i, l, S)
  PROVE  /\ u \in Tables
         /\ u.moved[i][l] = s.moved[i][l] - Cardinality(S)
         /\ \A x \in Doc, y \in Loc : x # i \/ y # l => u.moved[x][y] = s.moved[x][y]
         /\ \/ u.piece = s.piece /\ u.log = s.log
            \/ u.piece = SoldPieces(s, i, S) /\ u.log = s.log \cup Logged(i, S)
<1> DEFINE n == Cardinality(S)
           t == Moving(s, i, l, s.moved[i][l] - n)
<1>0. n \in Nat /\ i \in Doc
  BY PieceAssumption, FS_Subset, FS_CardinalityType DEF Doc
<1>1. s.moved[i][l] - n \in Int
  BY <1>0, TablesFields
<1>2. /\ t \in Tables /\ t.piece = s.piece /\ t.log = s.log /\ t.lots = s.lots
      /\ t.lotLog = s.lotLog
      /\ t.moved[i][l] = s.moved[i][l] - n
      /\ \A x \in Doc, y \in Loc : x # i \/ y # l => t.moved[x][y] = s.moved[x][y]
  BY SMTT(30), <1>0, <1>1, MovingTables
<1>3. t = [s EXCEPT !.moved[i][l] = @ - n]
  BY DEF Moving
<1> HIDE DEF t
<1>4. CASE tracking = "serials"
  <2> DEFINE piece == SoldPieces(s, i, S)
             log == s.log \cup Logged(i, S)
  <2>1. u = Putting(t, piece, log)
    BY <1>2, <1>3, <1>4 DEF Sold, Putting, SoldPieces, Logged
  <2>2. piece \in [Piece -> PieceRow] /\ log \in SUBSET [piece : Piece, doc : Doc]
    BY <1>0, TablesFields DEF SoldPieces, Logged, PieceRow
  <2> HIDE DEF piece, log
  <2>3. u \in Tables /\ u.moved = t.moved /\ u.piece = piece /\ u.log = log
    BY <1>2, <2>1, <2>2, PuttingTables
  <2> QED
    BY <1>2, <2>3 DEF piece, log
<1>5. CASE tracking # "serials"
  <2> DEFINE f == Fefo(s, l, n)
             lots == [s.lots EXCEPT ![l] = [e \in Expiry |-> s.lots[l][e] - f[e]]]
             lotLog == [s.lotLog EXCEPT ![i][l] = [e \in Expiry |-> s.lotLog[i][l][e] + f[e]]]
  <2>1. u = InLotsOf(t, lots, lotLog)
    BY <1>2, <1>3, <1>5 DEF Sold, InLotsOf
  <2>2. \A e \in Expiry : f[e] \in Int
    BY <1>0, FefoIsInt
  <2> HIDE DEF f
  <2>3. lots \in [Loc -> [Expiry -> Int]] /\ lotLog \in [Doc -> [Loc -> [Expiry -> Int]]]
    BY <1>0, <2>2, TablesFields
  <2> HIDE DEF lots, lotLog
  <2>4. u \in Tables /\ u.moved = t.moved /\ u.piece = t.piece /\ u.log = t.log
    BY <1>2, <2>1, <2>3, InLotsTables
  <2> QED
    BY <1>2, <2>4
<1> QED
  BY <1>4, <1>5
LEMMA LotsRestoredTables ==
  ASSUME NEW s \in Tables, NEW d \in Doc, NEW u, u = LotsRestored(s, d)
  PROVE  u \in Tables /\ u.moved = s.moved /\ u.piece = s.piece /\ u.log = s.log
<1> DEFINE lots == [l \in Loc |-> [e \in Expiry |-> s.lots[l][e] + s.lotLog[d][l][e]]]
           lotLog == [s.lotLog EXCEPT ![d] = NoLots]
<1>1. u = InLotsOf(s, lots, lotLog)
  <2>1. [s EXCEPT !.lots = lots].lotLog = s.lotLog
    BY DEF Tables
  <2> QED
    BY <2>1 DEF LotsRestored, InLotsOf
<1>2. lots \in [Loc -> [Expiry -> Int]] /\ lotLog \in [Doc -> [Loc -> [Expiry -> Int]]]
  BY TablesFields DEF NoLots
<1> HIDE DEF lots, lotLog
<1> QED
  BY <1>1, <1>2, InLotsTables

WithMoved(s, moved) == [s EXCEPT !.moved = moved]

LEMMA WithMovedTables ==
  ASSUME NEW s \in Tables, NEW moved \in [Doc -> [Loc -> Int]], NEW u, u = WithMoved(s, moved)
  PROVE  u \in Tables /\ u.moved = moved /\ u.piece = s.piece /\ u.log = s.log
<1>0. s = [moved |-> s.moved, piece |-> s.piece, log |-> s.log, lots |-> s.lots,
           lotLog |-> s.lotLog]
  BY TablesParts
<1>1. u = [moved |-> moved, piece |-> s.piece, log |-> s.log, lots |-> s.lots,
           lotLog |-> s.lotLog]
  BY ONLY <1>0, u = WithMoved(s, moved) DEF WithMoved
<1> QED
  BY <1>1, TablesParts

LEMMA StockDroppedTables ==
  ASSUME NEW s \in Tables, NEW d \in Doc, NEW u, u = StockDropped(s, d)
  PROVE  /\ u \in Tables /\ u.piece = s.piece /\ u.log = s.log
         /\ \A l \in Loc : u.moved[d][l] = 0
         /\ \A x \in Doc \ {d}, l \in Loc : u.moved[x][l] = s.moved[x][l]
<1> DEFINE moved == [s.moved EXCEPT ![d] = [l \in Loc |-> 0]]
<1>1. u = WithMoved(s, moved)
  BY DEF StockDropped, WithMoved
<1>2. /\ moved \in [Doc -> [Loc -> Int]]
      /\ \A l \in Loc : moved[d][l] = 0
      /\ \A x \in Doc \ {d}, l \in Loc : moved[x][l] = s.moved[x][l]
  BY TablesFields
<1> HIDE DEF moved
<1> QED
  BY <1>1, <1>2, WithMovedTables

LEMMA PurgeReturnsTables ==
  ASSUME NEW s \in Tables, NEW T \in SUBSET Return, NEW u, u = PurgeReturns(s, T)
  PROVE  /\ u \in Tables /\ u.piece = s.piece /\ u.log = s.log
         /\ \A x \in Doc, l \in Loc :
               u.moved[x][l] = IF x \in T THEN 0 ELSE s.moved[x][l]
<1> DEFINE moved == [d \in Doc |-> IF d \in T THEN [l \in Loc |-> 0] ELSE s.moved[d]]
<1>1. u = WithMoved(s, moved)
  BY DEF PurgeReturns, WithMoved
<1>2. /\ moved \in [Doc -> [Loc -> Int]]
      /\ \A x \in Doc, l \in Loc : moved[x][l] = IF x \in T THEN 0 ELSE s.moved[x][l]
  BY TablesFields
<1> HIDE DEF moved
<1> QED
  BY <1>1, <1>2, WithMovedTables

(* Pieces of the log of a document, and a log without it.                   *)
LEMMA SerialsRestoredTables ==
  ASSUME NEW s \in Tables, NEW i \in Invoice, NEW u, u = SerialsRestored(s, i)
  PROVE  /\ u \in Tables /\ u.moved = s.moved
         /\ u.log = {m \in s.log : m.doc # i}
         /\ \A p \in Piece : IF s.piece[p].inv = i THEN u.piece[p].inv = Null
                                                   ELSE u.piece[p] = s.piece[p]
<1> DEFINE row(p) == [s.piece[p] EXCEPT !.sold = FALSE, !.inv = Null]
           piece == [p \in Piece |-> IF s.piece[p].inv = i THEN row(p) ELSE s.piece[p]]
           log == {m \in s.log : m.doc # i}
<1>1. u = Putting(s, piece, log)
  <2>1. [s EXCEPT !.piece = piece].log = s.log
    BY DEF Tables
  <2> QED
    BY <2>1 DEF SerialsRestored, Putting
<1>2. ASSUME NEW p \in Piece PROVE row(p) \in PieceRow /\ row(p).inv = Null
  <2>1. s.piece[p] \in PieceRow
    BY TablesFields
  <2> QED
    BY <2>1 DEF PieceRow
<1> HIDE DEF row
<1>3. piece \in [Piece -> PieceRow] /\ log \in SUBSET [piece : Piece, doc : Doc]
  BY <1>2, TablesFields
<1>4. \A p \in Piece : IF s.piece[p].inv = i THEN piece[p].inv = Null
                                             ELSE piece[p] = s.piece[p]
  BY <1>2
<1> HIDE DEF piece
<1> QED
  BY <1>1, <1>3, <1>4, PuttingTables

LEMMA PurgeSaleTables ==
  ASSUME NEW s \in Tables, NEW i \in Invoice, NEW u, u = PurgeSale(s, i)
  PROVE  /\ u \in Tables
         /\ u.log = {m \in s.log : m.doc # i}
         /\ \A p \in Piece : IF s.piece[p].inv = i THEN u.piece[p].inv = Null
                                                   ELSE u.piece[p] = s.piece[p]
         /\ \A l \in Loc : u.moved[i][l] = 0
         /\ \A x \in Doc \ {i}, l \in Loc : u.moved[x][l] = s.moved[x][l]
<1> PICK v : v = SerialsRestored(s, i)
  OBVIOUS
<1> PICK w : w = LotsRestored(v, i)
  OBVIOUS
<1>0. i \in Doc /\ u = StockDropped(w, i)
  BY DEF PurgeSale, Doc
<1>1. /\ v \in Tables /\ v.moved = s.moved /\ v.log = {m \in s.log : m.doc # i}
      /\ \A p \in Piece : IF s.piece[p].inv = i THEN v.piece[p].inv = Null
                                                ELSE v.piece[p] = s.piece[p]
  BY SerialsRestoredTables
<1>2. w \in Tables /\ w.moved = v.moved /\ w.piece = v.piece /\ w.log = v.log
  BY <1>0, <1>1, LotsRestoredTables
<1>3. /\ u \in Tables /\ u.piece = w.piece /\ u.log = w.log
      /\ \A l \in Loc : u.moved[i][l] = 0
      /\ \A x \in Doc \ {i}, l \in Loc : u.moved[x][l] = w.moved[x][l]
  BY <1>0, <1>2, StockDroppedTables
<1> QED
  BY <1>1, <1>2, <1>3

(* A return that nothing is logged under, and one of no invoice, sell       *)
(* nothing on an invoice when they are purged.                              *)
LEMMA PurgeReturnTables ==
  ASSUME NEW s \in Tables, NEW t \in Return, NEW u, u = PurgeReturn(s, t),
         return[t].inv \in Invoice \cup {Null},
         \A m \in s.log : m.doc = t => return[t].inv = Null
  PROVE  /\ u \in Tables
         /\ u.log = {m \in s.log : m.doc # t}
         /\ \A p \in Piece : u.piece[p] = s.piece[p] \/ u.piece[p].inv = Null
         /\ \A l \in Loc : u.moved[t][l] = 0
         /\ \A x \in Doc \ {t}, l \in Loc : u.moved[x][l] = s.moved[x][l]
<1> PICK v : v = SerialsResold(s, t)
  OBVIOUS
<1> PICK w : w = LotsRestored(v, t)
  OBVIOUS
<1>0. t \in Doc /\ u = StockDropped(w, t)
  BY DEF PurgeReturn, Doc
<1>1. /\ v \in Tables /\ v.moved = s.moved /\ v.log = {m \in s.log : m.doc # t}
      /\ \A p \in Piece : v.piece[p] = s.piece[p] \/ v.piece[p].inv = Null
  <2> PICK i \in Invoice \cup {Null} : i = return[t].inv
    OBVIOUS
  <2> DEFINE row(p) == [s.piece[p] EXCEPT !.sold = TRUE, !.inv = i]
             piece == [p \in Piece |-> IF [piece |-> p, doc |-> t] \in s.log THEN row(p)
                                                                             ELSE s.piece[p]]
             log == {m \in s.log : m.doc # t}
  <2>1. v = Putting(s, piece, log)
    <3>1. [s EXCEPT !.piece = piece].log = s.log
      BY DEF Tables
    <3> QED
      BY <3>1 DEF SerialsResold, Putting
  <2>2. ASSUME NEW p \in Piece PROVE row(p) \in PieceRow /\ row(p).inv = i
    <3>1. s.piece[p] \in PieceRow
      BY TablesFields
    <3> QED
      BY <3>1 DEF PieceRow
  <2> HIDE DEF row
  <2>3. piece \in [Piece -> PieceRow] /\ log \in SUBSET [piece : Piece, doc : Doc]
    BY <2>2, TablesFields
  <2>4. ASSUME NEW p \in Piece PROVE piece[p] = s.piece[p] \/ piece[p].inv = Null
    BY <2>2
  <2> HIDE DEF piece
  <2> QED
    BY <2>1, <2>3, <2>4, PuttingTables
<1>2. w \in Tables /\ w.moved = v.moved /\ w.piece = v.piece /\ w.log = v.log
  BY <1>0, <1>1, LotsRestoredTables
<1>3. /\ u \in Tables /\ u.piece = w.piece /\ u.log = w.log
      /\ \A l \in Loc : u.moved[t][l] = 0
      /\ \A x \in Doc \ {t}, l \in Loc : u.moved[x][l] = w.moved[x][l]
  BY <1>0, <1>2, StockDroppedTables
<1> QED
  BY <1>1, <1>2, <1>3

LEMMA RestoredTables ==
  ASSUME NEW s \in Tables, NEW t \in Return, NEW l \in Loc, NEW S \in SUBSET Piece,
         NEW u, u = Restored(s, t, l, S)
  PROVE  /\ u \in Tables
         /\ u.moved[t][l] = s.moved[t][l] + Cardinality(S)
         /\ \A x \in Doc, y \in Loc : x # t \/ y # l => u.moved[x][y] = s.moved[x][y]
         /\ \A p \in Piece : u.piece[p] = s.piece[p] \/ u.piece[p].inv = Null
         /\ u.log \subseteq s.log \cup Logged(t, S)
<1> DEFINE n == Cardinality(S)
           v == Moving(s, t, l, s.moved[t][l] + n)
<1>0. n \in Nat /\ t \in Doc
  BY PieceAssumption, FS_Subset, FS_CardinalityType DEF Doc
<1>1. s.moved[t][l] + n \in Int
  BY <1>0, TablesFields
<1>2. /\ v \in Tables /\ v.piece = s.piece /\ v.log = s.log
      /\ v.moved[t][l] = s.moved[t][l] + n
      /\ \A x \in Doc, y \in Loc : x # t \/ y # l => v.moved[x][y] = s.moved[x][y]
  <2> PICK m : m = s.moved[t][l] + n
    OBVIOUS
  <2>1. v = Moving(s, t, l, m)
    BY <1>0 DEF Moving
  <2>2. s \in Tables /\ t \in Doc /\ l \in Loc /\ m \in Int /\ m = s.moved[t][l] + n
    BY <1>0, <1>1
  <2> QED
    BY ONLY <2>1, <2>2, MovingTables
<1>3. v = [s EXCEPT !.moved[t][l] = @ + n]
  BY DEF Moving
<1> HIDE DEF v
<1>4. CASE tracking = "lots"
  <2>1. u = v
    BY <1>3, <1>4 DEF Restored
  <2> QED
    BY <1>2, <2>1
<1>5. CASE tracking # "lots"
  <2> DEFINE row == [sold |-> FALSE, loc |-> l, inv |-> Null]
             piece == [p \in Piece |-> IF p \in S THEN row ELSE s.piece[p]]
             log == s.log \cup Logged(t, S)
  <2>1. u = Putting(v, piece, log)
    <3>1. [v EXCEPT !.piece = piece].log = v.log
      BY <1>2 DEF Tables
    <3> QED
      BY <1>2, <1>3, <1>5, <3>1 DEF Restored, Putting, Logged
  <2>2. row \in PieceRow /\ row.inv = Null
    BY DEF PieceRow
  <2> HIDE DEF row
  <2>3. piece \in [Piece -> PieceRow] /\ log \in SUBSET [piece : Piece, doc : Doc]
    BY <1>0, <2>2, TablesFields DEF Logged
  <2>4. \A p \in Piece : piece[p] = s.piece[p] \/ piece[p].inv = Null
    BY <2>2
  <2> HIDE DEF piece, log
  <2>5. u \in Tables /\ u.moved = v.moved /\ u.piece = piece /\ u.log = log
    BY <1>2, <2>1, <2>3, PuttingTables
  <2> QED
    BY <1>2, <2>4, <2>5 DEF log
<1> QED
  BY <1>4, <1>5
-----------------------------------------------------------------------------
(* The invariant of sales. *)

SalesShapes ==
    /\ invoice \in [Invoice -> InvoiceRow \cup {Null}]
    /\ return \in [Return -> ReturnRow \cup {Null}]
    /\ asked \in [Asker -> AskedReturn \cup {Null}]
    /\ rows \in Tables
    /\ \A i \in Invoice : invoice[i] # Null => i \in issued
    /\ \A t \in Return : return[t] # Null => t \in issued

(* Pieces are logged under a return only when it names no invoice.          *)
LogOfReturns ==
    \A m \in rows.log : m.doc \in Return => return[m.doc] # Null /\ return[m.doc].inv = Null

SalesInv == SalesShapes /\ LogOfReturns /\ MovedAsDocumented /\ SoldOnLiveInvoice

InvoiceMoved(i, row, moved) ==
    \A l \in Loc : moved[i][l] = IF row # Null /\ row.loc = l THEN - row.qty ELSE 0
ReturnMoved(t, row, moved) ==
    \A l \in Loc : moved[t][l] = IF row # Null /\ row.loc = l THEN row.qty ELSE 0

(* The invariant after a step, from what the step leaves behind.            *)
LEMMA SalesAfter ==
  ASSUME NEW inv, inv = invoice', NEW ret, ret = return', NEW u, u = rows',
         SalesShapes',
         \A m \in u.log : m.doc \in Return => ret[m.doc] # Null /\ ret[m.doc].inv = Null,
         \A i \in Invoice : InvoiceMoved(i, inv[i], u.moved),
         \A t \in Return : ReturnMoved(t, ret[t], u.moved),
         \A p \in Piece : u.piece[p].inv # Null =>
            u.piece[p].sold /\ inv[u.piece[p].inv] # Null
  PROVE  SalesInv'
<1>1. LogOfReturns'
  BY DEF LogOfReturns
<1>2. MovedAsDocumented'
  BY DEF MovedAsDocumented, InvoiceMoved, ReturnMoved
<1>3. SoldOnLiveInvoice'
  BY DEF SoldOnLiveInvoice
<1> QED
  BY <1>1, <1>2, <1>3 DEF SalesInv

LEMMA MovedBefore ==
  ASSUME SalesInv
  PROVE  /\ \A i \in Invoice : InvoiceMoved(i, invoice[i], rows.moved)
         /\ \A t \in Return : ReturnMoved(t, return[t], rows.moved)
BY DEF SalesInv, MovedAsDocumented, InvoiceMoved, ReturnMoved

(* A document that another does not touch moves what it moved.              *)
LEMMA MovedStill ==
  ASSUME NEW d, NEW row, NEW m, NEW n, \A l \in Loc : n[d][l] = m[d][l]
  PROVE  /\ InvoiceMoved(d, row, m) => InvoiceMoved(d, row, n)
         /\ ReturnMoved(d, row, m) => ReturnMoved(d, row, n)
BY DEF InvoiceMoved, ReturnMoved

LEMMA DocsApart ==
  /\ Invoice \subseteq Doc /\ Return \subseteq Doc
  /\ \A i \in Invoice, t \in Return : i # t
BY SalesDocuments DEF Doc

LEMMA PiecesCounted ==
  ASSUME NEW S \in SUBSET Piece, S # {}
  PROVE  Cardinality(S) \in Nat \ {0}
BY PieceAssumption, FS_Subset, FS_CardinalityType, FS_EmptySet

(* An invoice is written, on tables where it had moved nothing.             *)
LEMMA InvoiceWritten ==
  ASSUME SalesInv, NEW i \in Invoice, NEW l \in Loc, NEW S \in SUBSET Piece, S # {},
         NEW s \in Tables, \A y \in Loc : s.moved[i][y] = 0,
         \A x \in Doc \ {i}, y \in Loc : s.moved[x][y] = rows.moved[x][y],
         s.log \subseteq rows.log,
         \A p \in Piece : s.piece[p] = rows.piece[p] \/ s.piece[p].inv = Null,
         invoice' = [invoice EXCEPT ![i] = [loc |-> l, qty |-> Cardinality(S)]],
         rows' = Sold(s, i, l, S), i \in issued', issued \subseteq issued',
         return' = return, asked' = asked
  PROVE  SalesInv'
<1> PICK inv : inv = invoice'
  OBVIOUS
<1> PICK u : u = rows'
  OBVIOUS
<1> DEFINE row == [loc |-> l, qty |-> Cardinality(S)]
<1>0. row \in InvoiceRow /\ row # Null /\ row.loc = l /\ row.qty = Cardinality(S)
      /\ Cardinality(S) \in Nat
  BY PiecesCounted, SalesNull DEF InvoiceRow
<1> HIDE DEF row
<1>1. /\ inv[i] = row /\ \A x \in Invoice \ {i} : inv[x] = invoice[x]
      /\ inv \in [Invoice -> InvoiceRow \cup {Null}]
  BY <1>0 DEF SalesInv, SalesShapes, row
<1>2. /\ u \in Tables
      /\ u.moved[i][l] = s.moved[i][l] - Cardinality(S)
      /\ \A x \in Doc, y \in Loc : x # i \/ y # l => u.moved[x][y] = s.moved[x][y]
      /\ \/ u.piece = s.piece /\ u.log = s.log
         \/ u.piece = SoldPieces(s, i, S) /\ u.log = s.log \cup Logged(i, S)
  BY SoldTables
<1>3. SalesShapes'
  BY <1>0, <1>1, <1>2 DEF SalesInv, SalesShapes
<1>4. ASSUME NEW m \in u.log, m.doc \in Return
      PROVE  return[m.doc] # Null /\ return[m.doc].inv = Null
  <2>1. m \in rows.log
    BY <1>2, <1>4, DocsApart DEF Logged
  <2> QED
    BY <1>4, <2>1 DEF SalesInv, LogOfReturns
<1>5. ASSUME NEW x \in Invoice PROVE InvoiceMoved(x, inv[x], u.moved)
  <2>1. CASE x = i
    BY <1>0, <1>1, <1>2, <2>1, DocsApart DEF InvoiceMoved
  <2>2. CASE x # i
    BY <1>1, <1>2, <2>2, DocsApart, MovedBefore, MovedStill
  <2> QED
    BY <2>1, <2>2
<1>6. ASSUME NEW t \in Return PROVE ReturnMoved(t, return[t], u.moved)
  BY SMTT(30), <1>2, DocsApart, MovedBefore, MovedStill
<1>7. ASSUME NEW p \in Piece, u.piece[p].inv # Null
      PROVE  u.piece[p].sold /\ inv[u.piece[p].inv] # Null
  <2>1. CASE u.piece[p] = s.piece[p]
    <3>1. rows.piece[p] = s.piece[p]
      BY <1>7, <2>1
    <3>2. rows.piece[p].inv \in Invoice
      <4>1. rows.piece[p] \in PieceRow
        BY TablesFields DEF SalesInv, SalesShapes
      <4> QED
        BY <1>7, <2>1, <3>1, <4>1 DEF PieceRow
    <3>3. rows.piece[p].sold /\ invoice[rows.piece[p].inv] # Null
      BY <1>7, <2>1, <3>1 DEF SalesInv, SoldOnLiveInvoice
    <3> QED
      BY <1>0, <1>1, <2>1, <3>1, <3>2, <3>3
  <2>2. CASE u.piece[p] # s.piece[p]
    <3>1. u.piece[p] = [sold |-> TRUE, loc |-> Null, inv |-> i]
      BY <1>2, <2>2 DEF SoldPieces
    <3> QED
      BY <1>0, <1>1, <3>1
  <2> QED
    BY <2>1, <2>2
<1> PICK ret : ret = return
  OBVIOUS
<1>8. /\ inv = invoice' /\ ret = return' /\ u = rows' /\ SalesShapes'
      /\ \A m \in u.log : m.doc \in Return => ret[m.doc] # Null /\ ret[m.doc].inv = Null
      /\ \A x \in Invoice : InvoiceMoved(x, inv[x], u.moved)
      /\ \A t \in Return : ReturnMoved(t, ret[t], u.moved)
      /\ \A p \in Piece : u.piece[p].inv # Null =>
            u.piece[p].sold /\ inv[u.piece[p].inv] # Null
  BY <1>3, <1>4, <1>5, <1>6, <1>7
<1> QED
  BY ONLY <1>8, SalesAfter

LEMMA SellHolds ==
  ASSUME SalesInv, NEW i \in Invoice, NEW l \in Loc, NEW S \in SUBSET Piece, Sell(i, l, S)
  PROVE  SalesInv'
<1>1. invoice[i] = Null
  BY DEF Sell, SalesInv, SalesShapes
<1>2. \A y \in Loc : rows.moved[i][y] = 0
  BY <1>1, MovedBefore DEF InvoiceMoved
<1>3. rows \in Tables /\ S # {}
  BY DEF SalesInv, SalesShapes, Sell, Sellable
<1>4. /\ invoice' = [invoice EXCEPT ![i] = [loc |-> l, qty |-> Cardinality(S)]]
      /\ rows' = Sold(rows, i, l, S) /\ i \in issued' /\ issued \subseteq issued'
      /\ return' = return /\ asked' = asked
  BY DEF Sell
<1> QED
  BY <1>2, <1>3, <1>4, InvoiceWritten

LEMMA EditSaleHolds ==
  ASSUME SalesInv, NEW i \in Invoice, NEW l \in Loc, NEW S \in SUBSET Piece, EditSale(i, l, S)
  PROVE  SalesInv'
<1> PICK s : s = PurgeSale(rows, i)
  OBVIOUS
<1>1. rows \in Tables /\ i \in issued
  BY DEF EditSale, SalesInv, SalesShapes
<1>2. /\ s \in Tables
      /\ s.log = {m \in rows.log : m.doc # i}
      /\ \A p \in Piece : IF rows.piece[p].inv = i THEN s.piece[p].inv = Null
                                                   ELSE s.piece[p] = rows.piece[p]
      /\ \A y \in Loc : s.moved[i][y] = 0
      /\ \A x \in Doc \ {i}, y \in Loc : s.moved[x][y] = rows.moved[x][y]
  BY <1>1, PurgeSaleTables
<1>3. s.log \subseteq rows.log
      /\ \A p \in Piece : s.piece[p] = rows.piece[p] \/ s.piece[p].inv = Null
  BY <1>2
<1>4. /\ invoice' = [invoice EXCEPT ![i] = [loc |-> l, qty |-> Cardinality(S)]]
      /\ rows' = Sold(s, i, l, S) /\ i \in issued' /\ issued \subseteq issued'
      /\ return' = return /\ asked' = asked /\ S # {}
  BY <1>1 DEF EditSale, Sellable
<1> QED
  BY <1>2, <1>3, <1>4, InvoiceWritten
(* Pieces stay as they were, or are sold on no invoice.                     *)
LEMMA SoldStill ==
  ASSUME SalesInv, NEW u,
         \A p \in Piece : u.piece[p] = rows.piece[p] \/ u.piece[p].inv = Null
  PROVE  \A p \in Piece : u.piece[p].inv # Null =>
            /\ u.piece[p].sold /\ u.piece[p].inv \in Invoice
            /\ invoice[u.piece[p].inv] # Null
<1> SUFFICES ASSUME NEW p \in Piece, u.piece[p].inv # Null
             PROVE  /\ u.piece[p].sold /\ u.piece[p].inv \in Invoice
                    /\ invoice[u.piece[p].inv] # Null
  OBVIOUS
<1>1. u.piece[p] = rows.piece[p]
  OBVIOUS
<1>2. rows.piece[p] \in PieceRow
  BY TablesFields DEF SalesInv, SalesShapes
<1> QED
  BY <1>1, <1>2 DEF SalesInv, SoldOnLiveInvoice, PieceRow

(* A return is written, changed or taken away.                              *)
ReturnStep(t, r, u) ==
    /\ r \in ReturnRow \cup {Null} /\ return' = [return EXCEPT ![t] = r]
    /\ (r # Null => t \in issued') /\ issued \subseteq issued' /\ invoice' = invoice
    /\ asked' \in [Asker -> AskedReturn \cup {Null}]
    /\ u \in Tables /\ u = rows'
    /\ ReturnMoved(t, r, u.moved)
    /\ \A x \in Doc \ {t}, y \in Loc : u.moved[x][y] = rows.moved[x][y]
    /\ \A p \in Piece : u.piece[p] = rows.piece[p] \/ u.piece[p].inv = Null
    /\ \A m \in u.log : IF m.doc = t THEN r # Null /\ r.inv = Null
                         ELSE m.doc \in Return => m \in rows.log

LEMMA ReturnWritten ==
  ASSUME SalesInv, NEW t \in Return, NEW r, NEW u, ReturnStep(t, r, u)
  PROVE  SalesInv'
<1>0. /\ r \in ReturnRow \cup {Null} /\ return' = [return EXCEPT ![t] = r]
      /\ (r # Null => t \in issued') /\ issued \subseteq issued' /\ invoice' = invoice
      /\ asked' \in [Asker -> AskedReturn \cup {Null}]
      /\ u \in Tables /\ u = rows'
      /\ ReturnMoved(t, r, u.moved)
      /\ \A x \in Doc \ {t}, y \in Loc : u.moved[x][y] = rows.moved[x][y]
      /\ \A p \in Piece : u.piece[p] = rows.piece[p] \/ u.piece[p].inv = Null
      /\ \A m \in u.log : IF m.doc = t THEN r # Null /\ r.inv = Null
                           ELSE m.doc \in Return => m \in rows.log
  BY DEF ReturnStep
<1> PICK ret : ret = return'
  OBVIOUS
<1> PICK inv : inv = invoice
  OBVIOUS
<1>1. /\ ret[t] = r /\ \A x \in Return \ {t} : ret[x] = return[x]
      /\ ret \in [Return -> ReturnRow \cup {Null}]
  BY <1>0 DEF SalesInv, SalesShapes
<1>2. SalesShapes'
  BY <1>0, <1>1 DEF SalesInv, SalesShapes
<1>3. ASSUME NEW m \in u.log, m.doc \in Return
      PROVE  ret[m.doc] # Null /\ ret[m.doc].inv = Null
  <2>1. CASE m.doc = t
    BY <1>0, <1>1, <2>1
  <2>2. CASE m.doc # t
    BY <1>0, <1>1, <1>3, <2>2 DEF SalesInv, LogOfReturns
  <2> QED
    BY <2>1, <2>2
<1>4. ASSUME NEW i \in Invoice PROVE InvoiceMoved(i, inv[i], u.moved)
  BY <1>0, DocsApart, MovedBefore, MovedStill
<1>5. ASSUME NEW x \in Return PROVE ReturnMoved(x, ret[x], u.moved)
  <2>1. CASE x = t
    BY <1>0, <1>1, <2>1
  <2>2. CASE x # t
    <3>1. PICK row : row = return[x] /\ row = ret[x]
      BY <1>1, <2>2
    <3>2. ReturnMoved(x, row, rows.moved)
      BY <3>1, MovedBefore
    <3>3. \A l \in Loc : u.moved[x][l] = rows.moved[x][l]
      BY <1>0, <2>2, DocsApart
    <3>4. ReturnMoved(x, row, u.moved)
      BY ONLY <3>2, <3>3, MovedStill
    <3> QED
      BY <3>1, <3>4
  <2> QED
    BY <2>1, <2>2
<1>6. \A p \in Piece : u.piece[p].inv # Null =>
            u.piece[p].sold /\ inv[u.piece[p].inv] # Null
  BY <1>0, SoldStill
<1>7. /\ inv = invoice' /\ ret = return' /\ u = rows' /\ SalesShapes'
      /\ \A m \in u.log : m.doc \in Return => ret[m.doc] # Null /\ ret[m.doc].inv = Null
      /\ \A x \in Invoice : InvoiceMoved(x, inv[x], u.moved)
      /\ \A x \in Return : ReturnMoved(x, ret[x], u.moved)
      /\ \A p \in Piece : u.piece[p].inv # Null =>
            u.piece[p].sold /\ inv[u.piece[p].inv] # Null
  BY <1>0, <1>2, <1>3, <1>4, <1>5, <1>6
<1> QED
  BY ONLY <1>7, SalesAfter

LEMMA ReturnSaleHolds ==
  ASSUME SalesInv, NEW r \in Asker, NEW t \in Return, NEW e \in Expiry, ReturnSale(r, t, e)
  PROVE  SalesInv'
<1> PICK a : a = asked[r]
  OBVIOUS
<1> PICK u : u = rows'
  OBVIOUS
<1> PICK l : l = a.loc
  OBVIOUS
<1> PICK n : n = Cardinality(a.pieces)
  OBVIOUS
<1> PICK s : s = [rows EXCEPT !.moved[t][l] = @ + n]
  OBVIOUS
<1> DEFINE row == [inv |-> a.inv, loc |-> l, qty |-> n]
<1>1. /\ a \in AskedReturn /\ a.inv \in Invoice /\ l \in Loc
      /\ a.pieces \in SUBSET Piece /\ a.pieces # {} /\ rows \in Tables
  <2>1. a \in AskedReturn /\ rows \in Tables
    BY DEF ReturnSale, SalesInv, SalesShapes
  <2>2. a.inv \in Invoice /\ a.loc \in Loc /\ a.pieces \in (SUBSET Piece) \ {{}}
    BY ONLY <2>1 DEF AskedReturn
  <2>3. a.pieces \in SUBSET Piece
    BY ONLY <2>2
  <2>4. a.pieces # {}
    BY ONLY <2>2
  <2> QED
    BY <2>1, <2>2, <2>3, <2>4
<1>2. n \in Nat \ {0} /\ n \in Int /\ t \in Doc /\ a.inv \in Doc
  BY <1>1, PiecesCounted, DocsApart
<1>3. row \in ReturnRow /\ row # Null /\ row.inv = a.inv /\ row.loc = l /\ row.qty = n
  BY <1>1, <1>2, SalesNull DEF ReturnRow
<1>4. rows.moved[t][l] + n \in Int
  BY <1>1, <1>2, TablesFields
<1>5. /\ s \in Tables /\ s.piece = rows.piece /\ s.log = rows.log /\ s.lots = rows.lots
      /\ s.lotLog = rows.lotLog /\ s.moved[t][l] = rows.moved[t][l] + n
      /\ \A x \in Doc, y \in Loc : x # t \/ y # l => s.moved[x][y] = rows.moved[x][y]
  <2> PICK m : m = rows.moved[t][l] + n
    OBVIOUS
  <2>1. s = Moving(rows, t, l, m)
    BY DEF Moving
  <2>2. /\ rows \in Tables /\ t \in Doc /\ l \in Loc /\ m \in Int
        /\ m = rows.moved[t][l] + n
    BY <1>1, <1>2, <1>4
  <2> QED
    BY ONLY <2>1, <2>2, MovingTables
<1>7. /\ t \notin issued
      /\ u = IF tracking = "serials"
             THEN [s EXCEPT
                    !.piece = [p \in Piece |-> IF p \in a.pieces
                                  THEN [sold |-> FALSE, loc |-> l, inv |-> Null]
                                  ELSE @[p]],
                    !.log = @ \cup {[piece |-> p, doc |-> a.inv] : p \in a.pieces}]
             ELSE [s EXCEPT !.lots[l][e] = @ + n, !.lotLog[a.inv][l][e] = @ - n]
      /\ return' = [return EXCEPT ![t] = row] /\ issued' = issued \cup {t}
      /\ asked' = [asked EXCEPT ![r] = Null] /\ invoice' = invoice
  BY DEF ReturnSale
<1> HIDE DEF row
<1>8. /\ u \in Tables /\ u.moved = s.moved
      /\ \A p \in Piece : u.piece[p] = rows.piece[p] \/ u.piece[p].inv = Null
      /\ \A m \in u.log : m \in rows.log \/ m.doc = a.inv
  <2>1. CASE tracking = "serials"
    <3> DEFINE at == [sold |-> FALSE, loc |-> l, inv |-> Null]
               piece == [p \in Piece |-> IF p \in a.pieces THEN at ELSE s.piece[p]]
               log == s.log \cup Logged(a.inv, a.pieces)
    <3>1. u = Putting(s, piece, log)
      <4>1. [s EXCEPT !.piece = piece].log = s.log
        BY <1>5 DEF Tables
      <4> QED
        BY <1>7, <2>1, <4>1 DEF Putting, Logged
    <3>2. at \in PieceRow /\ at.inv = Null
      BY <1>1 DEF PieceRow
    <3> HIDE DEF at
    <3>3. piece \in [Piece -> PieceRow] /\ log \in SUBSET [piece : Piece, doc : Doc]
      BY <1>1, <1>2, <1>5, <3>2, TablesFields DEF Logged
    <3>4. /\ \A p \in Piece : piece[p] = rows.piece[p] \/ piece[p].inv = Null
          /\ \A m \in log : m \in rows.log \/ m.doc = a.inv
      BY <1>5, <3>2 DEF Logged
    <3> HIDE DEF piece, log
    <3>5. u \in Tables /\ u.moved = s.moved /\ u.piece = piece /\ u.log = log
      BY ONLY <1>5, <3>1, <3>3, PuttingTables
    <3> QED
      BY <3>4, <3>5
  <2>2. CASE tracking # "serials"
    <3> DEFINE lots == [s.lots EXCEPT ![l][e] = @ + n]
               lotLog == [s.lotLog EXCEPT ![a.inv][l][e] = @ - n]
    <3>1. u = InLotsOf(s, lots, lotLog)
      <4>1. [s EXCEPT !.lots = lots].lotLog = s.lotLog
        BY <1>5 DEF Tables
      <4> QED
        BY <1>7, <2>2, <4>1 DEF InLotsOf
    <3>2. /\ s.lots \in [Loc -> [Expiry -> Int]]
          /\ s.lotLog \in [Doc -> [Loc -> [Expiry -> Int]]]
      BY <1>5, TablesFields
    <3>3. lots \in [Loc -> [Expiry -> Int]] /\ lotLog \in [Doc -> [Loc -> [Expiry -> Int]]]
      BY <1>1, <1>2, <3>2
    <3> HIDE DEF lots, lotLog
    <3>4. u \in Tables /\ u.moved = s.moved /\ u.piece = s.piece /\ u.log = s.log
      BY ONLY <1>5, <3>1, <3>3, InLotsTables
    <3> QED
      BY <1>5, <3>4
  <2> QED
    BY <2>1, <2>2
<1>9. return[t] = Null /\ \A y \in Loc : rows.moved[t][y] = 0
  <2>1. return[t] = Null
    BY <1>7 DEF SalesInv, SalesShapes
  <2> QED
    BY <2>1, MovedBefore DEF ReturnMoved
<1>10. ReturnMoved(t, row, u.moved)
  BY <1>2, <1>3, <1>5, <1>8, <1>9, <1>1 DEF ReturnMoved
<1>11. \A x \in Doc \ {t}, y \in Loc : u.moved[x][y] = rows.moved[x][y]
  BY <1>5, <1>8
<1>12. ASSUME NEW m \in u.log
       PROVE  IF m.doc = t THEN row # Null /\ row.inv = Null
              ELSE m.doc \in Return => m \in rows.log
  <2>1. CASE m \in rows.log
    BY <1>9, <2>1 DEF SalesInv, LogOfReturns
  <2>2. CASE m.doc = a.inv
    BY <1>1, <2>2, DocsApart
  <2> QED
    BY <1>8, <2>1, <2>2
<1>13. asked' \in [Asker -> AskedReturn \cup {Null}]
  BY <1>7 DEF SalesInv, SalesShapes
<1>14. ReturnStep(t, row, u)
  BY <1>3, <1>7, <1>8, <1>10, <1>11, <1>12, <1>13 DEF ReturnStep
<1> QED
  BY ONLY SalesInv, t \in Return, <1>14, ReturnWritten

(* A return of pieces, on tables where it had moved nothing.                *)
LEMMA RestoredHolds ==
  ASSUME SalesInv, NEW t \in Return, NEW l \in Loc, NEW S \in SUBSET Piece, S # {},
         NEW s \in Tables, \A y \in Loc : s.moved[t][y] = 0,
         \A x \in Doc \ {t}, y \in Loc : s.moved[x][y] = rows.moved[x][y],
         s.log \subseteq rows.log,
         \A p \in Piece : s.piece[p] = rows.piece[p] \/ s.piece[p].inv = Null,
         return' = [return EXCEPT ![t] = [inv |-> Null, loc |-> l, qty |-> Cardinality(S)]],
         rows' = Restored(s, t, l, S), t \in issued', issued \subseteq issued',
         invoice' = invoice, asked' = asked
  PROVE  SalesInv'
<1> PICK u : u = rows'
  OBVIOUS
<1> DEFINE row == [inv |-> Null, loc |-> l, qty |-> Cardinality(S)]
<1>1. row \in ReturnRow /\ row # Null /\ row.inv = Null /\ row.loc = l
      /\ row.qty = Cardinality(S) /\ Cardinality(S) \in Nat
  BY PiecesCounted, SalesNull DEF ReturnRow
<1> HIDE DEF row
<1>2. /\ u \in Tables
      /\ u.moved[t][l] = s.moved[t][l] + Cardinality(S)
      /\ \A x \in Doc, y \in Loc : x # t \/ y # l => u.moved[x][y] = s.moved[x][y]
      /\ \A p \in Piece : u.piece[p] = s.piece[p] \/ u.piece[p].inv = Null
      /\ u.log \subseteq s.log \cup Logged(t, S)
  BY RestoredTables
<1>3. ReturnMoved(t, row, u.moved)
  BY <1>1, <1>2, DocsApart DEF ReturnMoved
<1>4. /\ \A x \in Doc \ {t}, y \in Loc : u.moved[x][y] = rows.moved[x][y]
      /\ \A p \in Piece : u.piece[p] = rows.piece[p] \/ u.piece[p].inv = Null
  BY <1>2
<1>5. ASSUME NEW m \in u.log
      PROVE  IF m.doc = t THEN row # Null /\ row.inv = Null
             ELSE m.doc \in Return => m \in rows.log
  <2>1. CASE m \in s.log
    BY <1>1, <2>1
  <2>2. CASE m \in Logged(t, S)
    BY <1>1, <2>2 DEF Logged
  <2> QED
    BY <1>2, <2>1, <2>2
<1>6. /\ return' = [return EXCEPT ![t] = row]
      /\ asked' \in [Asker -> AskedReturn \cup {Null}]
  BY DEF row, SalesInv, SalesShapes
<1>7. ReturnStep(t, row, u)
  BY <1>1, <1>2, <1>3, <1>4, <1>5, <1>6 DEF ReturnStep
<1> QED
  BY ONLY SalesInv, t \in Return, <1>7, ReturnWritten

LEMMA StandaloneReturnHolds ==
  ASSUME SalesInv, NEW t \in Return, NEW l \in Loc, NEW S \in SUBSET Piece,
         StandaloneReturn(t, l, S)
  PROVE  SalesInv'
<1>1. return[t] = Null /\ rows \in Tables
  BY DEF StandaloneReturn, SalesInv, SalesShapes
<1>2. \A y \in Loc : rows.moved[t][y] = 0
  BY <1>1, MovedBefore DEF ReturnMoved
<1>3. /\ return' = [return EXCEPT ![t] = [inv |-> Null, loc |-> l, qty |-> Cardinality(S)]]
      /\ rows' = Restored(rows, t, l, S) /\ t \in issued' /\ issued \subseteq issued'
      /\ invoice' = invoice /\ asked' = asked /\ S # {}
  BY DEF StandaloneReturn, Restorable
<1> QED
  BY <1>1, <1>2, <1>3, RestoredHolds
(* What is left of a return once it is purged.                              *)
LEMMA ReturnPurged ==
  ASSUME SalesInv, NEW t \in Return, return[t] # Null, NEW s, s = PurgeReturn(rows, t)
  PROVE  /\ s \in Tables /\ s.log = {m \in rows.log : m.doc # t}
         /\ \A p \in Piece : s.piece[p] = rows.piece[p] \/ s.piece[p].inv = Null
         /\ \A y \in Loc : s.moved[t][y] = 0
         /\ \A x \in Doc \ {t}, y \in Loc : s.moved[x][y] = rows.moved[x][y]
<1>1. rows \in Tables /\ return[t] \in ReturnRow
  BY DEF SalesInv, SalesShapes
<1>2. return[t].inv \in Invoice \cup {Null}
  BY <1>1 DEF ReturnRow
<1>3. \A m \in rows.log : m.doc = t => return[t].inv = Null
  BY DEF SalesInv, LogOfReturns
<1> QED
  BY <1>1, <1>2, <1>3, PurgeReturnTables

LEMMA EditedReturn ==
  ASSUME SalesInv, NEW t \in Return, NEW l \in Loc, NEW S \in SUBSET Piece,
         EditReturn(t, l, S)
  PROVE  return' = [return EXCEPT ![t] = [inv |-> Null, loc |-> l, qty |-> Cardinality(S)]]
<1>0. return[t] # Null /\ return[t].inv = Null /\ return[t] \in ReturnRow
  BY DEF EditReturn, SalesInv, SalesShapes
<1>1. return' = [return EXCEPT ![t] = [[@ EXCEPT !.loc = l] EXCEPT !.qty = Cardinality(S)]]
  BY <1>0 DEF EditReturn, SalesInv, SalesShapes
<1> PICK r : r = return[t]
  OBVIOUS
<1>2. r = [inv |-> Null, loc |-> r.loc, qty |-> r.qty]
  BY <1>0 DEF ReturnRow
<1>3. [r EXCEPT !.loc = l] = [inv |-> Null, loc |-> l, qty |-> r.qty]
  BY ONLY <1>2
<1> PICK v : v = [r EXCEPT !.loc = l]
  OBVIOUS
<1> PICK n : n = Cardinality(S)
  OBVIOUS
<1>a. v = [inv |-> Null, loc |-> l, qty |-> r.qty]
  BY <1>3
<1>b. [v EXCEPT !.qty = n] = [inv |-> Null, loc |-> l, qty |-> n]
  BY ONLY <1>a
<1>4. [v EXCEPT !.qty = Cardinality(S)] = [inv |-> Null, loc |-> l, qty |-> Cardinality(S)]
  BY <1>b
<1> QED
  BY <1>1, <1>4

LEMMA EditReturnHolds ==
  ASSUME SalesInv, NEW t \in Return, NEW l \in Loc, NEW S \in SUBSET Piece,
         EditReturn(t, l, S)
  PROVE  SalesInv'
<1> PICK s : s = PurgeReturn(rows, t)
  OBVIOUS
<1>1. return[t] # Null /\ return[t].inv = Null /\ return[t] \in ReturnRow /\ t \in issued
  BY DEF EditReturn, SalesInv, SalesShapes
<1>2. /\ s \in Tables /\ s.log = {m \in rows.log : m.doc # t}
      /\ \A p \in Piece : s.piece[p] = rows.piece[p] \/ s.piece[p].inv = Null
      /\ \A y \in Loc : s.moved[t][y] = 0
      /\ \A x \in Doc \ {t}, y \in Loc : s.moved[x][y] = rows.moved[x][y]
  BY <1>1, ReturnPurged
<1>3. return' = [return EXCEPT ![t] = [inv |-> Null, loc |-> l, qty |-> Cardinality(S)]]
  BY EditedReturn
<1>4. /\ rows' = Restored(s, t, l, S) /\ t \in issued' /\ issued \subseteq issued'
      /\ invoice' = invoice /\ asked' = asked /\ S # {} /\ s.log \subseteq rows.log
  BY <1>1, <1>2 DEF EditReturn, Restorable
<1> QED
  BY <1>2, <1>3, <1>4, RestoredHolds

LEMMA DeleteReturnHolds ==
  ASSUME SalesInv, NEW t \in Return, DeleteReturn(t)
  PROVE  SalesInv'
<1> PICK u : u = rows'
  OBVIOUS
<1>1. /\ u \in Tables /\ u.log = {m \in rows.log : m.doc # t}
      /\ \A p \in Piece : u.piece[p] = rows.piece[p] \/ u.piece[p].inv = Null
      /\ \A y \in Loc : u.moved[t][y] = 0
      /\ \A x \in Doc \ {t}, y \in Loc : u.moved[x][y] = rows.moved[x][y]
  BY ReturnPurged DEF DeleteReturn
<1>2. ReturnMoved(t, Null, u.moved)
  BY <1>1 DEF ReturnMoved
<1>3. /\ return' = [return EXCEPT ![t] = Null] /\ issued' = issued /\ invoice' = invoice
      /\ asked' \in [Asker -> AskedReturn \cup {Null}]
  BY DEF DeleteReturn, SalesInv, SalesShapes
<1>4. ReturnStep(t, Null, u)
  BY <1>1, <1>2, <1>3 DEF ReturnStep
<1> QED
  BY <1>4, ReturnWritten

LEMMA DeleteSaleHolds ==
  ASSUME SalesInv, NEW i \in Invoice, DeleteSale(i)
  PROVE  SalesInv'
<1> PICK inv : inv = invoice'
  OBVIOUS
<1> PICK ret : ret = return'
  OBVIOUS
<1> PICK u : u = rows'
  OBVIOUS
<1> PICK s : s = PurgeReturns(rows, Returns(i))
  OBVIOUS
<1>0. rows \in Tables /\ Returns(i) \in SUBSET Return /\ u = PurgeSale(s, i)
  BY DEF DeleteSale, SalesInv, SalesShapes, Returns
<1>1. /\ s \in Tables /\ s.piece = rows.piece /\ s.log = rows.log
      /\ \A x \in Doc, l \in Loc : s.moved[x][l] = IF x \in Returns(i) THEN 0 ELSE rows.moved[x][l]
  BY <1>0, PurgeReturnsTables
<1>2. /\ u \in Tables
      /\ u.log = {m \in s.log : m.doc # i}
      /\ \A p \in Piece : IF s.piece[p].inv = i THEN u.piece[p].inv = Null
                                                ELSE u.piece[p] = s.piece[p]
      /\ \A l \in Loc : u.moved[i][l] = 0
      /\ \A x \in Doc \ {i}, l \in Loc : u.moved[x][l] = s.moved[x][l]
  BY <1>0, <1>1, PurgeSaleTables
<1>3. /\ inv[i] = Null /\ \A x \in Invoice \ {i} : inv[x] = invoice[x]
      /\ inv \in [Invoice -> InvoiceRow \cup {Null}]
      /\ \A t \in Return : ret[t] = IF t \in Returns(i) THEN Null ELSE return[t]
      /\ ret \in [Return -> ReturnRow \cup {Null}]
      /\ asked' = asked /\ issued' = issued
  BY DEF DeleteSale, SalesInv, SalesShapes
<1>4. SalesShapes'
  BY <1>2, <1>3 DEF SalesInv, SalesShapes
<1>5. ASSUME NEW m \in u.log, m.doc \in Return
      PROVE  ret[m.doc] # Null /\ ret[m.doc].inv = Null
  <2>1. return[m.doc] # Null /\ return[m.doc].inv = Null
    BY <1>1, <1>2, <1>5 DEF SalesInv, LogOfReturns
  <2>2. m.doc \notin Returns(i)
    BY <2>1, SalesNull DEF Returns
  <2> QED
    BY <1>3, <1>5, <2>1, <2>2
<1>6. ASSUME NEW x \in Invoice PROVE InvoiceMoved(x, inv[x], u.moved)
  <2>1. CASE x = i
    BY <1>2, <1>3, <2>1 DEF InvoiceMoved
  <2>2. CASE x # i
    <3>1. x \in Doc \ {i} /\ x \notin Returns(i)
      BY <1>0, <2>2, DocsApart
    <3>2. InvoiceMoved(x, invoice[x], rows.moved)
      BY MovedBefore
    <3>3. \A l \in Loc : u.moved[x][l] = rows.moved[x][l]
      BY <1>1, <1>2, <3>1
    <3>4. InvoiceMoved(x, invoice[x], u.moved)
      BY ONLY <3>2, <3>3, MovedStill
    <3> QED
      BY <1>3, <2>2, <3>4
  <2> QED
    BY <2>1, <2>2
<1>7. ASSUME NEW t \in Return PROVE ReturnMoved(t, ret[t], u.moved)
  <2>0. t \in Doc \ {i}
    BY DocsApart
  <2>1. CASE t \in Returns(i)
    BY <1>1, <1>2, <1>3, <2>0, <2>1 DEF ReturnMoved
  <2>2. CASE t \notin Returns(i)
    <3>2. ReturnMoved(t, return[t], rows.moved)
      BY MovedBefore
    <3>3. \A l \in Loc : u.moved[t][l] = rows.moved[t][l]
      BY <1>1, <1>2, <2>0, <2>2
    <3>4. ReturnMoved(t, return[t], u.moved)
      BY ONLY <3>2, <3>3, MovedStill
    <3> QED
      BY <1>3, <2>2, <3>4
  <2> QED
    BY <2>1, <2>2
<1>8. ASSUME NEW p \in Piece, u.piece[p].inv # Null
      PROVE  u.piece[p].sold /\ inv[u.piece[p].inv] # Null
  <2>1. u.piece[p] = rows.piece[p] /\ rows.piece[p].inv # i
    BY <1>1, <1>2, <1>8
  <2>2. rows.piece[p].inv \in Invoice
    <3>1. rows.piece[p] \in PieceRow
      BY <1>0, TablesFields
    <3> QED
      BY <1>8, <2>1, <3>1 DEF PieceRow
  <2>3. rows.piece[p].sold /\ invoice[rows.piece[p].inv] # Null
    BY <1>8, <2>1 DEF SalesInv, SoldOnLiveInvoice
  <2> QED
    BY <1>3, <2>1, <2>2, <2>3
<1>9. /\ inv = invoice' /\ ret = return' /\ u = rows' /\ SalesShapes'
      /\ \A m \in u.log : m.doc \in Return => ret[m.doc] # Null /\ ret[m.doc].inv = Null
      /\ \A x \in Invoice : InvoiceMoved(x, inv[x], u.moved)
      /\ \A t \in Return : ReturnMoved(t, ret[t], u.moved)
      /\ \A p \in Piece : u.piece[p].inv # Null =>
            u.piece[p].sold /\ inv[u.piece[p].inv] # Null
  BY <1>4, <1>5, <1>6, <1>7, <1>8
<1> QED
  BY ONLY <1>9, SalesAfter

(* What asks, or is refused, writes nothing.                                *)
LEMMA SalesUntouched ==
  ASSUME SalesInv, UNCHANGED <<invoice, return, rows, issued>>,
         asked' \in [Asker -> AskedReturn \cup {Null}]
  PROVE  SalesInv'
BY DEF SalesInv, SalesShapes, LogOfReturns, MovedAsDocumented, SoldOnLiveInvoice

LEMMA AskReturnHolds ==
  ASSUME SalesInv, NEW r \in Asker, NEW i \in Invoice, NEW S \in SUBSET Piece,
         AskReturn(r, i, S)
  PROVE  SalesInv'
<1>1. invoice[i] \in InvoiceRow /\ S # {}
  BY DEF AskReturn, SalesInv, SalesShapes
<1>2. invoice[i].loc \in Loc
  BY <1>1 DEF InvoiceRow
<1>3. [inv |-> i, loc |-> invoice[i].loc, pieces |-> S] \in AskedReturn
  BY <1>1, <1>2 DEF AskedReturn
<1>4. asked' \in [Asker -> AskedReturn \cup {Null}]
  BY <1>3 DEF AskReturn, SalesInv, SalesShapes
<1> QED
  BY <1>4, SalesUntouched DEF AskReturn

LEMMA SalesStep ==
  ASSUME SalesInv, [SalesNext]_salesVars
  PROVE  SalesInv'
<1>1. ASSUME NEW r \in Asker, RefuseReturn(r) PROVE SalesInv'
  <2>1. asked' \in [Asker -> AskedReturn \cup {Null}]
    BY <1>1 DEF RefuseReturn, SalesInv, SalesShapes
  <2> QED
    BY <1>1, <2>1, SalesUntouched DEF RefuseReturn
<1>2. CASE UNCHANGED salesVars
  BY <1>2, SalesUntouched DEF salesVars, SalesInv, SalesShapes
<1> QED
  BY <1>1, <1>2, SellHolds, EditSaleHolds, DeleteSaleHolds, AskReturnHolds, ReturnSaleHolds,
     StandaloneReturnHolds, EditReturnHolds, DeleteReturnHolds DEF SalesNext

LEMMA SalesAtFirst ==
  ASSUME SalesInit
  PROVE  SalesInv
<1>1. ASSUME NEW l \in Loc, NEW e \in Expiry PROVE HomeOf(l, e) \in Int
  <2>1. IsFiniteSet({p \in Piece : Home[p] = l /\ BestBefore[p] = e})
    BY PieceAssumption, FS_Subset
  <2> QED
    BY <2>1, FS_CardinalityType DEF HomeOf
<1>2. /\ rows = Opening
      /\ \A i \in Invoice : invoice[i] = Null
      /\ \A t \in Return : return[t] = Null
      /\ invoice \in [Invoice -> InvoiceRow \cup {Null}]
      /\ return \in [Return -> ReturnRow \cup {Null}]
      /\ asked \in [Asker -> AskedReturn \cup {Null}]
  BY DEF SalesInit
<1>3. /\ Opening.moved = [d \in Doc |-> [l \in Loc |-> 0]]
      /\ Opening.piece = [p \in Piece |-> [sold |-> FALSE, loc |-> Home[p], inv |-> Null]]
      /\ Opening.log = {}
  BY DEF Opening
<1>4. Opening \in Tables
  <2>1. [p \in Piece |-> [sold |-> FALSE, loc |-> Home[p], inv |-> Null]] \in [Piece -> PieceRow]
    BY PieceAssumption DEF PieceRow
  <2>2. /\ [d \in Doc |-> [l \in Loc |-> 0]] \in [Doc -> [Loc -> Int]]
        /\ [l \in Loc |-> [e \in Expiry |-> HomeOf(l, e)]] \in [Loc -> [Expiry -> Int]]
        /\ [d \in Doc |-> NoLots] \in [Doc -> [Loc -> [Expiry -> Int]]]
    BY <1>1 DEF NoLots
  <2> QED
    BY <2>1, <2>2 DEF Opening, Tables
<1>5. SalesShapes
  BY <1>2, <1>4 DEF SalesShapes
<1>6. LogOfReturns
  BY <1>2, <1>3 DEF LogOfReturns
<1>7. MovedAsDocumented
  BY <1>2, <1>3, DocsApart DEF MovedAsDocumented
<1>8. SoldOnLiveInvoice
  BY <1>2, <1>3 DEF SoldOnLiveInvoice
<1> QED
  BY <1>5, <1>6, <1>7, <1>8 DEF SalesInv

LEMMA SalesHold ==
  ASSUME SalesInv
  PROVE  SalesAddUp
<1>1. SalesTypeOK
  <2>1. rows.piece \in [Piece -> [sold : BOOLEAN, loc : Loc \cup {Null}, inv : Invoice \cup {Null}]]
    BY TablesFields DEF SalesInv, SalesShapes, PieceRow
  <2>2. \A l \in Loc, e \in Expiry : rows.lots[l][e] \in Int
    BY TablesFields DEF SalesInv, SalesShapes
  <2> QED
    BY <2>1, <2>2 DEF SalesInv, SalesShapes, SalesTypeOK
<1> QED
  BY <1>1 DEF SalesInv, SalesAddUp

-----------------------------------------------------------------------------
(* Requests for a return that are not interrupted. *)

(* What was returned of an invoice, after one return changed.               *)
LEMMA OneReturnChanged ==
  ASSUME SalesInv, NEW t \in Return, NEW r \in ReturnRow \cup {Null},
         return' = [return EXCEPT ![t] = r], NEW i \in Invoice
  PROVE  /\ AlreadyReturned(i) \in Int /\ AlreadyReturned(i)' \in Int
         /\ r = Null \/ r.inv # i => AlreadyReturned(i)' =< AlreadyReturned(i)
         /\ r # Null /\ r.inv = i /\ return[t] = Null =>
               AlreadyReturned(i)' = AlreadyReturned(i) + r.qty
<1> PICK A : A = Returns(i)
  OBVIOUS
<1> PICK B : B = Returns(i)'
  OBVIOUS
<1> PICK f : f = [x \in A |-> return[x].qty]
  OBVIOUS
<1> PICK g : g = [x \in B |-> return'[x].qty]
  OBVIOUS
<1>1. /\ return \in [Return -> ReturnRow \cup {Null}]
      /\ return'[t] = r /\ \A x \in Return \ {t} : return'[x] = return[x]
      /\ return' \in [Return -> ReturnRow \cup {Null}]
  BY DEF SalesInv, SalesShapes
<1>2. /\ A = {x \in Return : return[x] # Null /\ return[x].inv = i}
      /\ B = {x \in Return : return'[x] # Null /\ return'[x].inv = i}
  BY DEF Returns
<1>3. IsFiniteSet(A) /\ IsFiniteSet(B)
  BY <1>2, SalesDocuments, FS_Subset
<1>4. ASSUME NEW q \in ReturnRow PROVE q.qty \in Nat
  BY <1>4 DEF ReturnRow
<1>5. (\A x \in A : f[x] \in Nat) /\ (\A x \in B : g[x] \in Nat)
  BY <1>1, <1>2, <1>4
<1>6. A \ {t} = B \ {t} /\ \A x \in B \ {t} : g[x] = f[x]
  BY <1>1, <1>2
<1>7. /\ SumFunctionOnSet(f, A) \in Int /\ SumFunctionOnSet(g, B) \in Int
      /\ t \notin B => SumFunctionOnSet(g, B) =< SumFunctionOnSet(f, A)
      /\ t \in B /\ t \notin A => SumFunctionOnSet(g, B) = SumFunctionOnSet(f, A) + g[t]
  BY ONLY <1>3, <1>5, <1>6, SumOneMoved
<1>8. /\ AlreadyReturned(i) = SumFunctionOnSet(f, A)
      /\ AlreadyReturned(i)' = SumFunctionOnSet(g, B)
  BY DEF AlreadyReturned
<1>9. /\ r = Null \/ r.inv # i => t \notin B
      /\ r # Null /\ r.inv = i => t \in B /\ g[t] = r.qty
      /\ return[t] = Null => t \notin A
  BY <1>1, <1>2
<1> QED
  BY <1>7, <1>8, <1>9

LEMMA SameReturned ==
  ASSUME NEW i, Returns(i)' = Returns(i), \A t \in Returns(i) : return'[t] = return[t]
  PROVE  AlreadyReturned(i)' = AlreadyReturned(i)
BY DEF AlreadyReturned

(* What was read still holds when it is committed, for nothing happened in  *)
(* between; and what is returned names an invoice that exists.              *)
ReturnsHaveInvoice ==
    \A t \in Return : return[t] # Null /\ return[t].inv # Null => invoice[return[t].inv] # Null

Fits ==
    \A r \in Asker : asked[r] # Null =>
        LET i == asked[r].inv
        IN  invoice[i] # Null =>
               AlreadyReturned(i) + Cardinality(asked[r].pieces) =< invoice[i].qty

AloneInv == SalesInv /\ ReturnsHaveInvoice /\ ReturnedWithinSold /\ Fits

AloneStep == (\E r \in Asker : asked[r] # Null) => \A r \in Asker : asked'[r] = Null

LEMMA AloneByReturn ==
  ASSUME AloneInv, AloneStep, SalesInv', UNCHANGED invoice, UNCHANGED asked,
         NEW t \in Return, NEW r \in ReturnRow \cup {Null},
         return' = [return EXCEPT ![t] = r], r # Null => r.inv = Null
  PROVE  AloneInv'
<1>1. /\ \A q \in Asker : asked'[q] = Null
      /\ return'[t] = r /\ \A x \in Return \ {t} : return'[x] = return[x]
  BY DEF AloneInv, AloneStep, SalesInv, SalesShapes
<1>2. ReturnsHaveInvoice'
  BY <1>1 DEF AloneInv, ReturnsHaveInvoice
<1>3. ASSUME NEW i \in Invoice, invoice'[i] # Null PROVE AlreadyReturned(i)' =< invoice'[i].qty
  <2>1. /\ AlreadyReturned(i) \in Int /\ AlreadyReturned(i)' \in Int
        /\ AlreadyReturned(i)' =< AlreadyReturned(i)
    BY SalesNull, OneReturnChanged DEF AloneInv
  <2>2. AlreadyReturned(i) =< invoice[i].qty
    BY <1>3 DEF AloneInv, ReturnedWithinSold, AlreadyReturned
  <2>3. invoice[i].qty \in Int /\ invoice'[i] = invoice[i]
    BY <1>3 DEF AloneInv, SalesInv, SalesShapes, InvoiceRow
  <2> QED
    BY <2>1, <2>2, <2>3
<1>4. ReturnedWithinSold'
  BY <1>3 DEF ReturnedWithinSold, AlreadyReturned
<1>5. Fits'
  BY <1>1 DEF Fits
<1> QED
  BY <1>2, <1>4, <1>5 DEF AloneInv

(* An invoice nothing is returned of is written.                            *)
LEMMA AloneByInvoice ==
  ASSUME AloneInv, AloneStep, SalesInv', UNCHANGED <<return, asked>>,
         NEW i \in Invoice, Returns(i) = {}, NEW row \in InvoiceRow,
         invoice' = [invoice EXCEPT ![i] = row]
  PROVE  AloneInv'
<1>1. /\ \A q \in Asker : asked'[q] = Null
      /\ invoice'[i] = row /\ \A x \in Invoice \ {i} : invoice'[x] = invoice[x]
      /\ \A x \in Invoice : Returns(x)' = Returns(x)
  BY DEF AloneInv, AloneStep, SalesInv, SalesShapes, Returns
<1>2. ReturnsHaveInvoice'
  BY <1>1 DEF AloneInv, ReturnsHaveInvoice, Returns
<1>3. ASSUME NEW x \in Invoice, invoice'[x] # Null PROVE AlreadyReturned(x)' =< invoice'[x].qty
  <2>1. AlreadyReturned(x)' = AlreadyReturned(x)
    BY <1>1, SameReturned
  <2>2. CASE x = i
    <3>1. AlreadyReturned(x) = 0
      BY <2>2, SumEmpty DEF AlreadyReturned
    <3>2. row.qty \in Nat
      BY DEF InvoiceRow
    <3> QED
      BY <1>1, <2>1, <2>2, <3>1, <3>2
  <2>3. CASE x # i
    BY <1>1, <1>3, <2>1, <2>3 DEF AloneInv, ReturnedWithinSold, AlreadyReturned
  <2> QED
    BY <2>2, <2>3
<1>4. ReturnedWithinSold'
  BY <1>3 DEF ReturnedWithinSold, AlreadyReturned
<1>5. Fits'
  BY <1>1 DEF Fits
<1> QED
  BY <1>2, <1>4, <1>5 DEF AloneInv

LEMMA AloneSell ==
  ASSUME AloneInv, AloneStep, SalesInv', NEW i \in Invoice, NEW l \in Loc,
         NEW S \in SUBSET Piece, Sell(i, l, S) \/ EditSale(i, l, S)
  PROVE  AloneInv'
<1> DEFINE row == [loc |-> l, qty |-> Cardinality(S)]
<1>1. S # {}
  BY DEF Sell, EditSale, Sellable
<1>2. row \in InvoiceRow
  BY <1>1, PiecesCounted DEF InvoiceRow
<1>3. Returns(i) = {}
  <2>1. CASE Sell(i, l, S)
    <3>1. i \notin issued /\ invoice[i] = Null
      BY <2>1 DEF Sell, AloneInv, SalesInv, SalesShapes
    <3> QED
      BY <3>1, SalesNull DEF Returns, AloneInv, ReturnsHaveInvoice
  <2> QED
    BY <2>1 DEF EditSale
<1>4. invoice' = [invoice EXCEPT ![i] = row] /\ UNCHANGED <<return, asked>>
  BY DEF Sell, EditSale
<1> QED
  BY ONLY <1>2, <1>3, <1>4, AloneInv, AloneStep, SalesInv', i \in Invoice, AloneByInvoice

LEMMA AloneDelete ==
  ASSUME AloneInv, AloneStep, SalesInv', NEW i \in Invoice, DeleteSale(i)
  PROVE  AloneInv'
<1>1. /\ \A q \in Asker : asked'[q] = Null
      /\ invoice'[i] = Null /\ \A x \in Invoice \ {i} : invoice'[x] = invoice[x]
      /\ \A t \in Return : return'[t] = IF t \in Returns(i) THEN Null ELSE return[t]
  BY DEF AloneInv, AloneStep, SalesInv, SalesShapes, DeleteSale
<1>2. ReturnsHaveInvoice'
  <2>1. ASSUME NEW t \in Return, return'[t] # Null, return'[t].inv # Null
        PROVE  invoice'[return'[t].inv] # Null
    <3>1. return'[t] = return[t] /\ return[t].inv # i
      BY <1>1, <2>1 DEF Returns
    <3>2. return[t].inv \in Invoice
      BY <2>1, <3>1 DEF AloneInv, SalesInv, SalesShapes, ReturnRow
    <3> QED
      BY <1>1, <2>1, <3>1, <3>2 DEF AloneInv, ReturnsHaveInvoice
  <2> QED
    BY <2>1 DEF ReturnsHaveInvoice
<1>3. ASSUME NEW x \in Invoice, invoice'[x] # Null PROVE AlreadyReturned(x)' =< invoice'[x].qty
  <2>1. x # i /\ invoice'[x] = invoice[x]
    BY <1>1, <1>3
  <2>2. Returns(x)' = Returns(x) /\ \A t \in Returns(x) : return'[t] = return[t]
    BY <1>1, <2>1 DEF Returns
  <2>3. AlreadyReturned(x)' = AlreadyReturned(x)
    BY ONLY <2>2, SameReturned
  <2> QED
    BY <1>3, <2>1, <2>3 DEF AloneInv, ReturnedWithinSold, AlreadyReturned
<1>4. ReturnedWithinSold'
  BY <1>3 DEF ReturnedWithinSold, AlreadyReturned
<1>5. Fits'
  BY <1>1 DEF Fits
<1> QED
  BY <1>2, <1>4, <1>5 DEF AloneInv

(* Nothing was asked before a request asks, and nothing is after.           *)
LEMMA AloneAsk ==
  ASSUME AloneInv, AloneStep, SalesInv', NEW r \in Asker, NEW i \in Invoice,
         NEW S \in SUBSET Piece, AskReturn(r, i, S)
  PROVE  AloneInv'
<1> PICK a : a = [inv |-> i, loc |-> invoice[i].loc, pieces |-> S]
  OBVIOUS
<1>1. /\ UNCHANGED <<invoice, return>> /\ asked' = [asked EXCEPT ![r] = a]
      /\ AlreadyReturned(i) + Cardinality(S) =< invoice[i].qty
      /\ a.inv = i /\ a.pieces = S /\ invoice[i] \in InvoiceRow /\ S # {}
  BY DEF AskReturn, AloneInv, SalesInv, SalesShapes
<1>2. a # Null
  <2>1. invoice[i].loc \in Loc
    BY <1>1 DEF InvoiceRow
  <2>2. a \in AskedReturn
    BY <1>1, <2>1 DEF AskedReturn
  <2> QED
    BY <2>2, SalesNull
<1>3. asked'[r] = a /\ \A q \in Asker \ {r} : asked'[q] = asked[q]
  BY <1>1 DEF AloneInv, SalesInv, SalesShapes
<1>4. \A q \in Asker \ {r} : asked'[q] = Null
  BY <1>2, <1>3 DEF AloneStep
<1>5. AlreadyReturned(i)' = AlreadyReturned(i)
  BY <1>1 DEF AlreadyReturned, Returns
<1>6. Fits'
  BY <1>1, <1>3, <1>4, <1>5 DEF Fits
<1>7. ReturnsHaveInvoice' /\ ReturnedWithinSold'
  BY <1>1 DEF AloneInv, ReturnsHaveInvoice, ReturnedWithinSold, Returns
<1> QED
  BY <1>6, <1>7 DEF AloneInv

LEMMA AloneReturn ==
  ASSUME AloneInv, AloneStep, SalesInv', NEW r \in Asker, NEW t \in Return,
         NEW e \in Expiry, ReturnSale(r, t, e)
  PROVE  AloneInv'
<1> PICK a : a = asked[r]
  OBVIOUS
<1> PICK n : n = Cardinality(a.pieces)
  OBVIOUS
<1> PICK row : row = [inv |-> a.inv, loc |-> a.loc, qty |-> n]
  OBVIOUS
<1>1. /\ a # Null /\ t \notin issued /\ invoice[a.inv] # Null /\ UNCHANGED invoice
      /\ return' = [return EXCEPT ![t] = row]
  BY DEF ReturnSale
<1>2. a \in AskedReturn /\ return[t] = Null
  BY <1>1 DEF AloneInv, SalesInv, SalesShapes
<1>3. a.inv \in Invoice /\ a.loc \in Loc /\ a.pieces \in (SUBSET Piece) \ {{}}
  BY ONLY <1>2 DEF AskedReturn
<1>4. n \in Nat \ {0}
  BY <1>3, PiecesCounted
<1>5. row.inv = a.inv /\ row.qty = n /\ row \in ReturnRow /\ row # Null
  BY <1>3, <1>4, SalesNull DEF ReturnRow
<1>6. /\ return'[t] = row /\ \A x \in Return \ {t} : return'[x] = return[x]
      /\ \A q \in Asker : asked'[q] = Null
  BY <1>1 DEF AloneStep, AloneInv, SalesInv, SalesShapes
<1>7. ReturnsHaveInvoice'
  BY <1>1, <1>5, <1>6 DEF AloneInv, ReturnsHaveInvoice
<1>8. ASSUME NEW i \in Invoice, invoice'[i] # Null PROVE AlreadyReturned(i)' =< invoice'[i].qty
  <2>1. /\ AlreadyReturned(i) \in Int /\ AlreadyReturned(i)' \in Int
        /\ row.inv # i => AlreadyReturned(i)' =< AlreadyReturned(i)
        /\ row.inv = i => AlreadyReturned(i)' = AlreadyReturned(i) + n
    BY <1>1, <1>2, <1>5, OneReturnChanged DEF AloneInv
  <2>2. AlreadyReturned(i) =< invoice[i].qty
    BY <1>1, <1>8 DEF AloneInv, ReturnedWithinSold, AlreadyReturned
  <2>3. a.inv = i => AlreadyReturned(i) + n =< invoice[i].qty
    BY <1>1 DEF AloneInv, Fits
  <2>4. invoice[i].qty \in Int /\ invoice'[i] = invoice[i]
    BY <1>1, <1>8 DEF AloneInv, SalesInv, SalesShapes, InvoiceRow
  <2> QED
    BY <1>5, <2>1, <2>2, <2>3, <2>4
<1>9. ReturnedWithinSold'
  BY <1>8 DEF ReturnedWithinSold, AlreadyReturned
<1>10. Fits'
  BY <1>6 DEF Fits
<1> QED
  BY <1>7, <1>9, <1>10 DEF AloneInv

LEMMA AloneHolds ==
  ASSUME AloneInv, SalesNext, AloneStep
  PROVE  AloneInv'
<1>0. SalesInv'
  BY SalesStep DEF AloneInv
<1>1. ASSUME NEW r \in Asker, RefuseReturn(r) PROVE AloneInv'
  <2>1. (\A q \in Asker : asked'[q] = Null) /\ UNCHANGED <<invoice, return>>
    BY <1>1 DEF RefuseReturn, AloneStep
  <2> QED
    BY <1>0, <2>1
       DEF AloneInv, Fits, ReturnsHaveInvoice, ReturnedWithinSold, Returns
<1>2. ASSUME NEW t \in Return, NEW l \in Loc, NEW S \in SUBSET Piece, StandaloneReturn(t, l, S)
      PROVE  AloneInv'
  <2> PICK row : row = [inv |-> Null, loc |-> l, qty |-> Cardinality(S)]
    OBVIOUS
  <2>1. row \in ReturnRow /\ row.inv = Null
    BY <1>2, PiecesCounted DEF ReturnRow, StandaloneReturn, Restorable
  <2>2. return' = [return EXCEPT ![t] = row] /\ UNCHANGED invoice /\ UNCHANGED asked
    BY <1>2 DEF StandaloneReturn
  <2> QED
    BY <1>0, <2>1, <2>2, AloneByReturn
<1>3. ASSUME NEW t \in Return, NEW l \in Loc, NEW S \in SUBSET Piece, EditReturn(t, l, S)
      PROVE  AloneInv'
  <2> PICK row : row = [inv |-> Null, loc |-> l, qty |-> Cardinality(S)]
    OBVIOUS
  <2>0. SalesInv
    BY DEF AloneInv
  <2>1. return' = [return EXCEPT ![t] = row] /\ row.inv = Null
    BY <1>3, <2>0, EditedReturn
  <2>2. UNCHANGED invoice /\ UNCHANGED asked
    BY <1>3 DEF EditReturn
  <2>3. return'[t] = row
    BY <2>0, <2>1 DEF SalesInv, SalesShapes
  <2>4. row \in ReturnRow \cup {Null}
    BY <1>0, <2>3 DEF SalesInv, SalesShapes
  <2> QED
    BY <1>0, <2>1, <2>2, <2>4, AloneByReturn
<1>4. ASSUME NEW t \in Return, DeleteReturn(t) PROVE AloneInv'
  <2>1. return' = [return EXCEPT ![t] = Null] /\ UNCHANGED invoice /\ UNCHANGED asked
    BY <1>4 DEF DeleteReturn
  <2> QED
    BY <1>0, <2>1, AloneByReturn
<1> QED
  BY <1>0, <1>1, <1>2, <1>3, <1>4, AloneSell, AloneDelete, AloneAsk, AloneReturn DEF SalesNext
-----------------------------------------------------------------------------
(* Sales in the worlds they are checked in. *)

SalesWorld == SalesInv /\ (world = "sales_alone" => AloneInv)

LEMMA SalesWorldStep ==
  ASSUME SalesWorld, [Next]_vars
  PROVE  SalesWorld'
<1>1. CASE UNCHANGED salesVars /\ UNCHANGED world
  <2>1. UNCHANGED <<tracking, invoice, return, issued, rows, asked>>
    BY <1>1 DEF salesVars
  <2>2. SalesInv'
    BY <2>1, SalesStep DEF SalesWorld, salesVars
  <2>3. world = "sales_alone" => AloneInv'
    BY <2>1, <2>2 DEF SalesWorld, AloneInv, Fits, ReturnsHaveInvoice, ReturnedWithinSold,
                      Returns, AlreadyReturned
  <2> QED
    BY <1>1, <2>2, <2>3 DEF SalesWorld
<1>2. CASE SalesNext /\ UNCHANGED world /\ (world = "sales_alone" => AloneStep)
  BY <1>2, SalesStep, AloneHolds DEF SalesWorld
<1>3. CASE UNCHANGED vars
  BY <1>1, <1>3 DEF vars
<1>4. CASE Next
  BY <1>1, <1>2, <1>4 DEF Next, OnAttendance, AloneStep
<1> QED
  BY <1>3, <1>4

LEMMA SalesWorldFirst ==
  ASSUME Init
  PROVE  SalesWorld
<1>1. SalesInit
  BY DEF Init
<1>2. SalesInv
  BY <1>1, SalesAtFirst
<1>3. /\ \A i \in Invoice : invoice[i] = Null
      /\ \A t \in Return : return[t] = Null
      /\ \A r \in Asker : asked[r] = Null
  BY <1>1 DEF SalesInit
<1>4. ReturnsHaveInvoice /\ ReturnedWithinSold /\ Fits
  BY <1>3 DEF ReturnsHaveInvoice, ReturnedWithinSold, Fits
<1> QED
  BY <1>2, <1>4 DEF SalesWorld, AloneInv

LEMMA SalesWorlds == Spec => []SalesWorld
<1>1. Init => SalesWorld
  BY SalesWorldFirst
<1>2. SalesWorld /\ [Next]_vars => SalesWorld'
  BY SalesWorldStep
<1> QED
  BY <1>1, <1>2, PTL DEF Spec

(* Whatever is sold, edited, returned and deleted, each document that       *)
(* exists has moved its quantity at its place, one that is gone has moved   *)
(* nothing, and a piece that counts as sold is on an invoice that exists    *)
(* (sales_service.py: create_sale, return_sale; document_edit_service.py:   *)
(* purge_sale, purge_sales_return).                                         *)
THEOREM DocumentsUndoThemselves == Spec => []SalesAddUp
<1>1. SalesWorld => SalesAddUp
  BY SalesHold DEF SalesWorld
<1> QED
  BY <1>1, SalesWorlds, PTL

(* Where no request for a return is interrupted between what it reads and   *)
(* what it commits, no more comes back of an invoice than it sold, however  *)
(* often it is returned and edited (sales_service.py: return_sale, which    *)
(* reads what was returned before without a lock).                          *)
THEOREM ReturnsFit == Spec => []ReturnedWithinSoldAlone
<1>1. SalesWorld => ReturnedWithinSoldAlone
  BY DEF SalesWorld, AloneInv, ReturnedWithinSoldAlone
<1> QED
  BY <1>1, SalesWorlds, PTL
-----------------------------------------------------------------------------
(* Coupons: rows, and the documents of custody. *)

CouponShapes ==
    /\ load \in [Load -> LoadRow \cup {Null}]
    /\ sheet \in [Sheet -> SheetRow \cup {Null}]
    /\ bill \in [Bill -> BillRow \cup {Null}]
    /\ brought \in [CouponReceipt -> ReceiptRow \cup {Null}]

(* What a row of a sheet refers to.                                         *)
RowFits(k, s, L) ==
    /\ L[k.load] # Null /\ s \in L[k.load].book /\ L[k.load].dir = "out" /\ L[k.load].rep = k.rep
    /\ k.status = "given" <=> k.bill # Null
    /\ k.status = "returned" <=> k.back # Null
    /\ k.back # Null => L[k.back] # Null /\ L[k.back].dir = "in" /\ L[k.back].rep = k.rep
                        /\ s \in L[k.back].book

GivenFits(k, s, B) ==
    k.status = "given" => B[k.bill] # Null /\ s \in B[k.bill].book /\ B[k.bill].rep = k.rep

RejectedEmpty ==
    \A c \in CouponReceipt :
        brought[c] # Null /\ brought[c].status = "rejected" => brought[c].on = NoLines

CouponInv ==
    /\ CouponShapes /\ RejectedEmpty /\ CustodyAddsUp
    /\ \A s \in Sheet : sheet[s] # Null => RowFits(sheet[s], s, load) /\ GivenFits(sheet[s], s, bill)

LEMMA SheetParts ==
  ASSUME NEW k \in SheetRow
  PROVE  /\ k.rep \in Rep /\ k.status \in {"with_rep", "returned", "given"}
         /\ k.load \in Load /\ k.back \in Load \cup {Null} /\ k.bill \in Bill \cup {Null}
         /\ k # Null
         /\ k = [rep |-> k.rep, status |-> k.status, load |-> k.load, back |-> k.back,
                 bill |-> k.bill]
BY CouponNull DEF SheetRow

LEMMA LoadParts ==
  ASSUME NEW x \in LoadRow
  PROVE  /\ x.dir \in {"out", "in"} /\ x.rep \in Rep /\ x.book \in Book /\ x # Null
         /\ x.book \in SUBSET Sheet /\ x.book # {} /\ IsFiniteSet(x.book)
         /\ Cardinality(x.book) \in Nat
<1>1. x.dir \in {"out", "in"} /\ x.rep \in Rep /\ x.book \in Book /\ x # Null
  BY CouponNull DEF LoadRow
<1>2. x.book \in SUBSET Sheet /\ x.book # {}
  BY <1>1, BookAssumption
<1>3. IsFiniteSet(x.book)
  BY <1>2, PaperAssumption, FS_Subset
<1> QED
  BY <1>1, <1>2, <1>3, FS_CardinalityType

(* A row whose status changes with the document it names.                   *)
ByBack(k, status, d) == [k EXCEPT !.status = status, !.back = d]
ByBill(k, status, i) == [k EXCEPT !.status = status, !.bill = i]

LEMMA ByBackRow ==
  ASSUME NEW k \in SheetRow, NEW x \in {"with_rep", "returned", "given"},
         NEW d \in Load \cup {Null}
  PROVE  /\ ByBack(k, x, d) \in SheetRow
         /\ ByBack(k, x, d).status = x /\ ByBack(k, x, d).back = d
         /\ ByBack(k, x, d).rep = k.rep /\ ByBack(k, x, d).load = k.load
         /\ ByBack(k, x, d).bill = k.bill
<1> PICK v : v = [k EXCEPT !.status = x]
  OBVIOUS
<1> PICK w : w = [v EXCEPT !.back = d]
  OBVIOUS
<1>1. ByBack(k, x, d) = w
  BY DEF ByBack
<1>2. v = [rep |-> k.rep, status |-> x, load |-> k.load, back |-> k.back, bill |-> k.bill]
  <2>1. k = [rep |-> k.rep, status |-> k.status, load |-> k.load, back |-> k.back,
             bill |-> k.bill]
    BY SheetParts
  <2> QED
    BY ONLY <2>1, v = [k EXCEPT !.status = x]
<1>3. w = [rep |-> k.rep, status |-> x, load |-> k.load, back |-> d, bill |-> k.bill]
  BY ONLY <1>2, w = [v EXCEPT !.back = d]
<1>4. w \in SheetRow
  BY <1>3, SheetParts DEF SheetRow
<1> QED
  BY <1>1, <1>3, <1>4

LEMMA ByBillRow ==
  ASSUME NEW k \in SheetRow, NEW x \in {"with_rep", "returned", "given"},
         NEW i \in Bill \cup {Null}
  PROVE  /\ ByBill(k, x, i) \in SheetRow
         /\ ByBill(k, x, i).status = x /\ ByBill(k, x, i).bill = i
         /\ ByBill(k, x, i).rep = k.rep /\ ByBill(k, x, i).load = k.load
         /\ ByBill(k, x, i).back = k.back
<1> PICK v : v = [k EXCEPT !.status = x]
  OBVIOUS
<1> PICK w : w = [v EXCEPT !.bill = i]
  OBVIOUS
<1>1. ByBill(k, x, i) = w
  BY DEF ByBill
<1>2. v = [rep |-> k.rep, status |-> x, load |-> k.load, back |-> k.back, bill |-> k.bill]
  <2>1. k = [rep |-> k.rep, status |-> k.status, load |-> k.load, back |-> k.back,
             bill |-> k.bill]
    BY SheetParts
  <2> QED
    BY ONLY <2>1, v = [k EXCEPT !.status = x]
<1>3. w = [rep |-> k.rep, status |-> x, load |-> k.load, back |-> k.back, bill |-> i]
  BY ONLY <1>2, w = [v EXCEPT !.bill = i]
<1>4. w \in SheetRow
  BY <1>3, SheetParts DEF SheetRow
<1> QED
  BY <1>1, <1>3, <1>4

(* What the documents say after one was added, or taken away.               *)
Weight(x, dir, r) == IF x # Null /\ x.dir = dir /\ x.rep = r THEN Cardinality(x.book) ELSE 0

LEMMA PaperChanged ==
  ASSUME CouponShapes, NEW d \in Load, NEW x \in LoadRow \cup {Null},
         load' = [load EXCEPT ![d] = x], load[d] = Null \/ x = Null,
         NEW dir, NEW r
  PROVE  /\ OnPaper(dir, r) \in Int /\ OnPaper(dir, r)' \in Int
         /\ Weight(x, dir, r) \in Int /\ Weight(load[d], dir, r) \in Int
         /\ OnPaper(dir, r)' = OnPaper(dir, r) + Weight(x, dir, r) - Weight(load[d], dir, r)
<1> PICK A : A = Documents(dir, r)
  OBVIOUS
<1> PICK B : B = Documents(dir, r)'
  OBVIOUS
<1> PICK f : f = [e \in A |-> Cardinality(load[e].book)]
  OBVIOUS
<1> PICK g : g = [e \in B |-> Cardinality(load'[e].book)]
  OBVIOUS
<1>1. /\ load \in [Load -> LoadRow \cup {Null}] /\ load' \in [Load -> LoadRow \cup {Null}]
      /\ load'[d] = x /\ \A e \in Load \ {d} : load'[e] = load[e]
  BY DEF CouponShapes
<1>2. /\ A = {e \in Load : load[e] # Null /\ load[e].dir = dir /\ load[e].rep = r}
      /\ B = {e \in Load : load'[e] # Null /\ load'[e].dir = dir /\ load'[e].rep = r}
  BY DEF Documents, Loads
<1>3. IsFiniteSet(A) /\ IsFiniteSet(B)
  BY <1>2, PaperAssumption, FS_Subset
<1>4. (\A e \in A : f[e] \in Nat) /\ (\A e \in B : g[e] \in Nat)
  BY <1>1, <1>2, LoadParts
<1>5. /\ A \ {d} = B \ {d} /\ (\A e \in B \ {d} : g[e] = f[e])
      /\ B \ {d} = A \ {d} /\ (\A e \in A \ {d} : f[e] = g[e])
  BY <1>1, <1>2
<1>6. /\ SumFunctionOnSet(f, A) \in Int /\ SumFunctionOnSet(g, B) \in Int
      /\ d \in B /\ d \notin A => SumFunctionOnSet(g, B) = SumFunctionOnSet(f, A) + g[d]
  BY ONLY <1>3, <1>4, <1>5, SumOneMoved
<1>7. d \in A /\ d \notin B => SumFunctionOnSet(f, A) = SumFunctionOnSet(g, B) + f[d]
  BY ONLY <1>3, <1>4, <1>5, SumOneMoved
<1>8. d \notin A /\ d \notin B => SumFunctionOnSet(f, A) = SumFunctionOnSet(g, B)
  <2>1. SUFFICES ASSUME d \notin A, d \notin B PROVE A = B /\ \A e \in A : f[e] = g[e]
    BY <1>3, SumSame
  <2> QED
    BY <1>5, <2>1
<1>9. /\ OnPaper(dir, r) = SumFunctionOnSet(f, A)
      /\ OnPaper(dir, r)' = SumFunctionOnSet(g, B)
  BY DEF OnPaper
<1>10. /\ Weight(x, dir, r) = (IF d \in B THEN g[d] ELSE 0)
       /\ Weight(load[d], dir, r) = (IF d \in A THEN f[d] ELSE 0)
       /\ d \notin A \/ d \notin B
  BY <1>1, <1>2 DEF Weight
<1>11. Weight(x, dir, r) \in Int /\ Weight(load[d], dir, r) \in Int
  BY <1>4, <1>10
<1>12. CASE d \in A
  BY <1>4, <1>6, <1>7, <1>9, <1>10, <1>11, <1>12
<1>13. CASE d \in B
  BY <1>4, <1>6, <1>9, <1>10, <1>11, <1>13
<1>14. CASE d \notin A /\ d \notin B
  BY <1>6, <1>8, <1>9, <1>10, <1>11, <1>14
<1> QED
  BY <1>12, <1>13, <1>14

LEMMA PaperStill ==
  ASSUME UNCHANGED load, NEW dir, NEW r
  PROVE  OnPaper(dir, r)' = OnPaper(dir, r)
BY DEF OnPaper, Documents, Loads

(* Counting sheets.                                                         *)
LEMMA SheetsCounted ==
  ASSUME NEW A \in SUBSET Sheet, NEW B \in SUBSET Sheet, A \cap B = {}
  PROVE  /\ Cardinality(A) \in Int /\ Cardinality(B) \in Int
         /\ Cardinality(A \cup B) = Cardinality(A) + Cardinality(B)
<1>1. IsFiniteSet(A) /\ IsFiniteSet(B)
  BY PaperAssumption, FS_Subset
<1>2. Cardinality(A \cup B) = Cardinality(A) + Cardinality(B) - Cardinality(A \cap B)
  BY <1>1, FS_Union
<1>3. Cardinality(A \cap B) = 0
  BY FS_EmptySet
<1>4. Cardinality(A) \in Nat /\ Cardinality(B) \in Nat
  BY <1>1, FS_CardinalityType
<1> QED
  BY <1>2, <1>3, <1>4

(* The sheets of one document move into a custody, or out of it.            *)
CustodyMoves(d, x, y, more) ==
    /\ load' = [load EXCEPT ![d] = x] /\ (load[d] = Null \/ x = Null)
    /\ y \in LoadRow /\ y = (IF x # Null THEN x ELSE load[d])
    /\ more <=> ((y.dir = "out") <=> (x # Null))
    /\ \A r \in Rep :
          /\ r # y.rep => Custody(r)' = Custody(r)
          /\ r = y.rep /\ more =>
                y.book \cap Custody(r) = {} /\ Custody(r)' = Custody(r) \cup y.book
          /\ r = y.rep /\ ~ more =>
                y.book \cap Custody(r)' = {} /\ Custody(r) = Custody(r)' \cup y.book

LEMMA CustodyChanged ==
  ASSUME CouponInv, NEW d \in Load, NEW x \in LoadRow \cup {Null}, NEW y, NEW more,
         CustodyMoves(d, x, y, more)
  PROVE  CustodyAddsUp'
<1> SUFFICES ASSUME NEW r \in Rep
             PROVE  OnPaper("out", r)' - OnPaper("in", r)' = Cardinality(Custody(r)')
  BY DEF CustodyAddsUp
<1>0. /\ load' = [load EXCEPT ![d] = x] /\ (load[d] = Null \/ x = Null)
      /\ y \in LoadRow /\ y = (IF x # Null THEN x ELSE load[d])
      /\ more <=> ((y.dir = "out") <=> (x # Null))
      /\ r # y.rep => Custody(r)' = Custody(r)
      /\ r = y.rep /\ more =>
            y.book \cap Custody(r) = {} /\ Custody(r)' = Custody(r) \cup y.book
      /\ r = y.rep /\ ~ more =>
            y.book \cap Custody(r)' = {} /\ Custody(r) = Custody(r)' \cup y.book
  BY DEF CustodyMoves
<1>1. /\ OnPaper("out", r) \in Int /\ OnPaper("in", r) \in Int
      /\ Weight(x, "out", r) \in Int /\ Weight(load[d], "out", r) \in Int
      /\ Weight(x, "in", r) \in Int /\ Weight(load[d], "in", r) \in Int
      /\ OnPaper("out", r)' = OnPaper("out", r) + Weight(x, "out", r) - Weight(load[d], "out", r)
      /\ OnPaper("in", r)' = OnPaper("in", r) + Weight(x, "in", r) - Weight(load[d], "in", r)
  <2>1. /\ CouponShapes /\ load' = [load EXCEPT ![d] = x] /\ (load[d] = Null \/ x = Null)
        /\ d \in Load /\ x \in LoadRow \cup {Null}
    BY <1>0 DEF CouponInv
  <2>2. /\ OnPaper("out", r) \in Int /\ OnPaper("out", r)' \in Int
        /\ Weight(x, "out", r) \in Int /\ Weight(load[d], "out", r) \in Int
        /\ OnPaper("out", r)' = OnPaper("out", r) + Weight(x, "out", r) - Weight(load[d], "out", r)
    BY ONLY <2>1, PaperChanged
  <2>3. /\ OnPaper("in", r) \in Int /\ OnPaper("in", r)' \in Int
        /\ Weight(x, "in", r) \in Int /\ Weight(load[d], "in", r) \in Int
        /\ OnPaper("in", r)' = OnPaper("in", r) + Weight(x, "in", r) - Weight(load[d], "in", r)
    BY ONLY <2>1, PaperChanged
  <2> QED
    BY <2>2, <2>3
<1>2. OnPaper("out", r) - OnPaper("in", r) = Cardinality(Custody(r))
  BY DEF CouponInv, CustodyAddsUp
<1>3. /\ y.dir \in {"out", "in"} /\ y.book \in SUBSET Sheet /\ Cardinality(y.book) \in Nat
      /\ Custody(r) \in SUBSET Sheet /\ Custody(r)' \in SUBSET Sheet
  BY <1>0, LoadParts DEF Custody
<1>4. CASE r # y.rep
  <2>1. Weight(x, "out", r) = Weight(load[d], "out", r) /\ Weight(x, "in", r) = Weight(load[d], "in", r)
    BY <1>0, <1>4 DEF Weight
  <2> QED
    BY <1>0, <1>1, <1>2, <1>4, <2>1
<1>5. CASE r = y.rep /\ more
  <2>1. Cardinality(Custody(r)') = Cardinality(Custody(r)) + Cardinality(y.book)
    <3>1. /\ y.book \cap Custody(r) = {} /\ Custody(r) \cap y.book = {}
          /\ Custody(r)' = Custody(r) \cup y.book
      BY <1>0, <1>5
    <3>2. Cardinality(Custody(r) \cup y.book) = Cardinality(Custody(r)) + Cardinality(y.book)
      BY <1>3, <3>1, SheetsCounted
    <3> QED
      BY <3>1, <3>2
  <2>2. CASE x # Null
    <3>1. /\ Weight(x, "out", r) = Cardinality(y.book) /\ Weight(load[d], "out", r) = 0
          /\ Weight(x, "in", r) = 0 /\ Weight(load[d], "in", r) = 0
      BY <1>0, <1>3, <1>5, <2>2 DEF Weight
    <3> QED
      BY <1>1, <1>2, <1>3, <2>1, <3>1
  <2>3. CASE x = Null
    <3>1. /\ Weight(x, "out", r) = 0 /\ Weight(load[d], "out", r) = 0
          /\ Weight(x, "in", r) = 0 /\ Weight(load[d], "in", r) = Cardinality(y.book)
      BY <1>0, <1>3, <1>5, <2>3, LoadParts DEF Weight
    <3> QED
      BY <1>1, <1>2, <1>3, <2>1, <3>1
  <2> QED
    BY <2>2, <2>3
<1>6. CASE r = y.rep /\ ~ more
  <2>1. /\ Cardinality(Custody(r)) = Cardinality(Custody(r)') + Cardinality(y.book)
        /\ Cardinality(Custody(r)') \in Int
    <3> PICK c : c = Custody(r)'
      OBVIOUS
    <3>1. c \cap y.book = {} /\ Custody(r) = c \cup y.book
      BY <1>0, <1>6
    <3>2. Cardinality(c) \in Int /\ Cardinality(c \cup y.book) = Cardinality(c) + Cardinality(y.book)
      BY <1>3, <3>1, SheetsCounted
    <3> QED
      BY <3>1, <3>2
  <2>2. CASE x # Null
    <3>1. /\ Weight(x, "out", r) = 0 /\ Weight(load[d], "out", r) = 0
          /\ Weight(x, "in", r) = Cardinality(y.book) /\ Weight(load[d], "in", r) = 0
      BY <1>0, <1>3, <1>6, <2>2 DEF Weight
    <3> QED
      BY <1>1, <1>2, <1>3, <2>1, <3>1
  <2>3. CASE x = Null
    <3>1. /\ Weight(x, "out", r) = 0 /\ Weight(load[d], "out", r) = Cardinality(y.book)
          /\ Weight(x, "in", r) = 0 /\ Weight(load[d], "in", r) = 0
      BY <1>0, <1>3, <1>6, <2>3, LoadParts DEF Weight
    <3> QED
      BY <1>1, <1>2, <1>3, <2>1, <3>1
  <2> QED
    BY <2>2, <2>3
<1> QED
  BY <1>4, <1>5, <1>6
-----------------------------------------------------------------------------
(* Coupons: each step. *)

LEMMA CustodyStepHolds ==
  ASSUME CouponInv, UNCHANGED <<bill, brought>>,
         NEW d \in Load, NEW x \in LoadRow \cup {Null}, load' = [load EXCEPT ![d] = x],
         NEW h \in [Sheet -> SheetRow \cup {Null}], h = sheet',
         \A s \in Sheet : h[s] # Null => RowFits(h[s], s, load') /\ GivenFits(h[s], s, bill),
         CustodyAddsUp'
  PROVE  CouponInv'
<1>1. CouponShapes'
  BY DEF CouponInv, CouponShapes
<1>2. RejectedEmpty'
  BY DEF CouponInv, RejectedEmpty
<1> QED
  BY <1>1, <1>2 DEF CouponInv

LEMMA IssueHolds ==
  ASSUME CouponInv, NEW d \in Load, NEW r \in Rep, NEW B \in Book, Issue(d, r, B)
  PROVE  CouponInv'
<1> PICK x : x = [dir |-> "out", rep |-> r, book |-> B]
  OBVIOUS
<1> PICK k : k = [rep |-> r, status |-> "with_rep", load |-> d, back |-> Null, bill |-> Null]
  OBVIOUS
<1> PICK h : h = sheet'
  OBVIOUS
<1>1. /\ load' = [load EXCEPT ![d] = x] /\ load[d] = Null /\ UNCHANGED <<bill, brought>>
      /\ h = [s \in Sheet |-> IF s \notin B THEN sheet[s] ELSE k]
      /\ \A s \in B : sheet[s] = Null \/ (sheet[s] # Null /\ sheet[s].status = "returned")
  BY DEF Issue, Is
<1>2. /\ x \in LoadRow /\ x.dir = "out" /\ x.rep = r /\ x.book = B /\ x # Null
      /\ k \in SheetRow /\ k.rep = r /\ k.status = "with_rep" /\ k.load = d /\ k.back = Null
      /\ k.bill = Null /\ k # Null
  BY CouponNull DEF LoadRow, SheetRow
<1>3. /\ load'[d] = x /\ (\A e \in Load \ {d} : load'[e] = load[e])
      /\ sheet \in [Sheet -> SheetRow \cup {Null}]
  BY <1>1 DEF CouponInv, CouponShapes
<1>4. B \in SUBSET Sheet
  BY BookAssumption
<1>5. /\ \A s \in Sheet \ B : h[s] = sheet[s]
      /\ \A s \in B : h[s] = k
      /\ h \in [Sheet -> SheetRow \cup {Null}]
  BY <1>1, <1>2, <1>3, <1>4
<1>6. ASSUME NEW s \in Sheet, h[s] # Null
      PROVE  RowFits(h[s], s, load') /\ GivenFits(h[s], s, bill)
  <2>1. CASE s \in B
    BY <1>2, <1>3, <1>5, <2>1 DEF RowFits, GivenFits
  <2>2. CASE s \notin B
    <3> PICK q : q = sheet[s]
      OBVIOUS
    <3>1. h[s] = q /\ q \in SheetRow /\ RowFits(q, s, load) /\ GivenFits(q, s, bill)
      BY <1>3, <1>5, <1>6, <2>2 DEF CouponInv
    <3>2. q.load \in Load /\ q.back \in Load \cup {Null}
      BY <3>1, SheetParts
    <3>3. RowFits(q, s, load')
      BY <1>1, <1>3, <3>1, <3>2 DEF RowFits
    <3> QED
      BY <3>1, <3>3
  <2> QED
    BY <2>1, <2>2
<1>7. ASSUME NEW q \in Rep
      PROVE  IF q # x.rep THEN Custody(q)' = Custody(q)
             ELSE B \cap Custody(q) = {} /\ Custody(q)' = Custody(q) \cup B
  <2>1. Custody(q) = {s \in Sheet : sheet[s] # Null /\ sheet[s].status # "returned" /\ sheet[s].rep = q}
    BY DEF Custody, InCustody
  <2>2. Custody(q)' = {s \in Sheet : h[s] # Null /\ h[s].status # "returned" /\ h[s].rep = q}
    BY DEF Custody, InCustody
  <2> QED
    BY <1>1, <1>2, <1>4, <1>5, <2>1, <2>2
<1>8. CustodyAddsUp'
  <2>1. CustodyMoves(d, x, x, TRUE)
    BY <1>1, <1>2, <1>7 DEF CustodyMoves
  <2> QED
    BY <1>2, <2>1, CustodyChanged
<1> QED
  BY <1>1, <1>2, <1>5, <1>6, <1>8, CustodyStepHolds

LEMMA GiveBackHolds ==
  ASSUME CouponInv, NEW d \in Load, NEW r \in Rep, NEW B \in Book, GiveBack(d, r, B)
  PROVE  CouponInv'
<1> PICK x : x = [dir |-> "in", rep |-> r, book |-> B]
  OBVIOUS
<1> PICK h : h = sheet'
  OBVIOUS
<1>1. /\ load' = [load EXCEPT ![d] = x] /\ load[d] = Null /\ UNCHANGED <<bill, brought>>
      /\ h = [s \in Sheet |-> IF s \notin B THEN sheet[s] ELSE ByBack(sheet[s], "returned", d)]
      /\ \A s \in B : sheet[s] # Null /\ sheet[s].status = "with_rep" /\ sheet[s].rep = r
  BY DEF GiveBack, HeldBy, Is, ByBack
<1>2. /\ x \in LoadRow /\ x.dir = "in" /\ x.rep = r /\ x.book = B /\ x # Null
  BY CouponNull DEF LoadRow
<1>3. /\ load'[d] = x /\ (\A e \in Load \ {d} : load'[e] = load[e])
      /\ sheet \in [Sheet -> SheetRow \cup {Null}] /\ d # Null
  BY <1>1, CouponNull DEF CouponInv, CouponShapes
<1>4. B \in SUBSET Sheet
  BY BookAssumption
<1>5. /\ \A s \in Sheet \ B : h[s] = sheet[s]
      /\ \A s \in B : h[s] = ByBack(sheet[s], "returned", d)
  BY <1>1, <1>4
<1>6. \A s \in B : /\ sheet[s] \in SheetRow /\ h[s] \in SheetRow /\ h[s] # Null
                   /\ h[s].status = "returned" /\ h[s].back = d /\ h[s].rep = r
                   /\ h[s].load = sheet[s].load /\ h[s].bill = sheet[s].bill
  BY <1>1, <1>3, <1>4, <1>5, ByBackRow, SheetParts
<1>7. h \in [Sheet -> SheetRow \cup {Null}]
  <2>1. h = [s \in Sheet |-> h[s]]
    BY <1>1
  <2>2. \A s \in Sheet : h[s] \in SheetRow \cup {Null}
    BY <1>3, <1>5, <1>6
  <2> QED
    BY <2>1, <2>2
<1>8. ASSUME NEW s \in Sheet, h[s] # Null
      PROVE  RowFits(h[s], s, load') /\ GivenFits(h[s], s, bill)
  <2> PICK q : q = sheet[s]
    OBVIOUS
  <2>1. q \in SheetRow /\ RowFits(q, s, load) /\ GivenFits(q, s, bill)
    BY <1>1, <1>3, <1>5, <1>6, <1>8 DEF CouponInv
  <2>2. q.load \in Load /\ q.back \in Load \cup {Null}
    BY <2>1, SheetParts
  <2>3. RowFits(q, s, load')
    BY <1>1, <1>3, <2>1, <2>2 DEF RowFits
  <2>4. CASE s \in B
    <3>1. q.status = "with_rep" /\ q.rep = r
      BY <1>1, <2>4
    <3>2. RowFits(h[s], s, load')
      BY <1>2, <1>3, <1>6, <2>3, <2>4, <3>1 DEF RowFits
    <3> QED
      BY <1>6, <2>4, <3>2 DEF GivenFits
  <2>5. CASE s \notin B
    BY <1>5, <2>1, <2>3, <2>5
  <2> QED
    BY <2>4, <2>5
<1>9. ASSUME NEW q \in Rep
      PROVE  IF q # x.rep THEN Custody(q)' = Custody(q)
             ELSE B \cap Custody(q)' = {} /\ Custody(q) = Custody(q)' \cup B
  <2>1. Custody(q) = {s \in Sheet : sheet[s] # Null /\ sheet[s].status # "returned" /\ sheet[s].rep = q}
    BY DEF Custody, InCustody
  <2>2. Custody(q)' = {s \in Sheet : h[s] # Null /\ h[s].status # "returned" /\ h[s].rep = q}
    BY DEF Custody, InCustody
  <2> QED
    BY <1>1, <1>2, <1>4, <1>5, <1>6, <2>1, <2>2
<1>10. CustodyAddsUp'
  <2>1. CustodyMoves(d, x, x, FALSE)
    BY <1>1, <1>2, <1>9 DEF CustodyMoves
  <2> QED
    BY <1>2, <2>1, CustodyChanged
<1> QED
  BY <1>1, <1>2, <1>7, <1>8, <1>10, CustodyStepHolds
(* Every sheet of a document that is deleted is where it put it.            *)
LEMMA DeleteLoadHolds ==
  ASSUME CouponInv, NEW d \in Load, DeleteLoad(d)
  PROVE  CouponInv'
<1> PICK y : y = load[d]
  OBVIOUS
<1> PICK h : h = sheet'
  OBVIOUS
<1> DEFINE out == y.dir = "out"
<1>1. /\ load' = [load EXCEPT ![d] = Null] /\ y # Null /\ UNCHANGED <<bill, brought>>
      /\ h = [s \in Sheet |-> IF s \notin y.book THEN sheet[s]
                              ELSE IF y.dir = "out" THEN Null
                              ELSE ByBack(sheet[s], "with_rep", Null)]
      /\ \A s \in y.book : sheet[s] # Null /\
            IF y.dir = "out" THEN /\ sheet[s].status = "with_rep" /\ sheet[s].rep = y.rep
                                  /\ sheet[s].load = d
            ELSE sheet[s].status = "returned" /\ sheet[s].back = d
  BY DEF DeleteLoad, Unmoved, HeldBy, Is, ByBack, Loads
<1>2. /\ load'[d] = Null /\ (\A e \in Load \ {d} : load'[e] = load[e])
      /\ sheet \in [Sheet -> SheetRow \cup {Null}] /\ d # Null /\ y \in LoadRow
  BY <1>1, CouponNull DEF CouponInv, CouponShapes
<1>3. /\ y.dir \in {"out", "in"} /\ y.book \in SUBSET Sheet
  BY <1>2, LoadParts
<1>4. /\ \A s \in Sheet \ y.book : h[s] = sheet[s]
      /\ \A s \in y.book : h[s] = IF y.dir = "out" THEN Null
                                  ELSE ByBack(sheet[s], "with_rep", Null)
  BY <1>1, <1>3
<1>5. \A s \in y.book : sheet[s] \in SheetRow /\ RowFits(sheet[s], s, load)
  BY <1>1, <1>2, <1>3 DEF CouponInv
<1>6. ASSUME y.dir # "out", NEW s \in y.book
      PROVE  /\ h[s] \in SheetRow /\ h[s] # Null /\ h[s].status = "with_rep"
             /\ h[s].back = Null /\ h[s].rep = sheet[s].rep /\ h[s].load = sheet[s].load
             /\ h[s].bill = sheet[s].bill /\ sheet[s].rep = y.rep
  <2>1. h[s] = ByBack(sheet[s], "with_rep", Null) /\ sheet[s].back = d
    BY <1>1, <1>4, <1>6
  <2>2. sheet[s].rep = y.rep
    BY <1>2, <1>5, <2>1 DEF RowFits
  <2>3. /\ h[s] \in SheetRow /\ h[s].status = "with_rep" /\ h[s].back = Null
        /\ h[s].rep = sheet[s].rep /\ h[s].load = sheet[s].load /\ h[s].bill = sheet[s].bill
    <3>1. sheet[s] \in SheetRow /\ "with_rep" \in {"with_rep", "returned", "given"}
          /\ Null \in Load \cup {Null}
      BY <1>5, <1>6
    <3> QED
      BY <2>1, <3>1, ByBackRow
  <2>4. h[s] # Null
    BY <2>3, SheetParts
  <2> QED
    BY <2>2, <2>3, <2>4
<1>7. h \in [Sheet -> SheetRow \cup {Null}]
  <2>1. h = [s \in Sheet |-> h[s]]
    BY <1>1
  <2>2. \A s \in Sheet : h[s] \in SheetRow \cup {Null}
    BY <1>2, <1>4, <1>6
  <2> QED
    BY <2>1, <2>2
<1>8. ASSUME NEW s \in Sheet, h[s] # Null
      PROVE  RowFits(h[s], s, load') /\ GivenFits(h[s], s, bill)
  <2> PICK q : q = sheet[s]
    OBVIOUS
  <2>1. q \in SheetRow /\ RowFits(q, s, load) /\ GivenFits(q, s, bill)
    BY <1>1, <1>2, <1>4, <1>5, <1>8 DEF CouponInv
  <2>2. q.load \in Load /\ q.back \in Load \cup {Null}
    BY <2>1, SheetParts
  <2>3. CASE s \in y.book
    <3>1. y.dir # "out" /\ q.load # d /\ q.status = "returned"
      BY <1>1, <1>4, <1>8, <2>1, <2>3 DEF RowFits
    <3>2. RowFits(h[s], s, load')
      BY <1>2, <1>6, <2>1, <2>2, <2>3, <3>1 DEF RowFits
    <3> QED
      BY <1>6, <2>3, <3>1, <3>2 DEF GivenFits
  <2>4. CASE s \notin y.book
    <3>1. q.load # d /\ q.back # d /\ h[s] = q
      BY <1>4, <2>1, <2>4, CouponNull DEF RowFits
    <3>2. RowFits(q, s, load')
      BY <1>2, <2>1, <2>2, <3>1 DEF RowFits
    <3> QED
      BY <2>1, <3>1, <3>2
  <2> QED
    BY <2>3, <2>4
<1>9. ASSUME NEW q \in Rep
      PROVE  IF q # y.rep THEN Custody(q)' = Custody(q)
             ELSE IF y.dir # "out"
             THEN y.book \cap Custody(q) = {} /\ Custody(q)' = Custody(q) \cup y.book
             ELSE y.book \cap Custody(q)' = {} /\ Custody(q) = Custody(q)' \cup y.book
  <2>1. Custody(q) = {s \in Sheet : sheet[s] # Null /\ sheet[s].status # "returned" /\ sheet[s].rep = q}
    BY DEF Custody, InCustody
  <2>2. Custody(q)' = {s \in Sheet : h[s] # Null /\ h[s].status # "returned" /\ h[s].rep = q}
    BY DEF Custody, InCustody
  <2>3. CASE y.dir = "out"
    BY <1>1, <1>3, <1>4, <2>1, <2>2, <2>3
  <2>4. CASE y.dir # "out"
    <3>1. \A s \in y.book : /\ sheet[s].status = "returned" /\ sheet[s].rep = y.rep
                             /\ h[s] # Null /\ h[s].status = "with_rep" /\ h[s].rep = y.rep
      BY <1>1, <1>6, <2>4
    <3>2. y.book \cap Custody(q) = {}
      BY <2>1, <3>1
    <3>3. q # y.rep => Custody(q)' = Custody(q)
      BY <1>3, <1>4, <2>1, <2>2, <3>1
    <3>4. q = y.rep => Custody(q)' = Custody(q) \cup y.book
      BY <1>3, <1>4, <2>1, <2>2, <3>1
    <3> QED
      BY <2>4, <3>2, <3>3, <3>4
  <2> QED
    BY <2>3, <2>4
<1>10. CustodyAddsUp'
  <2>1. CustodyMoves(d, Null, y, y.dir # "out")
    BY <1>1, <1>2, <1>9 DEF CustodyMoves
  <2> QED
    BY <2>1, CustodyChanged
<1> QED
  BY <1>1, <1>7, <1>8, <1>10, CustodyStepHolds
-----------------------------------------------------------------------------
(* Coupons: invoices, which leave every sheet in the custody it is in.      *)

InTheSameHands(g) ==
    /\ g \in [Sheet -> SheetRow \cup {Null}]
    /\ \A s \in Sheet :
          /\ g[s] = Null <=> sheet[s] = Null
          /\ g[s] # Null => /\ g[s].rep = sheet[s].rep /\ RowFits(g[s], s, load)
                            /\ g[s].status = "returned" <=> sheet[s].status = "returned"

LEMMA BillStepHolds ==
  ASSUME CouponInv, UNCHANGED load, NEW g, g = sheet', InTheSameHands(g),
         NEW b \in [Bill -> BillRow \cup {Null}], b = bill',
         \A s \in Sheet : g[s] # Null => GivenFits(g[s], s, b),
         brought' \in [CouponReceipt -> ReceiptRow \cup {Null}], RejectedEmpty'
  PROVE  CouponInv'
<1>1. CouponShapes'
  BY DEF CouponInv, CouponShapes, InTheSameHands
<1>2. \A r \in Rep : Custody(r)' = Custody(r)
  <2> TAKE r \in Rep
  <2>1. Custody(r) = {s \in Sheet : sheet[s] # Null /\ sheet[s].status # "returned" /\ sheet[s].rep = r}
    BY DEF Custody, InCustody
  <2>2. Custody(r)' = {s \in Sheet : g[s] # Null /\ g[s].status # "returned" /\ g[s].rep = r}
    BY DEF Custody, InCustody
  <2> QED
    BY <2>1, <2>2 DEF InTheSameHands
<1>3. CustodyAddsUp'
  BY <1>2, PaperStill DEF CouponInv, CustodyAddsUp
<1> QED
  BY <1>1, <1>3 DEF CouponInv, InTheSameHands

LEMMA FreedRows ==
  ASSUME CouponInv, NEW i \in Bill, NEW g, g = Freed(i)
  PROVE  /\ InTheSameHands(g)
         /\ \A s \in Sheet :
               /\ g[s] # Null => GivenFits(g[s], s, bill) /\ g[s].bill # i
               /\ sheet[s] # Null /\ sheet[s].bill = i => g[s].status = "with_rep"
               /\ sheet[s] = Null \/ sheet[s].bill # i => g[s] = sheet[s]
<1>1. /\ g = [s \in Sheet |-> IF sheet[s] # Null /\ sheet[s].bill = i
                              THEN ByBill(sheet[s], "with_rep", Null) ELSE sheet[s]]
      /\ sheet \in [Sheet -> SheetRow \cup {Null}] /\ i # Null
  BY CouponNull DEF Freed, ByBill, CouponInv, CouponShapes
<1>2. ASSUME NEW s \in Sheet, sheet[s] # Null, sheet[s].bill = i
      PROVE  /\ g[s] \in SheetRow /\ g[s] # Null /\ g[s].rep = sheet[s].rep
             /\ g[s].status = "with_rep" /\ g[s].bill = Null
             /\ sheet[s].status = "given" /\ RowFits(g[s], s, load)
  <2>1. sheet[s] \in SheetRow /\ RowFits(sheet[s], s, load) /\ g[s] = ByBill(sheet[s], "with_rep", Null)
    BY <1>1, <1>2 DEF CouponInv
  <2>2. /\ g[s] \in SheetRow /\ g[s].rep = sheet[s].rep /\ g[s].status = "with_rep"
        /\ g[s].bill = Null /\ g[s].load = sheet[s].load /\ g[s].back = sheet[s].back
    BY <2>1, ByBillRow
  <2>3. sheet[s].status = "given"
    BY <1>1, <1>2, <2>1 DEF RowFits
  <2>4. RowFits(g[s], s, load)
    BY <2>1, <2>2, <2>3 DEF RowFits
  <2> QED
    BY <2>2, <2>3, <2>4, SheetParts
<1>3. \A s \in Sheet : sheet[s] = Null \/ sheet[s].bill # i => g[s] = sheet[s]
  BY <1>1
<1>4. g \in [Sheet -> SheetRow \cup {Null}]
  <2>1. g = [s \in Sheet |-> g[s]]
    BY <1>1
  <2>2. \A s \in Sheet : g[s] \in SheetRow \cup {Null}
    BY <1>1, <1>2, <1>3
  <2> QED
    BY <2>1, <2>2
<1>5. ASSUME NEW s \in Sheet
      PROVE  /\ g[s] = Null <=> sheet[s] = Null
             /\ g[s] # Null => /\ g[s].rep = sheet[s].rep /\ RowFits(g[s], s, load)
                               /\ g[s].status = "returned" <=> sheet[s].status = "returned"
             /\ g[s] # Null => GivenFits(g[s], s, bill) /\ g[s].bill # i
  <2>1. CASE sheet[s] # Null /\ sheet[s].bill = i
    BY <1>1, <1>2, <2>1 DEF GivenFits
  <2>2. CASE sheet[s] = Null \/ sheet[s].bill # i
    BY <1>3, <2>2 DEF CouponInv
  <2> QED
    BY <2>1, <2>2
<1> QED
  BY <1>2, <1>3, <1>4, <1>5 DEF InTheSameHands

HandOver(i, r, B, same, g, b, h) ==
    /\ InTheSameHands(g) /\ MayHand(g, r, B, same) /\ h = Handed(g, i, r, B)
    /\ \A s \in Sheet : g[s] # Null => GivenFits(g[s], s, bill) /\ g[s].bill # i
    /\ b[i] # Null /\ b[i].rep = r /\ b[i].book = B
    /\ \A j \in Bill \ {i} : b[j] = bill[j]

LEMMA HandedRows ==
  ASSUME CouponInv, NEW i \in Bill, NEW r \in Rep, NEW B, NEW same, NEW g, NEW b, NEW h,
         HandOver(i, r, B, same, g, b, h)
  PROVE  /\ InTheSameHands(h)
         /\ \A s \in Sheet :
               /\ h[s] # Null => GivenFits(h[s], s, b)
               /\ s \in B /\ g[s] # Null /\ g[s].status = "with_rep" =>
                     h[s].status = "given" /\ h[s].bill = i
               /\ s \notin B \/ g[s] = Null \/ g[s].status # "with_rep" => h[s] = g[s]
<1>0. /\ InTheSameHands(g) /\ MayHand(g, r, B, same) /\ h = Handed(g, i, r, B)
      /\ \A s \in Sheet : g[s] # Null => GivenFits(g[s], s, bill) /\ g[s].bill # i
      /\ b[i] # Null /\ b[i].rep = r /\ b[i].book = B
      /\ \A j \in Bill \ {i} : b[j] = bill[j]
  BY DEF HandOver
<1>1. /\ h = [s \in Sheet |-> IF s \in B /\ g[s] # Null /\ g[s].status = "with_rep"
                              THEN ByBill(g[s], "given", i) ELSE g[s]]
      /\ i # Null /\ g \in [Sheet -> SheetRow \cup {Null}]
  BY <1>0, CouponNull DEF Handed, ByBill, InTheSameHands
<1>2. ASSUME NEW s \in Sheet, s \in B, g[s] # Null, g[s].status = "with_rep"
      PROVE  /\ h[s] \in SheetRow /\ h[s] # Null /\ h[s].rep = g[s].rep
             /\ h[s].status = "given" /\ h[s].bill = i /\ g[s].rep = r
             /\ RowFits(h[s], s, load)
  <2>1. g[s] \in SheetRow /\ RowFits(g[s], s, load) /\ h[s] = ByBill(g[s], "given", i)
    BY <1>0, <1>1, <1>2 DEF InTheSameHands
  <2>2. /\ h[s] \in SheetRow /\ h[s].rep = g[s].rep /\ h[s].status = "given"
        /\ h[s].bill = i /\ h[s].load = g[s].load /\ h[s].back = g[s].back
    BY <2>1, ByBillRow
  <2>3. Loads # {}
    <3>1. g[s].load \in Load /\ load[g[s].load] # Null
      BY <2>1, SheetParts DEF RowFits
    <3> QED
      BY <3>1 DEF Loads
  <2>4. g[s].rep = r
    BY <1>0, <1>2, <2>3 DEF MayHand
  <2>5. RowFits(h[s], s, load)
    BY <1>1, <1>2, <2>1, <2>2 DEF RowFits
  <2> QED
    BY <2>2, <2>4, <2>5, SheetParts
<1>3. \A s \in Sheet : s \notin B \/ g[s] = Null \/ g[s].status # "with_rep" => h[s] = g[s]
  BY <1>1
<1>4. h \in [Sheet -> SheetRow \cup {Null}]
  <2>1. h = [s \in Sheet |-> h[s]]
    BY <1>1
  <2>2. \A s \in Sheet : h[s] \in SheetRow \cup {Null}
    BY <1>1, <1>2, <1>3
  <2> QED
    BY <2>1, <2>2
<1>5. ASSUME NEW s \in Sheet
      PROVE  /\ h[s] = Null <=> sheet[s] = Null
             /\ h[s] # Null => /\ h[s].rep = sheet[s].rep /\ RowFits(h[s], s, load)
                               /\ h[s].status = "returned" <=> sheet[s].status = "returned"
             /\ h[s] # Null => GivenFits(h[s], s, b)
  <2>1. CASE s \in B /\ g[s] # Null /\ g[s].status = "with_rep"
    <3>1. /\ g[s].rep = sheet[s].rep /\ sheet[s] # Null /\ sheet[s].status # "returned"
      BY <1>0, <2>1 DEF InTheSameHands
    <3> QED
      BY <1>0, <1>2, <2>1, <3>1 DEF GivenFits
  <2>2. CASE s \notin B \/ g[s] = Null \/ g[s].status # "with_rep"
    <3> PICK k : k = g[s]
      OBVIOUS
    <3>1. h[s] = k
      BY <1>3, <2>2
    <3>2. k # Null => GivenFits(k, s, b)
      <4>1. SUFFICES ASSUME k # Null, k.status = "given" PROVE GivenFits(k, s, b)
        BY DEF GivenFits
      <4>2. GivenFits(k, s, bill) /\ k.bill # i /\ RowFits(k, s, load) /\ k \in SheetRow
        BY <1>0, <1>1, <4>1 DEF InTheSameHands
      <4>3. k.bill \in Bill
        BY <4>1, <4>2, SheetParts DEF RowFits
      <4> QED
        BY <1>0, <4>2, <4>3 DEF GivenFits
    <3> QED
      BY <1>0, <3>1, <3>2 DEF InTheSameHands
  <2> QED
    BY <2>1, <2>2
<1> QED
  BY <1>2, <1>3, <1>4, <1>5 DEF InTheSameHands

LEMMA SellWithHolds ==
  ASSUME CouponInv, NEW i \in Bill, NEW r \in Rep, NEW B \in Book \cup {{}}, SellWith(i, r, B)
  PROVE  CouponInv'
<1> PICK x : x = [rep |-> r, book |-> B]
  OBVIOUS
<1> PICK b : b = bill'
  OBVIOUS
<1> PICK h : h = sheet'
  OBVIOUS
<1>1. /\ b = [bill EXCEPT ![i] = x] /\ bill[i] = Null /\ UNCHANGED <<load, brought>>
      /\ h = Handed(sheet, i, r, B) /\ MayHand(sheet, r, B, FALSE)
  BY DEF SellWith, Bills
<1>2. x \in BillRow /\ x.rep = r /\ x.book = B /\ x # Null
  BY CouponNull DEF BillRow
<1>3. /\ b \in [Bill -> BillRow \cup {Null}] /\ b[i] = x /\ \A j \in Bill \ {i} : b[j] = bill[j]
  BY <1>1, <1>2 DEF CouponInv, CouponShapes
<1>4. InTheSameHands(sheet)
  BY DEF InTheSameHands, CouponInv, CouponShapes
<1>5. \A s \in Sheet : sheet[s] # Null => GivenFits(sheet[s], s, bill) /\ sheet[s].bill # i
  <2> TAKE s \in Sheet
  <2>1. SUFFICES ASSUME sheet[s] # Null PROVE GivenFits(sheet[s], s, bill) /\ sheet[s].bill # i
    OBVIOUS
  <2>2. GivenFits(sheet[s], s, bill) /\ RowFits(sheet[s], s, load)
    BY <2>1 DEF CouponInv
  <2> QED
    BY <1>1, <2>2, CouponNull DEF GivenFits, RowFits
<1>6. InTheSameHands(h) /\ \A s \in Sheet : h[s] # Null => GivenFits(h[s], s, b)
  <2>1. HandOver(i, r, B, FALSE, sheet, b, h)
    BY <1>1, <1>2, <1>3, <1>4, <1>5 DEF HandOver
  <2> QED
    BY <2>1, HandedRows
<1>7. brought' \in [CouponReceipt -> ReceiptRow \cup {Null}] /\ RejectedEmpty'
  BY <1>1 DEF CouponInv, CouponShapes, RejectedEmpty
<1> QED
  BY <1>1, <1>3, <1>6, <1>7, BillStepHolds

LEMMA EditBillHolds ==
  ASSUME CouponInv, NEW i \in Bill, NEW r \in Rep, NEW B \in Book \cup {{}}, EditBill(i, r, B)
  PROVE  CouponInv'
<1> PICK x : x = [rep |-> r, book |-> B]
  OBVIOUS
<1> PICK b : b = bill'
  OBVIOUS
<1> PICK g : g = Freed(i)
  OBVIOUS
<1> PICK h : h = sheet'
  OBVIOUS
<1> PICK same : same = (B = bill[i].book)
  OBVIOUS
<1>1. /\ b = [bill EXCEPT ![i] = x] /\ UNCHANGED <<load, brought>>
      /\ h = Handed(g, i, r, B) /\ MayHand(g, r, B, same)
  BY DEF EditBill
<1>2. x \in BillRow /\ x.rep = r /\ x.book = B /\ x # Null
  BY CouponNull DEF BillRow
<1>3. /\ b \in [Bill -> BillRow \cup {Null}] /\ b[i] = x /\ \A j \in Bill \ {i} : b[j] = bill[j]
  BY <1>1, <1>2 DEF CouponInv, CouponShapes
<1>4. /\ InTheSameHands(g)
      /\ \A s \in Sheet : g[s] # Null => GivenFits(g[s], s, bill) /\ g[s].bill # i
  BY FreedRows
<1>5. InTheSameHands(h) /\ \A s \in Sheet : h[s] # Null => GivenFits(h[s], s, b)
  <2>1. HandOver(i, r, B, same, g, b, h)
    BY <1>1, <1>2, <1>3, <1>4 DEF HandOver
  <2> QED
    BY <2>1, HandedRows
<1>6. brought' \in [CouponReceipt -> ReceiptRow \cup {Null}] /\ RejectedEmpty'
  BY <1>1 DEF CouponInv, CouponShapes, RejectedEmpty
<1> QED
  BY <1>1, <1>3, <1>5, <1>6, BillStepHolds

(* A receipt whose lines of one invoice are taken away.                     *)
Without(x, i) == [x EXCEPT !.on = [s \in Sheet |-> IF @[s] = i THEN Null ELSE @[s]]]

LEMMA WithoutRow ==
  ASSUME NEW x \in ReceiptRow, NEW i
  PROVE  /\ Without(x, i) \in ReceiptRow /\ Without(x, i).status = x.status
         /\ Without(x, i) # Null
         /\ Without(x, i).on = [s \in Sheet |-> IF x.on[s] = i THEN Null ELSE x.on[s]]
<1> PICK n : n = [s \in Sheet |-> IF x.on[s] = i THEN Null ELSE x.on[s]]
  OBVIOUS
<1> PICK w : w = Without(x, i)
  OBVIOUS
<1>1. /\ x = [status |-> x.status, on |-> x.on] /\ x.on \in [Sheet -> Bill \cup {Null}]
      /\ x.status \in {"pending", "approved", "rejected"}
  BY DEF ReceiptRow
<1>2. w = [x EXCEPT !.on = n]
  BY DEF Without
<1>3. w = [status |-> x.status, on |-> n]
  BY ONLY <1>1, <1>2
<1>4. n \in [Sheet -> Bill \cup {Null}]
  BY <1>1
<1>5. w \in ReceiptRow
  BY <1>1, <1>3, <1>4 DEF ReceiptRow
<1>6. w # Null
  BY <1>5, CouponNull
<1> QED
  BY <1>3, <1>5, <1>6

LEMMA DeletedBillReceipts ==
  ASSUME CouponInv, NEW i \in Bill, DeleteBill(i)
  PROVE  /\ brought' \in [CouponReceipt -> ReceiptRow \cup {Null}]
         /\ RejectedEmpty'
         /\ \A c \in CouponReceipt :
               /\ brought'[c] = Null <=> brought[c] = Null
               /\ brought[c] # Null => \A s \in Sheet :
                     brought'[c].on[s] = IF brought[c].on[s] = i THEN Null ELSE brought[c].on[s]
<1> PICK w : w = brought'
  OBVIOUS
<1>1. w = [c \in CouponReceipt |-> IF brought[c] = Null THEN Null ELSE Without(brought[c], i)]
  BY DEF DeleteBill, Without
<1>2. brought \in [CouponReceipt -> ReceiptRow \cup {Null}]
  BY DEF CouponInv, CouponShapes
<1>3. ASSUME NEW c \in CouponReceipt, brought[c] # Null
      PROVE  /\ w[c] \in ReceiptRow /\ w[c] # Null /\ w[c].status = brought[c].status
             /\ w[c].on = [s \in Sheet |-> IF brought[c].on[s] = i THEN Null ELSE brought[c].on[s]]
  BY <1>1, <1>2, <1>3, WithoutRow
<1>4. \A c \in CouponReceipt : brought[c] = Null => w[c] = Null
  BY <1>1
<1>5. w \in [CouponReceipt -> ReceiptRow \cup {Null}]
  <2>1. w = [c \in CouponReceipt |-> w[c]]
    BY <1>1
  <2>2. \A c \in CouponReceipt : w[c] \in ReceiptRow \cup {Null}
    BY <1>3, <1>4
  <2> QED
    BY <2>1, <2>2
<1>6. ASSUME NEW c \in CouponReceipt, w[c] # Null, w[c].status = "rejected"
      PROVE  w[c].on = NoLines
  <2>1. brought[c] # Null /\ brought[c].on = NoLines
    BY <1>3, <1>4, <1>6 DEF CouponInv, RejectedEmpty
  <2>2. \A s \in Sheet : brought[c].on[s] = Null
    BY <2>1 DEF NoLines
  <2> QED
    BY <1>3, <2>1, <2>2 DEF NoLines
<1>7. RejectedEmpty'
  BY <1>6 DEF RejectedEmpty
<1> QED
  BY ZenonT(40), <1>3, <1>4, <1>5, <1>7

LEMMA DeleteBillHolds ==
  ASSUME CouponInv, NEW i \in Bill, DeleteBill(i)
  PROVE  CouponInv'
<1> PICK b : b = bill'
  OBVIOUS
<1> PICK g : g = sheet'
  OBVIOUS
<1>1. b = [bill EXCEPT ![i] = Null] /\ UNCHANGED load /\ g = Freed(i)
  BY DEF DeleteBill
<1>2. b \in [Bill -> BillRow \cup {Null}] /\ \A j \in Bill \ {i} : b[j] = bill[j]
  BY <1>1 DEF CouponInv, CouponShapes
<1>3. /\ InTheSameHands(g)
      /\ \A s \in Sheet : g[s] # Null => GivenFits(g[s], s, bill) /\ g[s].bill # i
  BY <1>1, FreedRows
<1>4. \A s \in Sheet : g[s] # Null => GivenFits(g[s], s, b)
  <2> TAKE s \in Sheet
  <2> PICK k : k = g[s]
    OBVIOUS
  <2>1. SUFFICES ASSUME k # Null, k.status = "given" PROVE GivenFits(k, s, b)
    BY DEF GivenFits
  <2>2. GivenFits(k, s, bill) /\ k.bill # i /\ RowFits(k, s, load) /\ k \in SheetRow
    BY <1>3, <2>1 DEF InTheSameHands
  <2>3. k.bill \in Bill
    BY <2>1, <2>2, SheetParts DEF RowFits
  <2> QED
    BY <1>2, <2>2, <2>3 DEF GivenFits
<1> QED
  BY <1>1, <1>2, <1>3, <1>4, DeletedBillReceipts, BillStepHolds
-----------------------------------------------------------------------------
(* Coupons: receipts, and every step. *)

LEMMA ReceiptStepHolds ==
  ASSUME CouponInv, UNCHANGED <<load, sheet, bill>>,
         brought' \in [CouponReceipt -> ReceiptRow \cup {Null}], RejectedEmpty'
  PROVE  CouponInv'
<1>1. InTheSameHands(sheet) /\ \A s \in Sheet : sheet[s] # Null => GivenFits(sheet[s], s, bill)
  BY DEF InTheSameHands, CouponInv, CouponShapes
<1>2. bill \in [Bill -> BillRow \cup {Null}]
  BY DEF CouponInv, CouponShapes
<1> QED
  BY <1>1, <1>2, BillStepHolds

(* One receipt is written: a row, or nothing.                               *)
LEMMA OneReceipt ==
  ASSUME CouponInv, UNCHANGED <<load, sheet, bill>>, NEW c \in CouponReceipt,
         NEW x \in ReceiptRow \cup {Null}, brought' = [brought EXCEPT ![c] = x],
         x # Null /\ x.status = "rejected" => x.on = NoLines
  PROVE  CouponInv'
<1>1. /\ brought' \in [CouponReceipt -> ReceiptRow \cup {Null}]
      /\ brought'[c] = x /\ \A y \in CouponReceipt \ {c} : brought'[y] = brought[y]
  BY DEF CouponInv, CouponShapes
<1>2. RejectedEmpty'
  BY <1>1 DEF CouponInv, RejectedEmpty
<1> QED
  BY <1>1, <1>2, ReceiptStepHolds

LEMMA ReceiptParts ==
  ASSUME NEW x \in ReceiptRow
  PROVE  /\ x = [status |-> x.status, on |-> x.on] /\ x.on \in [Sheet -> Bill \cup {Null}]
         /\ x.status \in {"pending", "approved", "rejected"} /\ x # Null
BY CouponNull DEF ReceiptRow

(* What each step makes of a receipt.                                       *)
LEMMA ReceiptWritten ==
  ASSUME CouponInv, NEW c \in CouponReceipt,
         \/ \E on \in Lines : \/ \E status \in {"pending", "approved"} : BringIn(c, on, status)
                              \/ EditReceipt(c, on)
         \/ Approve(c) \/ Reject(c) \/ DeleteReceipt(c)
  PROVE  \E x \in ReceiptRow \cup {Null} :
            /\ brought' = [brought EXCEPT ![c] = x] /\ UNCHANGED <<load, sheet, bill>>
            /\ x # Null /\ x.status = "rejected" => x.on = NoLines
            /\ x # Null => \A s \in Sheet : x.on[s] # Null =>
                  \/ brought[c] # Null /\ x.on[s] = brought[c].on[s]
                  \/ x.on[s] \in PrintedOn(s)
<1> PICK z : z = brought[c]
  OBVIOUS
<1>0. brought \in [CouponReceipt -> ReceiptRow \cup {Null}] /\ z \in ReceiptRow \cup {Null}
  BY DEF CouponInv, CouponShapes
<1>1. ASSUME NEW on \in Lines PROVE on \in [Sheet -> Bill \cup {Null}]
  BY <1>1 DEF Lines
<1>2. ASSUME NEW on \in Lines, NEW status \in {"pending", "approved"}, BringIn(c, on, status)
      PROVE  \E x \in ReceiptRow \cup {Null} :
               /\ brought' = [brought EXCEPT ![c] = x] /\ UNCHANGED <<load, sheet, bill>>
               /\ x # Null /\ x.status = "rejected" => x.on = NoLines
               /\ x # Null => \A s \in Sheet : x.on[s] # Null =>
                     \/ brought[c] # Null /\ x.on[s] = brought[c].on[s]
                     \/ x.on[s] \in PrintedOn(s)
  <2> PICK x : x = [status |-> status, on |-> on]
    OBVIOUS
  <2>1. x \in ReceiptRow /\ x.status = status /\ x.on = on /\ status # "rejected"
    BY <1>1 DEF ReceiptRow
  <2>2. \A s \in Sheet : on[s] # Null => on[s] \in PrintedOn(s)
    BY <1>2 DEF BringIn, Matches
  <2>3. brought' = [brought EXCEPT ![c] = x] /\ UNCHANGED <<load, sheet, bill>>
    BY <1>2 DEF BringIn
  <2> QED
    BY <2>1, <2>2, <2>3
<1>3. ASSUME NEW on \in Lines, EditReceipt(c, on)
      PROVE  \E x \in ReceiptRow \cup {Null} :
               /\ brought' = [brought EXCEPT ![c] = x] /\ UNCHANGED <<load, sheet, bill>>
               /\ x # Null /\ x.status = "rejected" => x.on = NoLines
               /\ x # Null => \A s \in Sheet : x.on[s] # Null =>
                     \/ brought[c] # Null /\ x.on[s] = brought[c].on[s]
                     \/ x.on[s] \in PrintedOn(s)
  <2> PICK x : x = [z EXCEPT !.on = on]
    OBVIOUS
  <2>1. z # Null /\ z.status # "rejected" /\ z \in ReceiptRow
    BY <1>0, <1>3 DEF EditReceipt
  <2>2. z = [status |-> z.status, on |-> z.on]
    BY <2>1, ReceiptParts
  <2>3. x = [status |-> z.status, on |-> on]
    BY ONLY <2>2, x = [z EXCEPT !.on = on]
  <2>4. x \in ReceiptRow /\ x.status = z.status /\ x.on = on
    BY <1>1, <2>1, <2>3, ReceiptParts DEF ReceiptRow
  <2>5. brought' = [brought EXCEPT ![c] = x] /\ UNCHANGED <<load, sheet, bill>>
    BY <1>0, <1>3 DEF EditReceipt
  <2>6. \A s \in Sheet : on[s] # Null => on[s] = z.on[s] \/ on[s] \in PrintedOn(s)
    BY <1>3 DEF EditReceipt, Matches
  <2> QED
    BY <2>1, <2>4, <2>5, <2>6
<1>4. ASSUME Approve(c)
      PROVE  \E x \in ReceiptRow \cup {Null} :
               /\ brought' = [brought EXCEPT ![c] = x] /\ UNCHANGED <<load, sheet, bill>>
               /\ x # Null /\ x.status = "rejected" => x.on = NoLines
               /\ x # Null => \A s \in Sheet : x.on[s] # Null =>
                     \/ brought[c] # Null /\ x.on[s] = brought[c].on[s]
                     \/ x.on[s] \in PrintedOn(s)
  <2> PICK x : x = [z EXCEPT !.status = "approved"]
    OBVIOUS
  <2>1. z # Null /\ z \in ReceiptRow
    BY <1>0, <1>4 DEF Approve
  <2>2. z = [status |-> z.status, on |-> z.on]
    BY <2>1, ReceiptParts
  <2>3. x = [status |-> "approved", on |-> z.on]
    BY ONLY <2>2, x = [z EXCEPT !.status = "approved"]
  <2>4. x \in ReceiptRow /\ x.status = "approved" /\ x.on = z.on
    BY <2>1, <2>3, ReceiptParts DEF ReceiptRow
  <2>5. brought' = [brought EXCEPT ![c] = x] /\ UNCHANGED <<load, sheet, bill>>
    BY <1>0, <1>4 DEF Approve
  <2> QED
    BY <2>1, <2>4, <2>5
<1>5. ASSUME Reject(c)
      PROVE  \E x \in ReceiptRow \cup {Null} :
               /\ brought' = [brought EXCEPT ![c] = x] /\ UNCHANGED <<load, sheet, bill>>
               /\ x # Null /\ x.status = "rejected" => x.on = NoLines
               /\ x # Null => \A s \in Sheet : x.on[s] # Null =>
                     \/ brought[c] # Null /\ x.on[s] = brought[c].on[s]
                     \/ x.on[s] \in PrintedOn(s)
  <2> PICK x : x = [status |-> "rejected", on |-> NoLines]
    OBVIOUS
  <2>1. x \in ReceiptRow /\ x.on = NoLines /\ \A s \in Sheet : x.on[s] = Null
    BY DEF ReceiptRow, NoLines
  <2>2. brought' = [brought EXCEPT ![c] = x] /\ UNCHANGED <<load, sheet, bill>>
    BY <1>5 DEF Reject
  <2> QED
    BY <2>1, <2>2
<1>6. ASSUME DeleteReceipt(c)
      PROVE  brought' = [brought EXCEPT ![c] = Null] /\ UNCHANGED <<load, sheet, bill>>
  BY <1>6 DEF DeleteReceipt
<1> QED
  BY <1>2, <1>3, <1>4, <1>5, <1>6

LEMMA CouponStep ==
  ASSUME CouponInv, [CouponNext]_couponVars
  PROVE  CouponInv'
<1>1. CASE UNCHANGED couponVars
  <2>1. UNCHANGED <<load, sheet, bill, brought>>
    BY <1>1 DEF couponVars
  <2>2. brought' \in [CouponReceipt -> ReceiptRow \cup {Null}] /\ RejectedEmpty'
    BY <2>1 DEF CouponInv, CouponShapes, RejectedEmpty
  <2> QED
    BY <2>1, <2>2, ReceiptStepHolds
<1>2. ASSUME NEW c \in CouponReceipt,
             \/ \E on \in Lines : \/ \E status \in {"pending", "approved"} : BringIn(c, on, status)
                                  \/ EditReceipt(c, on)
             \/ Approve(c) \/ Reject(c) \/ DeleteReceipt(c)
      PROVE  CouponInv'
  <2>1. PICK x \in ReceiptRow \cup {Null} :
            /\ brought' = [brought EXCEPT ![c] = x] /\ UNCHANGED <<load, sheet, bill>>
            /\ x # Null /\ x.status = "rejected" => x.on = NoLines
    BY <1>2, ReceiptWritten
  <2> QED
    BY <2>1, OneReceipt
<1> QED
  BY <1>1, <1>2, IssueHolds, GiveBackHolds, DeleteLoadHolds, SellWithHolds, EditBillHolds,
     DeleteBillHolds DEF CouponNext

LEMMA CouponsAtFirst ==
  ASSUME CouponInit
  PROVE  CouponInv
<1>1. /\ \A d \in Load : load[d] = Null
      /\ \A s \in Sheet : sheet[s] = Null
      /\ \A c \in CouponReceipt : brought[c] = Null
  BY DEF CouponInit
<1>2. CouponShapes
  BY DEF CouponInit, CouponShapes
<1>3. \A r \in Rep : Custody(r) = {} /\ Documents("out", r) = {} /\ Documents("in", r) = {}
  BY <1>1 DEF Custody, InCustody, Documents, Loads
<1>4. \A r \in Rep : OnPaper("out", r) = 0 /\ OnPaper("in", r) = 0
  BY <1>3, SumEmpty DEF OnPaper
<1>5. CustodyAddsUp
  BY <1>3, <1>4, FS_EmptySet DEF CustodyAddsUp
<1> QED
  BY <1>1, <1>2, <1>5 DEF CouponInv, RejectedEmpty

LEMMA CouponsHold ==
  ASSUME CouponInv
  PROVE  CouponTypeOK /\ CustodyAddsUp /\ GivenIsPrinted
<1>1. ASSUME NEW s \in Sheet, sheet[s] # Null
      PROVE  /\ sheet[s] \in SheetRow /\ RowFits(sheet[s], s, load) /\ GivenFits(sheet[s], s, bill)
             /\ sheet[s].load \in Load /\ sheet[s].back \in Load \cup {Null}
             /\ sheet[s].bill \in Bill \cup {Null}
  BY <1>1, SheetParts DEF CouponInv, CouponShapes
<1>2. \A s \in Sheet : sheet[s] # Null =>
          LET k == sheet[s] IN
          /\ k.load \in Loads /\ s \in load[k.load].book
          /\ load[k.load].dir = "out" /\ load[k.load].rep = k.rep
          /\ k.status = "given" <=> k.bill # Null
          /\ k.status = "returned" <=> k.back # Null
          /\ k.back # Null => k.back \in Loads /\ load[k.back].rep = k.rep
  BY <1>1 DEF Loads, RowFits
<1>3. ASSUME NEW c \in CouponReceipt, brought[c] # Null
      PROVE  /\ brought[c].status \in {"pending", "approved", "rejected"}
             /\ brought[c].status = "rejected" => LinesOf(c) = {}
  <2>1. brought[c].status \in {"pending", "approved", "rejected"}
    BY <1>3, ReceiptParts DEF CouponInv, CouponShapes
  <2>2. brought[c].status = "rejected" => brought[c].on = NoLines
    BY <1>3 DEF CouponInv, RejectedEmpty
  <2> QED
    BY <2>1, <2>2 DEF LinesOf, NoLines
<1>4. CouponTypeOK
  BY <1>2, <1>3 DEF CouponTypeOK
<1>5. GivenIsPrinted
  BY <1>1 DEF GivenIsPrinted, Is, PrintedOn, Bills, GivenFits, RowFits
<1> QED
  BY <1>4, <1>5 DEF CouponInv
-----------------------------------------------------------------------------
(* Coupons, where those who issue invoices have all had coupons loaded on   *)
(* them: a sheet on an invoice, or on a receipt, was given on that invoice. *)

SheetsOnTheirBill ==
    \A i \in Bill, s \in Sheet : bill[i] # Null /\ s \in bill[i].book =>
        Is(s, "given") /\ sheet[s].bill = i
BroughtGiven ==
    \A c \in CouponReceipt, s \in Sheet : brought[c] # Null /\ brought[c].on[s] # Null =>
        Is(s, "given") /\ sheet[s].bill = brought[c].on[s]
LoadedInv == CouponInv /\ SheetsOnTheirBill /\ BroughtGiven
LoadedStep == \A i \in Bill : bill'[i] \notin {bill[i], Null} => Loaded(bill'[i].rep)

LEMMA GivenStay ==
  ASSUME LoadedInv, UNCHANGED <<bill, brought>>,
         \A s \in Sheet : Is(s, "given") => sheet'[s] = sheet[s]
  PROVE  SheetsOnTheirBill' /\ BroughtGiven'
BY DEF LoadedInv, SheetsOnTheirBill, BroughtGiven, Is

LEMMA LoadedCustody ==
  ASSUME LoadedInv, NEW d \in Load,
         \/ \E r \in Rep, B \in Book : Issue(d, r, B) \/ GiveBack(d, r, B)
         \/ DeleteLoad(d)
  PROVE  SheetsOnTheirBill' /\ BroughtGiven'
<1>1. ASSUME NEW r \in Rep, NEW B \in Book, Issue(d, r, B)
      PROVE  SheetsOnTheirBill' /\ BroughtGiven'
  <2>1. \A s \in Sheet : Is(s, "given") => sheet'[s] = sheet[s]
    BY <1>1 DEF Issue, Is
  <2>2. UNCHANGED <<bill, brought>>
    BY <1>1 DEF Issue
  <2> QED
    BY <2>1, <2>2, GivenStay
<1>2. ASSUME NEW r \in Rep, NEW B \in Book, GiveBack(d, r, B)
      PROVE  SheetsOnTheirBill' /\ BroughtGiven'
  <2>1. \A s \in Sheet : Is(s, "given") => sheet'[s] = sheet[s]
    BY <1>2 DEF GiveBack, HeldBy, Is
  <2>2. UNCHANGED <<bill, brought>>
    BY <1>2 DEF GiveBack
  <2> QED
    BY <2>1, <2>2, GivenStay
<1>3. ASSUME DeleteLoad(d) PROVE SheetsOnTheirBill' /\ BroughtGiven'
  <2>1. \A s \in Sheet : Is(s, "given") => sheet'[s] = sheet[s]
    BY <1>3 DEF DeleteLoad, Unmoved, HeldBy, Is
  <2>2. UNCHANGED <<bill, brought>>
    BY <1>3 DEF DeleteLoad
  <2> QED
    BY <2>1, <2>2, GivenStay
<1> QED
  BY <1>1, <1>2, <1>3

LEMMA LoadedReceipt ==
  ASSUME LoadedInv, NEW c \in CouponReceipt,
         \/ \E on \in Lines : \/ \E status \in {"pending", "approved"} : BringIn(c, on, status)
                              \/ EditReceipt(c, on)
         \/ Approve(c) \/ Reject(c) \/ DeleteReceipt(c)
  PROVE  SheetsOnTheirBill' /\ BroughtGiven'
<1>1. PICK x \in ReceiptRow \cup {Null} :
          /\ brought' = [brought EXCEPT ![c] = x] /\ UNCHANGED <<load, sheet, bill>>
          /\ x # Null => \A s \in Sheet : x.on[s] # Null =>
                \/ brought[c] # Null /\ x.on[s] = brought[c].on[s]
                \/ x.on[s] \in PrintedOn(s)
  BY ReceiptWritten DEF LoadedInv
<1>2. brought'[c] = x /\ \A y \in CouponReceipt \ {c} : brought'[y] = brought[y]
  BY <1>1 DEF LoadedInv, CouponInv, CouponShapes
<1>3. SheetsOnTheirBill'
  BY <1>1 DEF LoadedInv, SheetsOnTheirBill, Is
<1>4. ASSUME NEW s \in Sheet, x # Null, x.on[s] # Null
      PROVE  Is(s, "given") /\ sheet[s].bill = x.on[s]
  <2>1. CASE brought[c] # Null /\ x.on[s] = brought[c].on[s]
    BY <1>4, <2>1 DEF LoadedInv, BroughtGiven
  <2>2. CASE x.on[s] \in PrintedOn(s)
    BY <2>2 DEF LoadedInv, SheetsOnTheirBill, PrintedOn, Bills
  <2> QED
    BY <1>1, <1>4, <2>1, <2>2
<1>5. BroughtGiven'
  BY <1>1, <1>2, <1>4 DEF LoadedInv, BroughtGiven, Is
<1> QED
  BY <1>3, <1>5

(* One who was loaded hands out sheets he holds, and nothing else.          *)
LEMMA HandsOutHis ==
  ASSUME NEW g, NEW r, NEW B, NEW same, MayHand(g, r, B, same), Loaded(r), NEW s \in B
  PROVE  \/ g[s] = Null /\ same
         \/ g[s] # Null /\ g[s].status = "with_rep"
<1>1. Loads # {}
  BY DEF Loaded
<1> QED
  BY <1>1 DEF MayHand

LEMMA LoadedSell ==
  ASSUME LoadedInv, LoadedStep, NEW i \in Bill, NEW r \in Rep, NEW B \in Book \cup {{}},
         SellWith(i, r, B)
  PROVE  SheetsOnTheirBill' /\ BroughtGiven'
<1> PICK x : x = [rep |-> r, book |-> B]
  OBVIOUS
<1> PICK b : b = bill'
  OBVIOUS
<1> PICK h : h = sheet'
  OBVIOUS
<1>1. /\ b = [bill EXCEPT ![i] = x] /\ bill[i] = Null /\ UNCHANGED <<load, brought>>
      /\ h = Handed(sheet, i, r, B) /\ MayHand(sheet, r, B, FALSE)
  BY DEF SellWith, Bills
<1>2. x \in BillRow /\ x.rep = r /\ x.book = B /\ x # Null
  BY CouponNull DEF BillRow
<1>3. b[i] = x /\ \A j \in Bill \ {i} : b[j] = bill[j]
  BY <1>1 DEF LoadedInv, CouponInv, CouponShapes
<1>4. Loaded(r)
  BY <1>1, <1>2, <1>3 DEF LoadedStep
<1>5. \A s \in Sheet :
          /\ s \in B /\ sheet[s] # Null /\ sheet[s].status = "with_rep" =>
                h[s] # Null /\ h[s].status = "given" /\ h[s].bill = i
          /\ s \notin B \/ sheet[s] = Null \/ sheet[s].status # "with_rep" => h[s] = sheet[s]
  <2>1. /\ InTheSameHands(sheet)
        /\ \A s \in Sheet : sheet[s] # Null => GivenFits(sheet[s], s, bill) /\ sheet[s].bill # i
    <3>1. ASSUME NEW s \in Sheet, sheet[s] # Null
          PROVE  GivenFits(sheet[s], s, bill) /\ sheet[s].bill # i
      <4>1. GivenFits(sheet[s], s, bill) /\ RowFits(sheet[s], s, load)
        BY <3>1 DEF LoadedInv, CouponInv
      <4> QED
        BY <1>1, <4>1, CouponNull DEF GivenFits, RowFits
    <3> QED
      BY <3>1 DEF InTheSameHands, LoadedInv, CouponInv, CouponShapes
  <2>2. b[i] # Null /\ b[i].rep = r /\ b[i].book = B
    BY <1>2, <1>3
  <2>3. /\ InTheSameHands(h)
        /\ \A s \in Sheet :
             /\ s \in B /\ sheet[s] # Null /\ sheet[s].status = "with_rep" =>
                   h[s].status = "given" /\ h[s].bill = i
             /\ s \notin B \/ sheet[s] = Null \/ sheet[s].status # "with_rep" => h[s] = sheet[s]
    <3> PICK g : g = sheet
      OBVIOUS
    <3> PICK no : no = FALSE
      OBVIOUS
    <3>1. HandOver(i, r, B, no, g, b, h)
      BY <1>1, <1>3, <2>1, <2>2 DEF HandOver
    <3>2. CouponInv /\ B \in Book \cup {{}}
      BY DEF LoadedInv
    <3>3. /\ InTheSameHands(h)
          /\ \A s \in Sheet :
                /\ s \in B /\ g[s] # Null /\ g[s].status = "with_rep" =>
                      h[s].status = "given" /\ h[s].bill = i
                /\ s \notin B \/ g[s] = Null \/ g[s].status # "with_rep" => h[s] = g[s]
      BY ONLY <3>1, <3>2, i \in Bill, r \in Rep, HandedRows
    <3> QED
      BY <3>3
  <2> QED
    BY <2>3 DEF InTheSameHands
<1>6. \A s \in B : sheet[s] # Null /\ sheet[s].status = "with_rep"
  <2> PICK same : same = FALSE
    OBVIOUS
  <2>1. MayHand(sheet, r, B, same)
    BY <1>1
  <2>2. \A s \in B : (sheet[s] = Null /\ same) \/ (sheet[s] # Null /\ sheet[s].status = "with_rep")
    BY <1>4, <2>1, HandsOutHis
  <2> QED
    BY <2>2
<1>7. \A s \in Sheet : Is(s, "given") => h[s] = sheet[s]
  BY <1>5 DEF Is
<1>8. SheetsOnTheirBill'
  <2>1. ASSUME NEW j \in Bill, NEW s \in Sheet, b[j] # Null, s \in b[j].book
        PROVE  h[s] # Null /\ h[s].status = "given" /\ h[s].bill = j
    <3>1. CASE j = i
      BY <1>2, <1>3, <1>5, <1>6, <2>1, <3>1
    <3>2. CASE j # i
      BY <1>3, <1>7, <2>1, <3>2 DEF LoadedInv, SheetsOnTheirBill, Is
    <3> QED
      BY <3>1, <3>2
  <2> QED
    BY <2>1 DEF SheetsOnTheirBill, Is
<1>9. BroughtGiven'
  BY <1>1, <1>7 DEF LoadedInv, BroughtGiven, Is
<1> QED
  BY <1>8, <1>9

LEMMA LoadedEdit ==
  ASSUME LoadedInv, LoadedStep, NEW i \in Bill, NEW r \in Rep, NEW B \in Book \cup {{}},
         EditBill(i, r, B)
  PROVE  SheetsOnTheirBill' /\ BroughtGiven'
<1> PICK x : x = [rep |-> r, book |-> B]
  OBVIOUS
<1> PICK b : b = bill'
  OBVIOUS
<1> PICK g : g = Freed(i)
  OBVIOUS
<1> PICK h : h = sheet'
  OBVIOUS
<1> PICK same : same = (B = bill[i].book)
  OBVIOUS
<1>1. /\ b = [bill EXCEPT ![i] = x] /\ UNCHANGED <<load, brought>> /\ bill[i] # Null
      /\ h = Handed(g, i, r, B) /\ MayHand(g, r, B, same) /\ ReceivedKept(i, h)
  BY DEF EditBill, Bills
<1>2. x \in BillRow /\ x.rep = r /\ x.book = B /\ x # Null
  BY CouponNull DEF BillRow
<1>3. b[i] = x /\ \A j \in Bill \ {i} : b[j] = bill[j]
  BY <1>1 DEF LoadedInv, CouponInv, CouponShapes
<1>4. /\ InTheSameHands(g)
      /\ \A s \in Sheet :
            /\ g[s] # Null => GivenFits(g[s], s, bill) /\ g[s].bill # i
            /\ sheet[s] # Null /\ sheet[s].bill = i => g[s].status = "with_rep"
            /\ sheet[s] = Null \/ sheet[s].bill # i => g[s] = sheet[s]
  BY FreedRows DEF LoadedInv
<1>5. \A s \in Sheet :
          /\ s \in B /\ g[s] # Null /\ g[s].status = "with_rep" =>
                h[s] # Null /\ h[s].status = "given" /\ h[s].bill = i
          /\ s \notin B \/ g[s] = Null \/ g[s].status # "with_rep" => h[s] = g[s]
  <2>1. b[i] # Null /\ b[i].rep = r /\ b[i].book = B
    BY <1>2, <1>3
  <2>2. /\ InTheSameHands(h)
        /\ \A s \in Sheet :
             /\ s \in B /\ g[s] # Null /\ g[s].status = "with_rep" =>
                   h[s].status = "given" /\ h[s].bill = i
             /\ s \notin B \/ g[s] = Null \/ g[s].status # "with_rep" => h[s] = g[s]
    <3>1. HandOver(i, r, B, same, g, b, h)
      BY <1>1, <1>3, <1>4, <2>1 DEF HandOver
    <3> QED
      BY <3>1, HandedRows DEF LoadedInv
  <2> QED
    BY <1>4, <2>2 DEF InTheSameHands
<1>6. ASSUME NEW s \in Sheet, sheet[s] # Null, sheet[s].bill = i
      PROVE  g[s] # Null /\ g[s].status = "with_rep"
  BY <1>4, <1>6 DEF InTheSameHands
<1>7. B \in SUBSET Sheet
  BY BookAssumption
<1>8. ASSUME NEW s \in B PROVE g[s] # Null /\ g[s].status = "with_rep"
  <2>1. CASE x = bill[i]
    BY <1>1, <1>2, <1>6, <1>7, <2>1 DEF LoadedInv, SheetsOnTheirBill, Is
  <2>2. CASE x # bill[i]
    <3>1. Loaded(r)
      BY <1>1, <1>2, <1>3, <2>2 DEF LoadedStep
    <3>2. \/ g[s] = Null /\ same
          \/ g[s] # Null /\ g[s].status = "with_rep"
      BY <1>1, <3>1, HandsOutHis
    <3>3. same => g[s] # Null
      BY <1>1, <1>6, <1>7 DEF LoadedInv, SheetsOnTheirBill, Is
    <3> QED
      BY <3>2, <3>3
  <2> QED
    BY <2>1, <2>2
<1>9. ASSUME NEW s \in Sheet, NEW j \in Bill, j # i, Is(s, "given"), sheet[s].bill = j
      PROVE  h[s] = sheet[s]
  BY <1>4, <1>5, <1>9 DEF Is
<1>10. SheetsOnTheirBill'
  <2>1. ASSUME NEW j \in Bill, NEW s \in Sheet, b[j] # Null, s \in b[j].book
        PROVE  h[s] # Null /\ h[s].status = "given" /\ h[s].bill = j
    <3>1. CASE j = i
      BY <1>2, <1>3, <1>5, <1>8, <2>1, <3>1
    <3>2. CASE j # i
      BY <1>3, <1>9, <2>1, <3>2 DEF LoadedInv, SheetsOnTheirBill, Is
    <3> QED
      BY <3>1, <3>2
  <2> QED
    BY <2>1 DEF SheetsOnTheirBill, Is
<1>11. BroughtGiven'
  <2>1. ASSUME NEW c \in CouponReceipt, NEW s \in Sheet, brought[c] # Null,
               brought[c].on[s] # Null
        PROVE  h[s] # Null /\ h[s].status = "given" /\ h[s].bill = brought[c].on[s]
    <3>1. Is(s, "given") /\ sheet[s].bill = brought[c].on[s]
      BY <2>1 DEF LoadedInv, BroughtGiven
    <3>2. brought[c].on[s] \in Bill
      BY <2>1, ReceiptParts DEF LoadedInv, CouponInv, CouponShapes
    <3>3. CASE brought[c].on[s] = i
      <4>1. s \in Received(i)
        BY <2>1, <3>3 DEF Received
      <4>2. g[s] # Null /\ g[s].status = "with_rep"
        BY <1>6, <3>1, <3>3 DEF Is
      <4>3. s \in B
        BY <1>1, <1>5, <4>1, <4>2 DEF ReceivedKept
      <4> QED
        BY <1>5, <3>3, <4>2, <4>3
    <3>4. CASE brought[c].on[s] # i
      BY <1>9, <3>1, <3>2, <3>4 DEF Is
    <3> QED
      BY <3>3, <3>4
  <2> QED
    BY <1>1, <2>1 DEF BroughtGiven, Is
<1> QED
  BY <1>10, <1>11

LEMMA LoadedDelete ==
  ASSUME LoadedInv, NEW i \in Bill, DeleteBill(i)
  PROVE  SheetsOnTheirBill' /\ BroughtGiven'
<1> PICK b : b = bill'
  OBVIOUS
<1> PICK g : g = sheet'
  OBVIOUS
<1>1. b = [bill EXCEPT ![i] = Null] /\ g = Freed(i)
  BY DEF DeleteBill
<1>2. b[i] = Null /\ \A j \in Bill \ {i} : b[j] = bill[j]
  BY <1>1 DEF LoadedInv, CouponInv, CouponShapes
<1>3. \A s \in Sheet : sheet[s] = Null \/ sheet[s].bill # i => g[s] = sheet[s]
  BY <1>1, FreedRows DEF LoadedInv
<1>4. \A c \in CouponReceipt :
          /\ brought'[c] = Null <=> brought[c] = Null
          /\ brought[c] # Null => \A s \in Sheet :
                brought'[c].on[s] = IF brought[c].on[s] = i THEN Null ELSE brought[c].on[s]
  BY DeletedBillReceipts DEF LoadedInv
<1>5. SheetsOnTheirBill'
  <2>1. ASSUME NEW j \in Bill, NEW s \in Sheet, b[j] # Null, s \in b[j].book
        PROVE  g[s] # Null /\ g[s].status = "given" /\ g[s].bill = j
    BY <1>2, <1>3, <2>1 DEF LoadedInv, SheetsOnTheirBill, Is
  <2> QED
    BY <2>1 DEF SheetsOnTheirBill, Is
<1>6. BroughtGiven'
  <2>1. ASSUME NEW c \in CouponReceipt, NEW s \in Sheet, brought'[c] # Null,
               brought'[c].on[s] # Null
        PROVE  g[s] # Null /\ g[s].status = "given" /\ g[s].bill = brought'[c].on[s]
    <3>1. brought[c] # Null /\ brought[c].on[s] # i /\ brought'[c].on[s] = brought[c].on[s]
      BY <1>4, <2>1
    <3> QED
      BY <1>3, <2>1, <3>1 DEF LoadedInv, BroughtGiven, Is
  <2> QED
    BY <2>1 DEF BroughtGiven, Is
<1> QED
  BY <1>5, <1>6

LEMMA LoadedHolds ==
  ASSUME LoadedInv, CouponNext, LoadedStep
  PROVE  LoadedInv'
<1>1. CouponInv'
  BY CouponStep DEF LoadedInv
<1>2. SheetsOnTheirBill' /\ BroughtGiven'
  BY LoadedCustody, LoadedReceipt, LoadedSell, LoadedEdit, LoadedDelete DEF CouponNext
<1> QED
  BY <1>1, <1>2 DEF LoadedInv
-----------------------------------------------------------------------------
(* Coupons in the worlds they are checked in. *)

CouponWorld == CouponInv /\ (world = "coupons_loaded" => LoadedInv)

LEMMA CouponWorldStep ==
  ASSUME CouponWorld, [Next]_vars
  PROVE  CouponWorld'
<1>1. CASE UNCHANGED couponVars /\ UNCHANGED world
  <2>1. UNCHANGED <<load, sheet, bill, brought>>
    BY <1>1 DEF couponVars
  <2>2. CouponInv'
    BY <2>1, CouponStep DEF CouponWorld, couponVars
  <2>3. world = "coupons_loaded" => LoadedInv'
    BY <2>1, <2>2, GivenStay DEF CouponWorld, LoadedInv
  <2> QED
    BY <1>1, <2>2, <2>3 DEF CouponWorld
<1>2. CASE CouponNext /\ UNCHANGED world /\ (world = "coupons_loaded" => LoadedStep)
  BY <1>2, CouponStep, LoadedHolds DEF CouponWorld
<1>3. CASE UNCHANGED vars
  BY <1>1, <1>3 DEF vars
<1>4. CASE Next
  BY <1>1, <1>2, <1>4 DEF Next, OnAttendance, LoadedStep
<1> QED
  BY <1>3, <1>4

LEMMA CouponWorldHolds ==
  ASSUME CouponWorld
  PROVE  CouponsAddUp
<1>1. CouponTypeOK /\ CustodyAddsUp /\ GivenIsPrinted
  BY CouponsHold DEF CouponWorld
<1>2. ASSUME world = "coupons_loaded" PROVE HandedOnce /\ BroughtWasHanded
  <2>1. ASSUME NEW s \in Sheet PROVE Cardinality(PrintedOn(s)) =< 1
    <3>1. PrintedOn(s) = {} \/ PrintedOn(s) = {sheet[s].bill}
      BY <1>2 DEF CouponWorld, LoadedInv, SheetsOnTheirBill, PrintedOn, Bills
    <3>2. Cardinality({}) = 0 /\ Cardinality({sheet[s].bill}) = 1
      BY FS_EmptySet, FS_Singleton
    <3> QED
      BY <3>1, <3>2
  <2>2. BroughtWasHanded
    BY <1>2 DEF CouponWorld, LoadedInv, BroughtGiven, BroughtWasHanded, Is
  <2> QED
    BY <2>1, <2>2 DEF HandedOnce
<1> QED
  BY <1>1, <1>2 DEF CouponsAddUp

LEMMA CouponWorldFirst ==
  ASSUME Init
  PROVE  CouponWorld
<1>1. CouponInit
  BY DEF Init
<1>2. CouponInv
  BY <1>1, CouponsAtFirst
<1>3. SheetsOnTheirBill /\ BroughtGiven
  BY <1>1 DEF CouponInit, SheetsOnTheirBill, BroughtGiven
<1> QED
  BY <1>2, <1>3 DEF CouponWorld, LoadedInv

(* Whatever is loaded, given back, handed out on invoices, brought in and   *)
(* undone: what the documents say a representative has is what he holds or  *)
(* handed out, sheet for sheet, and a sheet given is on an invoice of his.  *)
(* Where all who sell have coupons loaded on them, one sheet is handed to   *)
(* one customer, and what a plumber brought in is in nobody's custody       *)
(* (coupon_custody_service.py: issue, return_, delete_doc,                  *)
(* consume_for_invoice, release_for_invoice, assert_received_kept).         *)
THEOREM SheetsAccountedFor == Spec => []CouponsAddUp
<1>1. Init => CouponWorld
  BY CouponWorldFirst
<1>2. CouponWorld /\ [Next]_vars => CouponWorld'
  BY CouponWorldStep
<1>3. CouponWorld => CouponsAddUp
  BY CouponWorldHolds
<1> QED
  BY <1>1, <1>2, <1>3, PTL DEF Spec
=============================================================================
