----------------------------- MODULE SyncProofs -----------------------------
(***************************************************************************)
(* Theorems about OfflineSync, for any documents, pushers, connections and *)
(* plans, and about PunchAgent, for any punches and overlapping runs.      *)
(*                                                                         *)
(* The inductive invariant of the first is OfflineInv: types; what a       *)
(* pusher and its request hold of each other; that what was created is     *)
(* there or was deleted; that an answer is given only for documents that   *)
(* are there; and that a bonus waits behind its invoice wherever it is.    *)
(* That of the second is AgentInv: what the state file and every run under *)
(* way say of the punches that are not yet on the server.                  *)
(***************************************************************************)
EXTENDS OfflineSync, PunchAgent, FiniteTheorems

UuidsOf(rows) == {rows[i].uuid : i \in DOMAIN rows}

(* A request is of one document, or of inspections only.                    *)
SingleOrVisits(rows) == \A u, v \in UuidsOf(rows) : u = v \/ Kind[u] = "inspection"

(* A pusher that waits for an answer waits for the head of its queue; one   *)
(* that pushes or pulls has a step to end.                                  *)
TaskInShape(p) ==
    /\ task[p].conn # Null =>
          /\ task[p].at = "push" /\ task[p].queue # <<>>
          /\ UuidsOf(conn[task[p].conn].rows) = UuidsOf(Head(task[p].queue))
    /\ task[p].bundle # Null => task[p].at = "pull"
    /\ task[p].at \in {"push", "pull"} => task[p].plan # <<>>
    /\ \A i \in DOMAIN task[p].queue : SingleOrVisits(task[p].queue[i])

RequestInShape(c) ==
    conn[c] # Null =>
        /\ conn[c].rows # <<>> /\ SingleOrVisits(conn[c].rows)
        /\ conn[c].fresh \subseteq Asked(conn[c])

TasksInShape == \A p \in Pusher : TaskInShape(p)
RequestsInShape == \A c \in Conn : RequestInShape(c)

(* What the server ever made of a document is there, or was deleted.        *)
MadeIsThere == \A u \in Uuid : made[u] = voided[u] + IF server[u] # Null THEN 1 ELSE 0

(* What was found by a lookup, answered or pulled had been made.            *)
FoundWasMade ==
    /\ \A c \in Conn : conn[c] # Null =>
          \A u \in Asked(conn[c]) :
              \/ conn[c].at = "sent" \/ conn[c].at = "error"
              \/ conn[c].at = "serving" /\ u \in conn[c].fresh
              \/ made[u] > 0
    /\ \A p \in Pusher : task[p].bundle # Null =>
          \A u \in Uuid : task[p].bundle[u] # Null => made[u] > 0

(* The invoice of a bonus is pending or was made; a queue has it before the *)
(* bonus; when a request for the bonus is on its way, it was made.          *)
PendingWasSaved == IsFiniteSet(saved) /\ \A u \in Uuid : Pending(u) => u \in saved

BaseIsKept ==
    \A u \in saved : Kind[u] = "bonus" => Pending(Base[u]) \/ made[Base[u]] > 0

BaseIsAhead ==
    \A p \in Pusher : \A i \in DOMAIN task[p].queue : \A u \in UuidsOf(task[p].queue[i]) :
        Kind[u] = "bonus" =>
            \/ made[Base[u]] > 0
            \/ \E j \in 1..(i - 1) : Base[u] \in UuidsOf(task[p].queue[j])

BaseArrived ==
    \A c \in Conn : conn[c] # Null =>
        \A u \in Asked(conn[c]) : Kind[u] = "bonus" =>
            /\ made[Base[u]] > 0
            /\ conn[c].at = "serving" => conn[c].link = Base[u] \/ voided[Base[u]] > 0

OfflineInv ==
    /\ OfflineTypeOK /\ TasksInShape /\ RequestsInShape
    /\ MadeIsThere /\ FoundWasMade /\ SyncedWasMade /\ NeverLost
    /\ PendingWasSaved /\ BaseIsKept /\ BaseIsAhead /\ BaseArrived /\ BonusIsLinked

-----------------------------------------------------------------------------
(* The members of a finite set can be ordered as a push orders them.        *)
LEMMA InOrderEnumerates ==
  ASSUME NEW S \in SUBSET Uuid, IsFiniteSet(S)
  PROVE  /\ InOrder(S) \in [1..Cardinality(S) -> S]
         /\ Cardinality(S) \in Nat
         /\ \A u \in S : \E i \in 1..Cardinality(S) : InOrder(S)[i] = u
         /\ \A i, j \in 1..Cardinality(S) :
               Kind[InOrder(S)[i]] # "bonus" /\ Kind[InOrder(S)[j]] = "bonus" => i < j
<1> DEFINE rank == [u \in S |-> IF Kind[u] = "bonus" THEN u + 1 ELSE -u]
<1> DEFINE n == Cardinality(S)
<1>1. \A u \in S : u \in Nat /\ rank[u] \in Int
  BY UuidAssumption
<1>2. \A u, v \in S : rank[u] = rank[v] => u = v
  BY <1>1
<1>3. n \in Nat
  BY FS_CardinalityType
<1> HIDE DEF n
<1>4. \E s : InRankOrder(s, S, rank)
  <2> HIDE DEF rank
  <2> QED
    BY <1>1, <1>2, OrderExists
<1>5. InRankOrder(ByRank(S, rank), S, rank)
  <2> HIDE DEF rank
  <2> QED
    BY <1>4 DEF ByRank, InRankOrder
<1>6. InOrder(S) = ByRank(S, rank)
  BY DEF InOrder
<1>7. InRankOrder(InOrder(S), S, rank)
  BY <1>5, <1>6
<1>8. InOrder(S) \in [1..n -> S]
  BY <1>7 DEF InRankOrder, n
<1>9. \A u \in S : \E i \in 1..n : InOrder(S)[i] = u
  BY <1>7, <1>8 DEF InRankOrder
<1>10. ASSUME NEW i \in 1..n, NEW j \in 1..n,
              Kind[InOrder(S)[i]] # "bonus", Kind[InOrder(S)[j]] = "bonus"
       PROVE  i < j
  <2>1. rank[InOrder(S)[i]] =< 0 /\ rank[InOrder(S)[j]] > 0
    BY <1>1, <1>8, <1>10
  <2>2. i # j
    BY <1>10
  <2>3. j < i => rank[InOrder(S)[j]] < rank[InOrder(S)[i]]
    BY <1>7, <1>8 DEF InRankOrder
  <2>4. rank[InOrder(S)[i]] \in Int /\ rank[InOrder(S)[j]] \in Int
    BY <1>1, <1>8
  <2> HIDE DEF rank
  <2> QED
    BY <1>3, <2>1, <2>2, <2>3, <2>4
<1> QED
  BY <1>3, <1>8, <1>9, <1>10 DEF n

-----------------------------------------------------------------------------
(* What the steps of a task make of it is a task.                           *)
LEMMA TaskParts ==
  ASSUME OfflineTypeOK, NEW p \in Pusher
  PROVE  /\ Idle \in TaskRow
         /\ task[p] \in TaskRow
         /\ task[p].plan # <<>> => Rest(task[p]) \in TaskRow /\ AfterError(p) \in TaskRow
<1>1. Idle \in TaskRow
  BY DEF TaskRow, Idle
<1>2. task[p] \in TaskRow
  BY DEF OfflineTypeOK
<1>3. ASSUME task[p].plan # <<>> PROVE Rest(task[p]) \in TaskRow
  <2>1. Tail(task[p].plan) \in Seq(Steps)
    BY <1>2, <1>3 DEF TaskRow
  <2>2. <<>> \in Seq(Seq(SentRow) \ {<<>>})
    OBVIOUS
  <2>3. task[p] \in [plan : Seq(Steps), queue : Seq(Seq(SentRow) \ {<<>>}), sent : {0, 1},
                    conn : Conn \cup {Null}, bundle : Bundle \cup {Null},
                    at : {"idle", "between", "push", "pull"}]
    BY <1>2 DEF TaskRow
  <2> QED
    BY <2>1, <2>2, <2>3, Zenon DEF TaskRow, Rest
<1> QED
  BY <1>1, <1>2, <1>3 DEF AfterError

(* The requests of a step: rows as they are sent, a bonus alone in its own, *)
(* and behind its invoice where that is pending too.                        *)
LEMMA RequestsOfStep ==
  ASSUME OfflineTypeOK, PendingWasSaved, BaseIsKept, NEW step \in Steps
  PROVE  /\ Requests(step) \in Seq(Seq(SentRow) \ {<<>>})
         /\ \A i \in DOMAIN Requests(step) : SingleOrVisits(Requests(step)[i])
         /\ \A i \in DOMAIN Requests(step) : \A u \in UuidsOf(Requests(step)[i]) :
               Kind[u] = "bonus" =>
                 \/ made[Base[u]] > 0
                 \/ \E j \in 1..(i - 1) : Base[u] \in UuidsOf(Requests(step)[j])
<1> DEFINE kinds == IF step = "sale" THEN {"sale", "bonus"} ELSE {step}
<1> DEFINE S == {u \in Uuid : Pending(u) /\ Kind[u] \in kinds}
<1> DEFINE order == InOrder(S)
<1> DEFINE n == Cardinality(S)
<1>1. S \in SUBSET Uuid /\ IsFiniteSet(S)
  BY FS_Subset DEF PendingWasSaved
<1>2. ASSUME NEW u \in S PROVE Row(u) \in SentRow /\ Row(u).uuid = u
  <2>1. local[u] \in LocalRow
    BY DEF OfflineTypeOK, Pending
  <2> QED
    BY <2>1, LimitAssumption DEF LocalRow, SentRow, Row, OfficeVersion
<1>3. Requests(step) = IF step = "inspection" /\ order # <<>>
                       THEN << [i \in DOMAIN order |-> Row(order[i])] >>
                       ELSE [i \in DOMAIN order |-> <<Row(order[i])>>]
  BY DEF Requests
<1> HIDE DEF S, order, n
<1>4. /\ order \in [1..n -> S]
      /\ n \in Nat
      /\ \A u \in S : \E i \in 1..n : order[i] = u
      /\ \A i, j \in 1..n : Kind[order[i]] # "bonus" /\ Kind[order[j]] = "bonus" => i < j
  BY <1>1, InOrderEnumerates DEF order, n
<1>5. CASE step = "inspection" /\ order # <<>>
  <2> DEFINE rows == [i \in DOMAIN order |-> Row(order[i])]
  <2>1. Requests(step) = <<rows>>
    BY <1>3, <1>5
  <2>2. DOMAIN order = 1..n /\ n # 0
    BY <1>4, <1>5
  <2>3. rows \in Seq(SentRow) /\ rows # <<>>
    BY <1>2, <1>4, <2>2
  <2>4. \A u \in UuidsOf(rows) : Kind[u] = "inspection"
    BY <1>2, <1>4, <1>5, <2>2 DEF UuidsOf, S
  <2> HIDE DEF rows
  <2>5. DOMAIN Requests(step) = {1} /\ Requests(step)[1] = rows
    BY <2>1
  <2>6. Requests(step) \in Seq(Seq(SentRow) \ {<<>>})
    BY <2>1, <2>3
  <2> QED
    BY <2>4, <2>5, <2>6 DEF SingleOrVisits
<1>6. CASE ~ (step = "inspection" /\ order # <<>>)
  <2>1. Requests(step) = [i \in 1..n |-> <<Row(order[i])>>]
    BY <1>3, <1>4, <1>6
  <2>2. \A i \in 1..n : <<Row(order[i])>> \in Seq(SentRow) \ {<<>>}
    BY <1>2, <1>4
  <2>3. \A i \in 1..n : UuidsOf(<<Row(order[i])>>) = {order[i]}
    BY <1>2, <1>4 DEF UuidsOf
  <2>4. Requests(step) \in Seq(Seq(SentRow) \ {<<>>})
    BY <1>4, <2>1, <2>2
  <2>5. DOMAIN Requests(step) = 1..n /\ \A i \in 1..n : UuidsOf(Requests(step)[i]) = {order[i]}
    BY <1>4, <2>1, <2>3
  <2>6. ASSUME NEW i \in 1..n, Kind[order[i]] = "bonus", ~ (made[Base[order[i]]] > 0)
        PROVE  \E j \in 1..(i - 1) : Base[order[i]] = order[j]
    <3> DEFINE u == order[i]
    <3>1. u \in S /\ u \in Uuid /\ Pending(u) /\ Kind[u] \in kinds
      BY <1>4 DEF S
    <3>2. step = "sale"
      BY <2>6, <3>1 DEF Steps
    <3>3. Base[u] \in Uuid /\ Kind[Base[u]] = "sale"
      BY <2>6, <3>1, BaseAssumption
    <3>4. Pending(Base[u])
      BY <2>6, <3>1 DEF PendingWasSaved, BaseIsKept
    <3>5. Base[u] \in S
      BY <3>2, <3>3, <3>4 DEF S
    <3>6. PICK j \in 1..n : order[j] = Base[u]
      BY <1>4, <3>5
    <3>7. j < i
      BY <1>4, <2>6, <3>3, <3>6
    <3> QED
      BY <1>4, <3>6, <3>7
  <2> QED
    <3>1. \A i \in 1..n : SingleOrVisits(Requests(step)[i])
      BY <2>5 DEF SingleOrVisits
    <3>2. \A i \in 1..n : \A u \in UuidsOf(Requests(step)[i]) :
             Kind[u] = "bonus" =>
                 \/ made[Base[u]] > 0
                 \/ \E j \in 1..(i - 1) : Base[u] \in UuidsOf(Requests(step)[j])
      <4> SUFFICES ASSUME NEW i \in 1..n, Kind[order[i]] = "bonus",
                          ~ (made[Base[order[i]]] > 0)
                   PROVE  \E j \in 1..(i - 1) : Base[order[i]] \in UuidsOf(Requests(step)[j])
        BY <2>5
      <4>1. PICK j \in 1..(i - 1) : Base[order[i]] = order[j]
        BY <2>6
      <4>2. j \in 1..n
        BY <1>4
      <4> QED
        BY <2>5, <4>1, <4>2
    <3> QED
      BY <2>4, <2>5, <3>1, <3>2
<1> QED
  BY <1>5, <1>6

(* The rows of a request are sent with the uuids they have in the queue.    *)
LEMMA RowsAsSent ==
  ASSUME OfflineTypeOK, NEW rows \in Seq(SentRow) \ {<<>>}
  PROVE  LET sent == [i \in DOMAIN rows |-> AsSent(rows[i])] IN
         /\ sent \in Seq(SentRow) \ {<<>>}
         /\ UuidsOf(sent) = UuidsOf(rows)
<1> DEFINE sent == [i \in DOMAIN rows |-> AsSent(rows[i])]
<1>1. ASSUME NEW row \in SentRow PROVE AsSent(row) \in SentRow /\ AsSent(row).uuid = row.uuid
  <2>1. row.uuid \in Uuid
    BY DEF SentRow
  <2>2. local[row.uuid] # Null => local[row.uuid].lines \in 0..OfficeVersion
    BY <2>1, LimitAssumption DEF OfflineTypeOK, LocalRow, OfficeVersion
  <2>3. 0 \in 0..OfficeVersion
    BY LimitAssumption DEF OfficeVersion
  <2> QED
    BY <2>2, <2>3 DEF AsSent, SentRow
<1>2. PICK n \in Nat : DOMAIN rows = 1..n /\ n # 0 /\ rows \in [1..n -> SentRow]
  <2>1. rows \in [1..Len(rows) -> SentRow] /\ Len(rows) \in Nat /\ Len(rows) # 0
    OBVIOUS
  <2> QED
    BY <2>1
<1>3. sent \in [1..n -> SentRow]
  BY <1>1, <1>2
<1>4. sent \in Seq(SentRow) /\ sent # <<>>
  BY <1>2, <1>3
<1>5. \A i \in 1..n : sent[i].uuid = rows[i].uuid
  BY <1>1, <1>2
<1>6. UuidsOf(sent) = UuidsOf(rows)
  BY <1>2, <1>3, <1>5 DEF UuidsOf
<1> QED
  BY <1>4, <1>6

(* A request's row of a uuid it asks for.                                   *)
LEMMA RowOfTyped ==
  ASSUME OfflineTypeOK, NEW c \in Conn, conn[c] # Null, NEW u \in Asked(conn[c])
  PROVE  RowOf(conn[c], u) \in SentRow /\ u \in Uuid
<1> DEFINE rows == conn[c].rows
<1>1. rows \in Seq(SentRow)
  BY DEF OfflineTypeOK, RequestRow
<1>2. PICK i \in DOMAIN rows : rows[i].uuid = u
  BY DEF Asked
<1>3. (CHOOSE j \in DOMAIN rows : rows[j].uuid = u) \in DOMAIN rows
  BY <1>2
<1>4. \A j \in DOMAIN rows : rows[j] \in SentRow
  BY <1>1
<1> QED
  BY <1>2, <1>3, <1>4 DEF RowOf, SentRow

-----------------------------------------------------------------------------
(* The variables keep their types.                                          *)
LEMMA TypeStep ==
  ASSUME OfflineInv, [OfflineNext]_offlineVars
  PROVE  OfflineTypeOK'
<1> USE DEF OfflineTypeOK, phone, office
<1>0. OfflineTypeOK /\ TasksInShape /\ RequestsInShape /\ PendingWasSaved /\ BaseIsKept
  BY DEF OfflineInv
<1>1. CASE UNCHANGED offlineVars
  BY <1>0, <1>1 DEF offlineVars
<1>by. ASSUME \A c \in Conn : conn[c] # Null => conn'[c] # Null /\ conn'[c].by = conn[c].by,
              task' = task
       PROVE  \A p \in Pusher : task'[p].conn # Null =>
                 conn'[task'[p].conn] # Null /\ conn'[task'[p].conn].by = p
  <2> SUFFICES ASSUME NEW p \in Pusher, task[p].conn # Null
               PROVE  conn'[task[p].conn] # Null /\ conn'[task[p].conn].by = p
    BY <1>by
  <2>1. task[p].conn \in Conn
    BY <1>0, TaskParts DEF TaskRow
  <2> QED
    BY <1>0, <1>by, <2>1
<1>fault. Fault => faults' \in 0..MaxFault
  BY <1>0, LimitAssumption DEF Fault
<1>2. ASSUME NEW u \in Uuid, Save(u) PROVE OfflineTypeOK'
  <2>1. [head |-> 1, lines |-> 1, own |-> TRUE, synced |-> FALSE] \in LocalRow
    BY LimitAssumption DEF LocalRow, OfficeVersion
  <2> QED
    BY <1>0, <1>2, <2>1 DEF Save
<1>3. ASSUME NEW u \in Uuid, Edit(u) PROVE OfflineTypeOK'
  <2>1. local[u] \in LocalRow /\ local[u].head + 1 \in 1..OfficeVersion
    BY <1>0, <1>3, LimitAssumption DEF Edit, Pending, LocalRow, OfficeVersion
  <2>2. [local[u] EXCEPT !.head = @ + 1, !.lines = local[u].head + 1] \in LocalRow
    BY <2>1 DEF LocalRow
  <2>3. local' = [local EXCEPT ![u] = [local[u] EXCEPT !.head = @ + 1, !.lines = local[u].head + 1]]
    BY <1>0, <1>3, <2>1 DEF Edit, LocalRow
  <2> QED
    BY <1>0, <1>3, <2>2, <2>3 DEF Edit
<1>4. ASSUME NEW u \in Uuid, Delete(u) PROVE OfflineTypeOK'
  BY <1>0, <1>4 DEF Delete
<1>5. CASE SignInAsOther
  BY <1>0, <1>5 DEF SignInAsOther
<1>6. ASSUME NEW p \in Pusher, NEW plan \in Plan[p], StartTask(p, plan) PROVE OfflineTypeOK'
  <2>1. plan \in Seq(Steps)
    BY PlanAssumption
  <2>2. [Idle EXCEPT !.plan = plan, !.at = "between"] \in TaskRow
    BY <1>0, <2>1, TaskParts DEF TaskRow, Idle
  <2> QED
    BY <1>0, <1>6, <2>2, NullAssumption DEF StartTask, Becomes, Idle
<1>7. ASSUME NEW p \in Pusher, StartStep(p) PROVE OfflineTypeOK'
  <2> DEFINE t == task[p]
  <2>1. t \in TaskRow /\ t.at = "between" /\ Idle \in TaskRow /\ Idle.conn = Null
    BY <1>0, <1>7, TaskParts DEF StartStep, Idle
  <2>2. t.conn = Null
    BY <1>0, <1>7 DEF StartStep, TasksInShape, TaskInShape
  <2>3. t.plan # <<>> => Rest(t) \in TaskRow /\ Rest(t).conn = Null
    BY <1>0, <2>1, TaskParts DEF Rest, TaskRow
  <2>4. [t EXCEPT !.at = "pull"] \in TaskRow /\ [t EXCEPT !.at = "pull"].conn = Null
    BY <2>1, <2>2 DEF TaskRow
  <2>5. ASSUME t.plan # <<>>
        PROVE  LET r == [t EXCEPT !.queue = Requests(Head(t.plan)), !.at = "push"]
               IN  r \in TaskRow /\ r.conn = Null
    <3>1. Head(t.plan) \in Steps
      BY <2>1, <2>5 DEF TaskRow
    <3>2. Requests(Head(t.plan)) \in Seq(Seq(SentRow) \ {<<>>})
      BY <1>0, <3>1, RequestsOfStep
    <3> QED
      BY <2>1, <2>2, <3>2 DEF TaskRow
  <2>6. \E r \in TaskRow : r.conn = Null /\ Becomes(p, r)
    BY <1>7, <2>1, <2>3, <2>4, <2>5 DEF StartStep
  <2> QED
    BY <1>0, <1>7, <2>6 DEF StartStep, Becomes
<1>8. ASSUME NEW p \in Pusher, EndStep(p) PROVE OfflineTypeOK'
  <2>1. Rest(task[p]) \in TaskRow /\ Rest(task[p]).conn = Null
    BY <1>0, <1>8, TaskParts DEF EndStep, TasksInShape, TaskInShape, Rest, TaskRow
  <2> QED
    BY <1>0, <1>8, <2>1 DEF EndStep, Becomes
<1>9. ASSUME NEW p \in Pusher, NEW c \in Conn, Send(p, c) PROVE OfflineTypeOK'
  <2> DEFINE t == task[p]
  <2> DEFINE rows == [i \in DOMAIN Head(t.queue) |-> AsSent(Head(t.queue)[i])]
  <2>1. t \in TaskRow /\ t.queue # <<>> /\ t.conn = Null
    BY <1>0, <1>9, TaskParts DEF Send
  <2>2. Head(t.queue) \in Seq(SentRow) \ {<<>>} /\ Tail(t.queue) \in Seq(Seq(SentRow) \ {<<>>})
    BY <2>1 DEF TaskRow
  <2>3. rows \in Seq(SentRow)
    BY <1>0, <2>2, RowsAsSent
  <2> HIDE DEF rows
  <2> DEFINE r == [rows |-> rows, by |-> p, at |-> "sent", fresh |-> {}, link |-> Null]
  <2>4. r \in RequestRow
    BY <2>3 DEF RequestRow
  <2>5. CASE Becomes(p, [t EXCEPT !.queue = Tail(@)]) /\ UNCHANGED conn
    <3>1. [t EXCEPT !.queue = Tail(@)] \in TaskRow /\ [t EXCEPT !.queue = Tail(@)].conn = Null
      BY <2>1, <2>2 DEF TaskRow
    <3> QED
      BY <1>0, <1>9, <2>5, <3>1 DEF Send, Becomes
  <2>6. CASE conn[c] = Null /\ conn' = [conn EXCEPT ![c] = r] /\ Becomes(p, [t EXCEPT !.conn = c])
    <3>1. [t EXCEPT !.conn = c] \in TaskRow /\ [t EXCEPT !.conn = c].conn = c
      BY <2>1 DEF TaskRow
    <3>2. r # Null /\ r.by = p
      BY <2>4, NullAssumption
    <3> HIDE DEF r, t
    <3> QED
      BY <1>0, <1>9, <2>4, <2>6, <3>1, <3>2 DEF Send, Becomes
  <2> QED
    BY <1>9, <2>5, <2>6 DEF Send, rows
<1>10. ASSUME NEW c \in Conn, ServerLookup(c) PROVE OfflineTypeOK'
  <2> DEFINE u == conn[c].rows[1].uuid
  <2> DEFINE link == IF Base[u] # Null /\ server[Base[u]] # Null THEN Base[u] ELSE Null
  <2> DEFINE at == IF Fresh(conn[c]) = {} THEN "ok" ELSE "serving"
  <2>1. conn[c] \in RequestRow /\ conn[c] # Null /\ conn[c].rows # <<>>
    BY <1>0, <1>10 DEF ServerLookup, RequestsInShape, RequestInShape
  <2>2. conn[c].rows[1] \in SentRow
    BY <2>1 DEF RequestRow
  <2>3. link \in Uuid \cup {Null}
    BY <2>2, BaseAssumption DEF SentRow
  <2>4. Fresh(conn[c]) \in SUBSET Uuid
    BY <1>0, <2>1, RowOfTyped DEF Fresh
  <2>5. conn' = [conn EXCEPT ![c] = [conn[c] EXCEPT !.at = at, !.fresh = Fresh(conn[c]), !.link = link]]
    BY <1>0, <1>10 DEF ServerLookup
  <2> HIDE DEF link
  <2>6. [conn[c] EXCEPT !.at = at, !.fresh = Fresh(conn[c]), !.link = link] \in RequestRow
    BY <2>1, <2>3, <2>4 DEF RequestRow
  <2>7. [conn[c] EXCEPT !.at = at, !.fresh = Fresh(conn[c]), !.link = link].by = conn[c].by
    BY <2>1 DEF RequestRow
  <2>8. /\ conn' \in [Conn -> RequestRow \cup {Null}]
        /\ \A d \in Conn : conn[d] # Null => conn'[d] # Null /\ conn'[d].by = conn[d].by
    BY <1>0, <2>5, <2>6, <2>7, NullAssumption
  <2> QED
    BY <1>0, <1>10, <1>by, <2>8 DEF ServerLookup
<1>11. ASSUME NEW c \in Conn, NEW a \in {"ok", "error"}, conn[c] # Null,
              conn' = [conn EXCEPT ![c].at = a]
       PROVE  /\ conn' \in [Conn -> RequestRow \cup {Null}]
              /\ \A d \in Conn : conn[d] # Null => conn'[d] # Null /\ conn'[d].by = conn[d].by
  <2>1. conn[c] \in RequestRow
    BY <1>0, <1>11
  <2>2. [conn[c] EXCEPT !.at = a] \in RequestRow /\ [conn[c] EXCEPT !.at = a].by = conn[c].by
    BY <2>1 DEF RequestRow
  <2>3. conn' = [conn EXCEPT ![c] = [conn[c] EXCEPT !.at = a]]
    BY <1>0, <1>11
  <2> QED
    BY <1>0, <2>2, <2>3, NullAssumption
<1>12. ASSUME NEW c \in Conn, ServerCommit(c) PROVE OfflineTypeOK'
  <2> DEFINE r == conn[c]
  <2>1. r # Null /\ r \in RequestRow /\ r.fresh \subseteq Asked(r) /\ r.link \in Uuid \cup {Null}
    BY <1>0, <1>12 DEF ServerCommit, RequestsInShape, RequestInShape, RequestRow
  <2>2. \E a \in {"ok", "error"} : conn' = [conn EXCEPT ![c].at = a]
    BY <1>12 DEF ServerCommit
  <2>3. server' \in Bundle /\ made' \in [Uuid -> Nat]
    <3>1. CASE UNCHANGED <<server, made>>
      BY <1>0, <3>1
    <3>2. CASE /\ \A u \in r.fresh : RowOf(r, u).lines > 0
               /\ server' = [u \in Uuid |->
                     IF u \in r.fresh THEN [head |-> RowOf(r, u).head,
                                            lines |-> RowOf(r, u).lines, link |-> r.link]
                     ELSE server[u]]
               /\ made' = [u \in Uuid |-> made[u] + IF u \in r.fresh THEN 1 ELSE 0]
      <4>1. ASSUME NEW u \in r.fresh
            PROVE  [head |-> RowOf(r, u).head, lines |-> RowOf(r, u).lines, link |-> r.link]
                     \in ServerRow
        <5>1. RowOf(r, u) \in SentRow /\ RowOf(r, u).lines > 0
          BY <1>0, <2>1, <3>2, RowOfTyped
        <5>2. RowOf(r, u).lines \in 1..OfficeVersion /\ RowOf(r, u).head \in 1..OfficeVersion
          BY <5>1, LimitAssumption DEF SentRow, OfficeVersion
        <5> QED
          BY <2>1, <5>2 DEF ServerRow
      <4>2. \A u \in Uuid : server[u] \in ServerRow \cup {Null} /\ made[u] \in Nat
        BY <1>0 DEF Bundle
      <4> HIDE DEF r
      <4> QED
        BY <3>2, <4>1, <4>2 DEF Bundle
    <3> QED
      BY <1>12, <3>1, <3>2 DEF ServerCommit
  <2> QED
    <3>1. /\ conn' \in [Conn -> RequestRow \cup {Null}]
          /\ \A d \in Conn : conn[d] # Null => conn'[d] # Null /\ conn'[d].by = conn[d].by
      BY <1>11, <2>1, <2>2
    <3> QED
      BY <1>0, <1>12, <1>by, <2>3, <3>1 DEF ServerCommit
<1>13. ASSUME NEW c \in Conn, ServerRefuse(c) PROVE OfflineTypeOK'
  <2>1. conn' = [conn EXCEPT ![c].at = "error"] /\ conn[c] # Null
    BY <1>13 DEF ServerRefuse
  <2> QED
    <3>1. /\ conn' \in [Conn -> RequestRow \cup {Null}]
          /\ \A d \in Conn : conn[d] # Null => conn'[d] # Null /\ conn'[d].by = conn[d].by
      BY <1>11, <2>1
    <3> QED
      BY <1>0, <1>13, <1>by, <1>fault, <3>1 DEF ServerRefuse
<1>14. ASSUME NEW u \in Uuid, OfficeEdit(u) PROVE OfflineTypeOK'
  <2>1. server[u] \in ServerRow /\ OfficeVersion \in 1..OfficeVersion
    BY <1>0, <1>14, LimitAssumption DEF OfficeEdit, Bundle, OfficeVersion
  <2>2. [server[u] EXCEPT !.head = OfficeVersion, !.lines = OfficeVersion] \in ServerRow
    BY <2>1 DEF ServerRow
  <2>3. server' = [server EXCEPT ![u] = [server[u] EXCEPT !.head = OfficeVersion, !.lines = OfficeVersion]]
    BY <1>0, <1>14 DEF OfficeEdit, Bundle
  <2>4. server' \in Bundle
    BY <1>0, <2>2, <2>3 DEF Bundle
  <2> QED
    BY <1>0, <1>14, <2>4, <1>fault DEF OfficeEdit
<1>15. ASSUME NEW u \in Uuid, OfficeDelete(u) PROVE OfflineTypeOK'
  <2>1. server' \in Bundle /\ voided' \in [Uuid -> Nat]
    BY <1>0, <1>15 DEF OfficeDelete, Bundle
  <2> QED
    BY <1>0, <1>15, <2>1, <1>fault DEF OfficeDelete
<1>16. ASSUME NEW p \in Pusher, Answered(p) PROVE OfflineTypeOK'
  <2> DEFINE t == task[p]
  <2>1. t \in TaskRow /\ t.conn \in Conn /\ t.queue # <<>>
    BY <1>0, <1>16, TaskParts DEF Answered, TasksInShape, TaskInShape, TaskRow
  <2>2. Tail(t.queue) \in Seq(Seq(SentRow) \ {<<>>})
    BY <2>1 DEF TaskRow
  <2>3. [t EXCEPT !.conn = Null, !.queue = Tail(@), !.sent = 1] \in TaskRow
    BY <2>1, <2>2 DEF TaskRow
  <2>4. [t EXCEPT !.conn = Null, !.queue = Tail(@), !.sent = 1].conn = Null
    BY <2>1 DEF TaskRow
  <2>5. ASSUME NEW u \in Uuid, local[u] # Null
        PROVE  [local[u] EXCEPT !.synced = TRUE] \in LocalRow
    <3>1. local[u] \in LocalRow
      BY <1>0, <2>5
    <3> QED
      BY <3>1 DEF LocalRow
  <2>6. local' \in [Uuid -> LocalRow \cup {Null}]
    BY <1>0, <1>16, <2>5 DEF Answered, Marked
  <2> QED
    BY <1>0, <1>16, <2>1, <2>3, <2>4, <2>6 DEF Answered, Becomes
<1>17. ASSUME NEW p \in Pusher, task[p].conn # Null
       PROVE  AfterError(p) \in TaskRow /\ AfterError(p).conn = Null
  BY <1>0, <1>17, TaskParts DEF TasksInShape, TaskInShape, AfterError, Idle, Rest, TaskRow
<1>18. ASSUME NEW p \in Pusher, AnsweredError(p) PROVE OfflineTypeOK'
  <2>1. task[p].conn \in Conn
    BY <1>0, <1>18, TaskParts DEF AnsweredError, TaskRow
  <2> QED
    BY <1>0, <1>17, <1>18, <2>1 DEF AnsweredError, Becomes
<1>19. ASSUME NEW p \in Pusher, GiveUp(p) PROVE OfflineTypeOK'
  <2> DEFINE c == task[p].conn
  <2>1. c \in Conn /\ conn[c] \in RequestRow /\ conn[c].by = p
    BY <1>0, <1>19, TaskParts DEF GiveUp, TaskRow
  <2>2. [conn[c] EXCEPT !.by = Null] \in RequestRow
    BY <2>1 DEF RequestRow
  <2>3. conn' \in [Conn -> RequestRow \cup {Null}]
    BY <1>0, <1>19, <2>1, <2>2 DEF GiveUp
  <2>4. \A d \in Conn \ {c} : conn'[d] = conn[d]
    BY <1>0, <1>19, <2>1 DEF GiveUp
  <2>5. task' = [task EXCEPT ![p] = AfterError(p)] /\ AfterError(p) \in TaskRow /\ AfterError(p).conn = Null
    BY <1>17, <1>19 DEF GiveUp, Becomes
  <2>6. ASSUME NEW q \in Pusher, task'[q].conn # Null
        PROVE  conn'[task'[q].conn] # Null /\ conn'[task'[q].conn].by = q
    <3>1. q # p /\ task'[q] = task[q]
      BY <1>0, <2>5, <2>6
    <3>2. task[q].conn \in Conn /\ conn[task[q].conn].by = q /\ conn[task[q].conn] # Null
      BY <1>0, <2>6, <3>1, TaskParts DEF TaskRow
    <3>3. task[q].conn # c
      BY <2>1, <3>1, <3>2
    <3> QED
      BY <2>4, <3>1, <3>2, <3>3
  <2> HIDE DEF c
  <2> QED
    BY <1>0, <1>19, <2>3, <2>5, <2>6, <1>fault DEF GiveUp
<1>20. CASE Killed
  <2>1. ASSUME NEW c \in Conn, conn[c] # Null PROVE [conn[c] EXCEPT !.by = Null] \in RequestRow
    <3>1. conn[c] \in RequestRow
      BY <1>0, <2>1
    <3> QED
      BY <3>1 DEF RequestRow
  <2>2. conn' \in [Conn -> RequestRow \cup {Null}]
    BY <1>0, <1>20, <2>1 DEF Killed
  <2>3. task' \in [Pusher -> TaskRow] /\ \A p \in Pusher : task'[p].conn = Null
    BY <1>0, <1>20, TaskParts DEF Killed, Idle
  <2> QED
    BY <1>0, <1>20, <2>2, <2>3, <1>fault DEF Killed
<1>21. ASSUME NEW c \in Conn, Forgotten(c) PROVE OfflineTypeOK'
  BY <1>0, <1>21, NullAssumption DEF Forgotten
<1>22. ASSUME NEW p \in Pusher, PullAnswer(p) PROVE OfflineTypeOK'
  <2>1. [task[p] EXCEPT !.bundle = server] \in TaskRow
    BY ZenonT(40), <1>0, TaskParts DEF TaskRow
  <2>2. [task[p] EXCEPT !.bundle = server].conn = task[p].conn
    BY <1>0, TaskParts DEF TaskRow
  <2> QED
    BY <1>0, <1>22, <2>1, <2>2 DEF PullAnswer, Becomes
<1>23. ASSUME NEW p \in Pusher, task[p].at = "pull"
       PROVE  Rest(task[p]) \in TaskRow /\ Rest(task[p]).conn = Null
  BY <1>0, <1>23, TaskParts DEF TasksInShape, TaskInShape, Rest, TaskRow
<1>24. ASSUME NEW p \in Pusher, PullFails(p) PROVE OfflineTypeOK'
  BY <1>0, <1>23, <1>24, <1>fault DEF PullFails, Becomes
<1>25. ASSUME NEW p \in Pusher, PullApply(p) PROVE OfflineTypeOK'
  <2> DEFINE b == task[p].bundle
  <2>1. b \in Bundle /\ task[p].at = "pull"
    BY <1>0, <1>25, TaskParts DEF PullApply, TasksInShape, TaskInShape, TaskRow
  <2>2. ASSUME NEW u \in Uuid PROVE Applied(b, u) \in LocalRow \cup {Null}
    <3>1. b[u] # Null => b[u] \in ServerRow
      BY <2>1 DEF Bundle
    <3>2. local[u] # Null => local[u] \in LocalRow
      BY <1>0
    <3> HIDE DEF b
    <3> QED
      BY <3>1, <3>2 DEF Applied, Pending, LocalRow, ServerRow
  <2>3. local' \in [Uuid -> LocalRow \cup {Null}]
    BY <1>0, <1>25, <2>2 DEF PullApply
  <2> QED
    BY <1>0, <1>23, <1>25, <2>1, <2>3 DEF PullApply, Becomes
<1> QED
  BY <1>1, <1>2, <1>3, <1>4, <1>5, <1>6, <1>7, <1>8, <1>9, <1>10, <1>12, <1>13, <1>14, <1>15,
     <1>16, <1>18, <1>19, <1>20, <1>21, <1>22, <1>24, <1>25
  DEF OfflineNext, UserStep, TaskStep, ServerStep

-----------------------------------------------------------------------------
(* What a step makes of a request: it is sent, looked up or committed;      *)
(* otherwise it stays what it was, but may fail or lose its sender.         *)
Kept(c) ==
    /\ conn[c] # Null
    /\ conn'[c].rows = conn[c].rows /\ conn'[c].fresh = conn[c].fresh
    /\ conn'[c].link = conn[c].link /\ conn'[c].at \in {conn[c].at, "error"}

SentBy(p, c) ==
    /\ Send(p, c) /\ conn[c] = Null
    /\ conn'[c] = [rows |-> [i \in DOMAIN Head(task[p].queue) |-> AsSent(Head(task[p].queue)[i])],
                   by |-> p, at |-> "sent", fresh |-> {}, link |-> Null]

LEMMA RequestStep ==
  ASSUME OfflineTypeOK, [OfflineNext]_offlineVars, NEW c \in Conn, conn'[c] # Null
  PROVE  \/ Kept(c) \/ ServerLookup(c) \/ ServerCommit(c)
         \/ \E p \in Pusher : SentBy(p, c)
<1> USE DEF OfflineTypeOK
<1>1. ASSUME conn'[c] = conn[c] PROVE Kept(c)
  BY <1>1 DEF Kept
<1>2. CASE UNCHANGED conn
  BY <1>1, <1>2
<1>3. ASSUME NEW p \in Pusher, NEW d \in Conn, Send(p, d) PROVE Kept(c) \/ SentBy(p, c)
  <2>1. CASE c = d /\ conn[c] = Null
    BY <1>3, <2>1 DEF Send, SentBy
  <2>2. CASE ~ (c = d /\ conn[c] = Null)
    BY <1>1, <1>3, <2>2 DEF Send
  <2> QED
    BY <2>1, <2>2
<1>4. ASSUME NEW d \in Conn, ServerLookup(d) PROVE Kept(c) \/ ServerLookup(c)
  BY <1>1, <1>4 DEF ServerLookup
<1>5. ASSUME NEW d \in Conn, ServerCommit(d) PROVE Kept(c) \/ ServerCommit(c)
  BY <1>1, <1>5 DEF ServerCommit
<1>6. ASSUME NEW d \in Conn, ServerRefuse(d) PROVE Kept(c)
  <2>1. CASE c = d
    <3>1. conn[c] \in RequestRow /\ conn[c] # Null /\ conn'[c] = [conn[c] EXCEPT !.at = "error"]
      BY <1>6, <2>1 DEF ServerRefuse
    <3> QED
      BY <3>1 DEF Kept, RequestRow
  <2>2. CASE c # d
    BY <1>1, <1>6, <2>2 DEF ServerRefuse
  <2> QED
    BY <2>1, <2>2
<1>7. ASSUME NEW p \in Pusher, Answered(p) \/ AnsweredError(p) PROVE Kept(c)
  BY <1>1, <1>7 DEF Answered, AnsweredError
<1>8. ASSUME NEW p \in Pusher, GiveUp(p) PROVE Kept(c)
  <2>1. CASE c = task[p].conn /\ conn'[c] = [conn[c] EXCEPT !.by = Null]
    <3>1. conn[c] \in RequestRow /\ conn[c] # Null
      BY <1>8, <2>1 DEF GiveUp
    <3> QED
      BY <2>1, <3>1 DEF Kept, RequestRow
  <2>2. CASE c # task[p].conn
    BY <1>1, <1>8, <2>2 DEF GiveUp
  <2> QED
    BY <1>8, <2>1, <2>2 DEF GiveUp
<1>9. CASE Killed
  <2>1. conn[c] # Null /\ conn[c] \in RequestRow /\ conn'[c] = [conn[c] EXCEPT !.by = Null]
    BY <1>9 DEF Killed
  <2> QED
    BY <2>1 DEF Kept, RequestRow
<1>10. ASSUME NEW d \in Conn, Forgotten(d) PROVE Kept(c)
  BY <1>1, <1>10 DEF Forgotten
<1>11. ASSUME NEW p \in Pusher,
              \/ \E plan : StartTask(p, plan)
              \/ StartStep(p) \/ EndStep(p) \/ PullAnswer(p) \/ PullApply(p) \/ PullFails(p)
       PROVE  UNCHANGED conn
  BY <1>11 DEF StartTask, StartStep, EndStep, PullAnswer, PullApply, PullFails
<1>12. ASSUME UserStep \/ \E u \in Uuid : OfficeEdit(u) \/ OfficeDelete(u) PROVE UNCHANGED conn
  BY <1>12 DEF UserStep, Save, Edit, Delete, SignInAsOther, OfficeEdit, OfficeDelete
<1>13. CASE UNCHANGED offlineVars
  BY <1>2, <1>13 DEF offlineVars
<1> QED
  BY <1>2, <1>3, <1>4, <1>5, <1>6, <1>7, <1>8, <1>9, <1>10, <1>11, <1>12, <1>13
  DEF OfflineNext, TaskStep, ServerStep

(* What a lookup and a commit leave in their request.                       *)
LEMMA LookupStep ==
  ASSUME OfflineTypeOK, NEW c \in Conn, ServerLookup(c)
  PROVE  LET u == conn[c].rows[1].uuid IN
         /\ conn[c] # Null /\ conn[c] \in RequestRow /\ conn[c].at = "sent"
         /\ conn'[c].rows = conn[c].rows /\ conn'[c].fresh = Fresh(conn[c])
         /\ conn'[c].at = IF Fresh(conn[c]) = {} THEN "ok" ELSE "serving"
         /\ conn'[c].link = IF Base[u] # Null /\ server[Base[u]] # Null THEN Base[u] ELSE Null
         /\ UNCHANGED <<phone, office, task>>
<1> DEFINE r == conn[c]
<1> DEFINE at == IF Fresh(r) = {} THEN "ok" ELSE "serving"
<1> DEFINE u == r.rows[1].uuid
<1> DEFINE link == IF Base[u] # Null /\ server[Base[u]] # Null THEN Base[u] ELSE Null
<1>1. r # Null /\ r.at = "sent" /\ UNCHANGED <<phone, office, task>>
  BY DEF ServerLookup
<1>2. conn' = [conn EXCEPT ![c].at = at, ![c].fresh = Fresh(r), ![c].link = link]
  BY Zenon DEF ServerLookup
<1>3. r \in RequestRow /\ conn \in [Conn -> RequestRow \cup {Null}]
  BY <1>1 DEF OfflineTypeOK
<1> HIDE DEF at, link
<1>4. conn'[c] = [r EXCEPT !.at = at, !.fresh = Fresh(r), !.link = link]
  BY <1>2, <1>3
<1>5. /\ conn'[c].rows = r.rows /\ conn'[c].fresh = Fresh(r)
      /\ conn'[c].at = at /\ conn'[c].link = link
  BY <1>3, <1>4 DEF RequestRow
<1> QED
  BY <1>1, <1>3, <1>5 DEF at, link

LEMMA CommitStep ==
  ASSUME OfflineTypeOK, NEW c \in Conn, ServerCommit(c)
  PROVE  /\ conn[c] # Null /\ conn[c] \in RequestRow /\ conn[c].at = "serving"
         /\ conn'[c].rows = conn[c].rows /\ conn'[c].fresh = conn[c].fresh
         /\ conn'[c].link = conn[c].link
         /\ UNCHANGED <<phone, voided, task>>
         /\ \/ conn'[c].at = "error" /\ UNCHANGED <<server, made>>
            \/ /\ conn'[c].at = "ok" /\ Insertable(conn[c])
               /\ \A u \in Uuid :
                     IF u \in conn[c].fresh
                     THEN /\ server'[u] = [head |-> RowOf(conn[c], u).head,
                                           lines |-> RowOf(conn[c], u).lines,
                                           link |-> conn[c].link]
                          /\ made'[u] = made[u] + 1
                     ELSE server'[u] = server[u] /\ made'[u] = made[u]
<1> DEFINE r == conn[c]
<1>1. r # Null /\ r.at = "serving" /\ UNCHANGED <<phone, voided, task>>
  BY DEF ServerCommit
<1>2. r \in RequestRow /\ conn \in [Conn -> RequestRow \cup {Null}] /\ made \in [Uuid -> Nat]
  BY <1>1 DEF OfflineTypeOK
<1>3. ASSUME NEW a, conn' = [conn EXCEPT ![c].at = a]
      PROVE  /\ conn'[c].rows = r.rows /\ conn'[c].fresh = r.fresh
             /\ conn'[c].link = r.link /\ conn'[c].at = a
  <2>1. conn'[c] = [r EXCEPT !.at = a]
    BY <1>2, <1>3
  <2> QED
    BY <1>2, <2>1 DEF RequestRow
<1>4. CASE /\ Insertable(r)
           /\ server' = [u \in Uuid |->
                 IF u \in r.fresh THEN [head |-> RowOf(r, u).head,
                                        lines |-> RowOf(r, u).lines, link |-> r.link]
                 ELSE server[u]]
           /\ made' = [u \in Uuid |-> made[u] + IF u \in r.fresh THEN 1 ELSE 0]
           /\ conn' = [conn EXCEPT ![c].at = "ok"]
  <2>1. \A u \in Uuid : made[u] \in Nat
    BY <1>2
  <2> HIDE DEF r
  <2>2. \A u \in Uuid :
           IF u \in r.fresh
           THEN /\ server'[u] = [head |-> RowOf(r, u).head, lines |-> RowOf(r, u).lines,
                                 link |-> r.link]
                /\ made'[u] = made[u] + 1
           ELSE server'[u] = server[u] /\ made'[u] = made[u]
    BY <1>4, <2>1
  <2> QED
    BY <1>1, <1>2, <1>3, <1>4, <2>2 DEF r
<1>5. CASE UNCHANGED <<server, made>> /\ conn' = [conn EXCEPT ![c].at = "error"]
  BY <1>1, <1>2, <1>3, <1>5
<1> QED
  BY <1>4, <1>5 DEF ServerCommit

(* What a step makes of a task: it stays, it rests, it begins a step of its *)
(* plan, it skips a transfer without lines, sends, has its answer, or has   *)
(* its bundle.                                                              *)
Rests(p) ==
    /\ task'[p].at \in {"idle", "between"} /\ task'[p].queue = <<>>
    /\ task'[p].conn = Null /\ task'[p].bundle = Null

Begins(p) ==
    /\ task[p].at = "between" /\ task[p].plan # <<>>
    /\ \/ task'[p] = [task[p] EXCEPT !.at = "pull"]
       \/ \E step \in Steps : task'[p] = [task[p] EXCEPT !.queue = Requests(step), !.at = "push"]

Skips(p) ==
    /\ task[p].queue # <<>> /\ task[p].conn = Null
    /\ Kind[AsSent(Head(task[p].queue)[1]).uuid] = "transfer"
    /\ task'[p] = [task[p] EXCEPT !.queue = Tail(@)]

Sends(p) ==
    /\ task[p].at = "push" /\ task[p].queue # <<>>
    /\ \E c \in Conn : SentBy(p, c) /\ task'[p] = [task[p] EXCEPT !.conn = c]

Pops(p) ==
    /\ Answered(p) /\ task[p].queue # <<>>
    /\ task'[p] = [task[p] EXCEPT !.conn = Null, !.queue = Tail(@), !.sent = 1]

Pulls(p) == task[p].at = "pull" /\ task'[p] = [task[p] EXCEPT !.bundle = server]

LEMMA TaskSteps ==
  ASSUME OfflineTypeOK, TasksInShape, [OfflineNext]_offlineVars, NEW p \in Pusher
  PROVE  \/ task'[p] = task[p]
         \/ Rests(p) \/ Begins(p) \/ Skips(p) \/ Sends(p) \/ Pops(p) \/ Pulls(p)
<1> USE DEF OfflineTypeOK
<1>0. task[p] \in TaskRow /\ \A q \in Pusher : \A t : Becomes(q, t) /\ q # p => task'[p] = task[p]
  BY TaskParts DEF Becomes
<1>1. CASE UNCHANGED task
  BY <1>1
<1>2. ASSUME task'[p] \in {Idle, Rest(task[p]), AfterError(p)} PROVE Rests(p)
  <2>1. CASE task'[p] = Idle
    BY <2>1 DEF Rests, Idle
  <2>2. CASE task'[p] = Rest(task[p])
    BY <1>0, <2>2 DEF Rests, Rest, TaskRow
  <2> QED
    BY <1>2, <2>1, <2>2 DEF AfterError
<1>3. ASSUME NEW q \in Pusher, NEW plan, StartTask(q, plan)
      PROVE  task'[p] = task[p] \/ Rests(p)
  BY <1>0, <1>3 DEF StartTask, Becomes, Idle, Rests
<1>4. ASSUME NEW q \in Pusher, StartStep(q)
      PROVE  task'[p] = task[p] \/ Rests(p) \/ Begins(p)
  <2>1. CASE q = p
    <3> DEFINE t == task[p]
    <3>1. t.plan # <<>> => Head(t.plan) \in Steps
      BY <1>0 DEF TaskRow
    <3>2. CASE task'[p] \in {Idle, Rest(t)}
      BY <1>2, <3>2
    <3>3. CASE \/ t.plan # <<>> /\ task'[p] = [t EXCEPT !.at = "pull"]
               \/ t.plan # <<>> /\ task'[p] = [t EXCEPT !.queue = Requests(Head(t.plan)), !.at = "push"]
      BY <1>4, <2>1, <3>1, <3>3 DEF StartStep, Begins
    <3> QED
      BY <1>4, <2>1, <3>2, <3>3 DEF StartStep, Becomes
  <2>2. CASE q # p
    BY <1>0, <1>4, <2>2 DEF StartStep
  <2> QED
    BY <2>1, <2>2
<1>5. ASSUME NEW q \in Pusher, NEW c \in Conn, Send(q, c)
      PROVE  task'[p] = task[p] \/ Skips(p) \/ Sends(p)
  <2>1. CASE q = p
    <3> DEFINE rows == [i \in DOMAIN Head(task[p].queue) |-> AsSent(Head(task[p].queue)[i])]
    <3>1. task[p].queue # <<>> /\ task[p].conn = Null /\ task[p].at = "push"
      BY <1>5, <2>1 DEF Send
    <3>2. Head(task[p].queue) \in Seq(SentRow) \ {<<>>}
      BY <1>0, <3>1 DEF TaskRow
    <3>3. 1 \in DOMAIN Head(task[p].queue)
      BY <3>2
    <3>4. rows[1] = AsSent(Head(task[p].queue)[1])
      BY <3>3
    <3>5. CASE Kind[rows[1].uuid] = "transfer" /\ Becomes(p, [task[p] EXCEPT !.queue = Tail(@)])
      BY <3>1, <3>4, <3>5 DEF Skips, Becomes
    <3>6. CASE /\ conn[c] = Null
               /\ conn' = [conn EXCEPT ![c] = [rows |-> rows, by |-> p, at |-> "sent",
                                               fresh |-> {}, link |-> Null]]
               /\ Becomes(p, [task[p] EXCEPT !.conn = c])
      BY <1>5, <2>1, <3>1, <3>6 DEF Sends, SentBy, Becomes
    <3> QED
      BY <1>5, <2>1, <3>5, <3>6 DEF Send
  <2>2. CASE q # p
    BY <1>0, <1>5, <2>2 DEF Send
  <2> QED
    BY <2>1, <2>2
<1>6. ASSUME NEW q \in Pusher, Answered(q) PROVE task'[p] = task[p] \/ Pops(p)
  BY <1>0, <1>6 DEF Answered, Becomes, TasksInShape, TaskInShape, Pops
<1>7. ASSUME NEW q \in Pusher,
             EndStep(q) \/ AnsweredError(q) \/ GiveUp(q) \/ PullFails(q) \/ PullApply(q)
      PROVE  task'[p] = task[p] \/ Rests(p)
  <2>1. CASE q = p
    BY <1>2, <1>7, <2>1 DEF EndStep, AnsweredError, GiveUp, PullFails, PullApply, Becomes
  <2>2. CASE q # p
    BY <1>0, <1>7, <2>2 DEF EndStep, AnsweredError, GiveUp, PullFails, PullApply
  <2> QED
    BY <2>1, <2>2
<1>8. ASSUME NEW q \in Pusher, PullAnswer(q) PROVE task'[p] = task[p] \/ Pulls(p)
  BY <1>0, <1>8 DEF PullAnswer, Becomes, Pulls
<1>9. CASE Killed
  BY <1>2, <1>9 DEF Killed
<1>10. ASSUME NEW c \in Conn, ServerStep(c) \/ ServerRefuse(c) PROVE UNCHANGED task
  BY <1>10 DEF ServerStep, ServerLookup, ServerCommit, Forgotten, ServerRefuse
<1>11. ASSUME UserStep \/ \E u \in Uuid : OfficeEdit(u) \/ OfficeDelete(u) PROVE UNCHANGED task
  BY <1>11 DEF UserStep, Save, Edit, Delete, SignInAsOther, OfficeEdit, OfficeDelete
<1>12. CASE UNCHANGED offlineVars
  BY <1>1, <1>12 DEF offlineVars
<1> QED
  BY <1>1, <1>3, <1>4, <1>5, <1>6, <1>7, <1>8, <1>9, <1>10, <1>11, <1>12
  DEF OfflineNext, TaskStep

-----------------------------------------------------------------------------
(* A pusher and its request keep what they hold of each other.              *)
LEMMA ShapeStep ==
  ASSUME OfflineInv, [OfflineNext]_offlineVars
  PROVE  TasksInShape' /\ RequestsInShape'
<1>0. /\ OfflineTypeOK /\ TasksInShape /\ RequestsInShape /\ PendingWasSaved /\ BaseIsKept
      /\ OfflineTypeOK'
  BY TypeStep DEF OfflineInv
<1>1. ASSUME NEW p \in Pusher, task[p].queue # <<>>
      PROVE  /\ Head(task[p].queue) \in Seq(SentRow) \ {<<>>}
             /\ SingleOrVisits(Head(task[p].queue))
             /\ \A i \in DOMAIN Tail(task[p].queue) :
                   Tail(task[p].queue)[i] = task[p].queue[i + 1] /\ i + 1 \in DOMAIN task[p].queue
  <2>1. task[p].queue \in Seq(Seq(SentRow) \ {<<>>})
    BY <1>0, TaskParts DEF TaskRow
  <2>2. 1 \in DOMAIN task[p].queue /\ Head(task[p].queue) = task[p].queue[1]
    BY <1>1, <2>1
  <2> QED
    BY <1>0, <1>1, <2>1, <2>2 DEF TasksInShape, TaskInShape
<1>2. ASSUME NEW c \in Conn PROVE RequestInShape(c)'
  <2> SUFFICES ASSUME conn'[c] # Null
               PROVE  /\ conn'[c].rows # <<>> /\ SingleOrVisits(conn'[c].rows)
                      /\ conn'[c].fresh \subseteq Asked(conn'[c])
    BY DEF RequestInShape
  <2>1. CASE Kept(c)
    BY <1>0, <2>1 DEF Kept, RequestsInShape, RequestInShape, Asked
  <2>2. CASE ServerLookup(c)
    <3>1. /\ conn[c] # Null /\ RequestInShape(c)
          /\ conn'[c].rows = conn[c].rows /\ conn'[c].fresh = Fresh(conn[c])
      BY <1>0, <2>2, LookupStep DEF RequestsInShape
    <3> QED
      BY <3>1 DEF RequestInShape, Fresh, Asked
  <2>3. CASE ServerCommit(c)
    BY <1>0, <2>3, CommitStep DEF RequestsInShape, RequestInShape, Asked
  <2>4. ASSUME NEW p \in Pusher, SentBy(p, c)
        PROVE  /\ conn'[c].rows # <<>> /\ SingleOrVisits(conn'[c].rows)
               /\ conn'[c].fresh \subseteq Asked(conn'[c])
    <3>1. task[p].queue # <<>>
      BY <2>4 DEF SentBy, Send
    <3>2. /\ conn'[c].rows # <<>> /\ UuidsOf(conn'[c].rows) = UuidsOf(Head(task[p].queue))
          /\ conn'[c].fresh = {}
      BY <1>0, <1>1, <2>4, <3>1, RowsAsSent DEF SentBy
    <3> QED
      BY <1>1, <3>1, <3>2 DEF SingleOrVisits
  <2> QED
    BY <1>0, <2>1, <2>2, <2>3, <2>4, RequestStep
<1>3. ASSUME NEW p \in Pusher PROVE TaskInShape(p)'
  <2>0. task[p] \in TaskRow /\ TaskInShape(p)
    BY <1>0, TaskParts DEF TasksInShape
  <2>1. CASE task'[p] = task[p]
    <3>1. ASSUME task[p].conn # Null
          PROVE  conn'[task[p].conn].rows = conn[task[p].conn].rows
      <4> DEFINE c == task[p].conn
      <4>1. c \in Conn /\ conn[c] # Null /\ conn'[c] # Null /\ conn[c] \in RequestRow
        BY ZenonT(40), <1>0, <2>0, <2>1, <3>1 DEF OfflineTypeOK, TaskRow
      <4>2. Kept(c) \/ ServerLookup(c) \/ ServerCommit(c)
        BY <1>0, <4>1, RequestStep DEF SentBy
      <4> QED
        BY <1>0, <4>1, <4>2, LookupStep, CommitStep DEF Kept
    <3> QED
      BY <2>0, <2>1, <3>1 DEF TaskInShape
  <2>2. CASE Rests(p)
    BY <2>2 DEF Rests, TaskInShape
  <2>3. CASE Begins(p)
    <3>1. task[p].conn = Null /\ task[p].bundle = Null
      BY <2>0, <2>3 DEF Begins, TaskInShape
    <3>2. CASE task'[p] = [task[p] EXCEPT !.at = "pull"]
      BY <2>0, <2>3, <3>1, <3>2 DEF Begins, TaskInShape, TaskRow
    <3>3. ASSUME NEW step \in Steps,
                 task'[p] = [task[p] EXCEPT !.queue = Requests(step), !.at = "push"]
          PROVE  TaskInShape(p)'
      <4>1. \A i \in DOMAIN Requests(step) : SingleOrVisits(Requests(step)[i])
        BY <1>0, RequestsOfStep
      <4> QED
        BY <2>0, <2>3, <3>1, <3>3, <4>1 DEF Begins, TaskInShape, TaskRow
    <3> QED
      BY <2>3, <3>2, <3>3 DEF Begins
  <2>4. CASE Skips(p)
    BY <1>1, <2>0, <2>4 DEF Skips, TaskInShape, TaskRow
  <2>5. CASE Sends(p)
    <3>1. PICK c \in Conn : SentBy(p, c) /\ task'[p] = [task[p] EXCEPT !.conn = c]
      BY <2>5 DEF Sends
    <3>2. UuidsOf(conn'[c].rows) = UuidsOf(Head(task[p].queue))
      BY <1>0, <1>1, <2>5, <3>1, RowsAsSent DEF SentBy, Sends
    <3>3. task'[p].conn = c /\ task'[p].queue = task[p].queue /\ task'[p].at = task[p].at
          /\ task'[p].plan = task[p].plan /\ task'[p].bundle = task[p].bundle
      BY <2>0, <3>1 DEF TaskRow
    <3> QED
      BY <2>0, <2>5, <3>2, <3>3 DEF Sends, TaskInShape
  <2>6. CASE Pops(p)
    BY <1>1, <2>0, <2>6 DEF Pops, Answered, TaskInShape, TaskRow
  <2>7. CASE Pulls(p)
    BY <2>0, <2>7 DEF Pulls, TaskInShape, TaskRow
  <2> QED
    BY <1>0, <2>1, <2>2, <2>3, <2>4, <2>5, <2>6, <2>7, TaskSteps
<1> QED
  BY <1>2, <1>3 DEF TasksInShape, RequestsInShape
-----------------------------------------------------------------------------
(* What a step makes of a row of the server: it stays, changed or not, it   *)
(* is created by a commit, or the office deletes it.                        *)
Stays(u) ==
    /\ made'[u] = made[u] /\ voided'[u] = voided[u]
    /\ server'[u] = Null <=> server[u] = Null
    /\ server[u] # Null => server'[u].link = server[u].link

CreatedBy(c, u) ==
    /\ ServerCommit(c) /\ conn'[c].at = "ok" /\ u \in conn[c].fresh /\ Insertable(conn[c])
    /\ server[u] = Null /\ server'[u] # Null /\ server'[u].link = conn[c].link
    /\ made'[u] = made[u] + 1 /\ voided'[u] = voided[u]

Deleted(u) ==
    /\ OfficeDelete(u) /\ server[u] # Null /\ server'[u] = Null
    /\ made'[u] = made[u] /\ voided'[u] = voided[u] + 1

LEMMA OfficeStep ==
  ASSUME OfflineTypeOK, RequestsInShape, OfflineTypeOK', [OfflineNext]_offlineVars, NEW u \in Uuid
  PROVE  Stays(u) \/ (\E c \in Conn : CreatedBy(c, u)) \/ Deleted(u)
<1> USE DEF OfflineTypeOK
<1>1. CASE UNCHANGED office
  BY <1>1 DEF Stays, office
<1>2. ASSUME NEW c \in Conn, ServerCommit(c) PROVE Stays(u) \/ CreatedBy(c, u)
  <2>1. CASE conn'[c].at = "error" /\ UNCHANGED <<server, made>>
    BY <1>2, <2>1, CommitStep DEF Stays
  <2>2. CASE /\ conn'[c].at = "ok" /\ Insertable(conn[c])
             /\ \A v \in Uuid :
                   IF v \in conn[c].fresh
                   THEN /\ server'[v] = [head |-> RowOf(conn[c], v).head,
                                         lines |-> RowOf(conn[c], v).lines,
                                         link |-> conn[c].link]
                        /\ made'[v] = made[v] + 1
                   ELSE server'[v] = server[v] /\ made'[v] = made[v]
    <3>0. UNCHANGED voided
      BY <1>2, CommitStep
    <3>1. CASE u \in conn[c].fresh
      <4> DEFINE row == [head |-> RowOf(conn[c], u).head, lines |-> RowOf(conn[c], u).lines,
                         link |-> conn[c].link]
      <4>1. conn[c] # Null /\ u \in Asked(conn[c])
        BY <1>2, <3>1, CommitStep DEF RequestsInShape, RequestInShape
      <4>2. server[u] = Null
        BY <2>2, <3>1 DEF Insertable
      <4>3. server'[u] = row /\ server'[u].link = conn[c].link
        BY <2>2, <3>1
      <4>4. conn[c].link \in Uuid \cup {Null}
        BY <1>2, CommitStep DEF RequestRow
      <4>5. row \in ServerRow
        <5>1. RowOf(conn[c], u) \in SentRow
          BY <4>1, RowOfTyped
        <5>2. RowOf(conn[c], u).lines > 0
          BY <1>2, <2>2, <3>1 DEF ServerCommit
        <5> QED
          BY <4>4, <5>1, <5>2, LimitAssumption DEF SentRow, ServerRow, OfficeVersion
      <4>6. server'[u] # Null
        BY <4>3, <4>5, NullAssumption
      <4> QED
        BY <1>2, <2>2, <3>0, <3>1, <4>2, <4>3, <4>6 DEF CreatedBy
    <3>2. CASE u \notin conn[c].fresh
      BY <2>2, <3>0, <3>2 DEF Stays
    <3> QED
      BY <3>1, <3>2
  <2> QED
    BY <1>2, <2>1, <2>2, CommitStep
<1>3. ASSUME NEW v \in Uuid, OfficeEdit(v) PROVE Stays(u)
  <2>1. server[v] # Null /\ server[v] \in ServerRow
    BY <1>3 DEF OfficeEdit, Bundle
  <2>2. server' = [server EXCEPT ![v] = [server[v] EXCEPT !.head = OfficeVersion, !.lines = OfficeVersion]]
    BY <1>3, <2>1 DEF OfficeEdit, Bundle, ServerRow
  <2>3. u = v => server'[u] \in ServerRow /\ server'[u].link = server[u].link
    <3> DEFINE row == [server[v] EXCEPT !.head = OfficeVersion, !.lines = OfficeVersion]
    <3>0. OfficeVersion \in 1..OfficeVersion
      BY LimitAssumption DEF OfficeVersion
    <3>1. row \in ServerRow /\ row.link = server[v].link
      BY <2>1, <3>0 DEF ServerRow
    <3>2. server'[v] = row
      BY <2>2 DEF Bundle
    <3> HIDE DEF row
    <3> QED
      BY <3>1, <3>2
  <2>4. u # v => server'[u] = server[u]
    BY <2>2 DEF Bundle
  <2>5. UNCHANGED <<made, voided>>
    BY <1>3 DEF OfficeEdit
  <2> QED
    BY <2>1, <2>3, <2>4, <2>5, NullAssumption DEF Stays
<1>4. ASSUME NEW v \in Uuid, OfficeDelete(v) PROVE Stays(u) \/ Deleted(u)
  <2>1. CASE v = u
    BY <1>4, <2>1 DEF OfficeDelete, Deleted, Bundle
  <2>2. CASE v # u
    BY <1>4, <2>2 DEF OfficeDelete, Stays, Bundle
  <2> QED
    BY <2>1, <2>2
<1>5. ASSUME NEW c \in Conn, ServerLookup(c) \/ Forgotten(c) \/ ServerRefuse(c)
      PROVE  UNCHANGED office
  BY <1>5 DEF ServerLookup, Forgotten, ServerRefuse
<1>6. ASSUME NEW p \in Pusher,
             (\E plan : StartTask(p, plan)) \/ TaskStep(p) \/ GiveUp(p) \/ PullFails(p)
      PROVE  UNCHANGED office
  BY <1>6 DEF StartTask, TaskStep, StartStep, EndStep, Send, Answered, AnsweredError, PullAnswer,
              PullApply, GiveUp, PullFails
<1>7. ASSUME UserStep \/ Killed \/ UNCHANGED offlineVars PROVE UNCHANGED office
  BY <1>7 DEF UserStep, Save, Edit, Delete, SignInAsOther, Killed, offlineVars
<1> QED
  BY <1>1, <1>2, <1>3, <1>4, <1>5, <1>6, <1>7 DEF OfflineNext, ServerStep

(* What was made stays made, what was deleted stays deleted.                *)
LEMMA Remembered ==
  ASSUME OfflineTypeOK, RequestsInShape, OfflineTypeOK', [OfflineNext]_offlineVars, NEW u \in Uuid
  PROVE  /\ made[u] > 0 => made'[u] > 0
         /\ voided[u] > 0 => voided'[u] > 0
<1>1. made[u] \in Nat /\ voided[u] \in Nat
  BY DEF OfflineTypeOK
<1> QED
  BY <1>1, OfficeStep DEF Stays, CreatedBy, Deleted

(* What the server made is there or was deleted.                            *)
LEMMA ThereStep ==
  ASSUME OfflineInv, [OfflineNext]_offlineVars
  PROVE  MadeIsThere'
<1>0. OfflineTypeOK /\ RequestsInShape /\ MadeIsThere /\ OfflineTypeOK'
  BY TypeStep DEF OfflineInv
<1> SUFFICES ASSUME NEW u \in Uuid
             PROVE  made'[u] = voided'[u] + IF server'[u] # Null THEN 1 ELSE 0
  BY DEF MadeIsThere
<1>1. made[u] \in Nat /\ voided[u] \in Nat
  BY <1>0 DEF OfflineTypeOK
<1>2. made[u] = voided[u] + IF server[u] # Null THEN 1 ELSE 0
  BY <1>0 DEF MadeIsThere
<1> QED
  BY <1>0, <1>1, <1>2, OfficeStep DEF Stays, CreatedBy, Deleted

(* What was looked up, answered or pulled had been made.                    *)
LEMMA FoundStep ==
  ASSUME OfflineInv, [OfflineNext]_offlineVars
  PROVE  FoundWasMade'
<1>0. /\ OfflineTypeOK /\ TasksInShape /\ RequestsInShape /\ MadeIsThere /\ FoundWasMade
      /\ OfflineTypeOK'
  BY TypeStep DEF OfflineInv
<1>1. \A u \in Uuid : made[u] > 0 => made'[u] > 0
  BY <1>0, Remembered
<1>2. \A u \in Uuid : server[u] # Null => made[u] > 0
  BY <1>0 DEF MadeIsThere, OfflineTypeOK
<1>3. ASSUME NEW c \in Conn, conn'[c] # Null, NEW u \in Asked(conn'[c])
      PROVE  \/ conn'[c].at = "sent" \/ conn'[c].at = "error"
             \/ conn'[c].at = "serving" /\ u \in conn'[c].fresh
             \/ made'[u] > 0
  <2>0. u \in Uuid
    <3>1. conn'[c].rows \in Seq(SentRow)
      BY <1>0, <1>3 DEF OfflineTypeOK, RequestRow
    <3>2. PICK i \in DOMAIN conn'[c].rows : conn'[c].rows[i].uuid = u
      BY <1>3 DEF Asked
    <3>3. conn'[c].rows[i] \in SentRow
      BY <3>1, <3>2
    <3> QED
      BY <3>2, <3>3 DEF SentRow
  <2>1. CASE Kept(c)
    <3>1. u \in Asked(conn[c]) /\ conn[c] # Null
      BY <1>3, <2>1 DEF Kept, Asked
    <3> QED
      BY <1>0, <1>1, <2>0, <2>1, <3>1 DEF Kept, FoundWasMade
  <2>2. CASE ServerLookup(c)
    <3>1. u \in Asked(conn[c])
      BY <1>0, <1>3, <2>2, LookupStep DEF Asked
    <3>2. u \in Fresh(conn[c]) \/ made'[u] > 0
      BY <1>1, <1>2, <2>0, <3>1 DEF Fresh
    <3> QED
      BY <1>0, <2>2, <3>2, LookupStep
  <2>3. CASE ServerCommit(c)
    <3>1. u \in Asked(conn[c]) /\ conn[c] # Null /\ conn[c].at = "serving"
      BY <1>0, <1>3, <2>3, CommitStep DEF Asked
    <3>2. u \in conn[c].fresh \/ made'[u] > 0
      BY <1>0, <1>1, <2>0, <3>1 DEF FoundWasMade
    <3>3. made[u] \in Nat
      BY <1>0, <2>0 DEF OfflineTypeOK
    <3>4. conn'[c].at = "ok" /\ u \in conn[c].fresh => made'[u] = made[u] + 1
      BY <1>0, <2>0, <2>3, CommitStep
    <3>5. conn'[c].at = "error" \/ conn'[c].at = "ok"
      BY <1>0, <2>3, CommitStep
    <3> QED
      BY <3>2, <3>3, <3>4, <3>5
  <2>4. CASE \E p \in Pusher : SentBy(p, c)
    BY <2>4 DEF SentBy
  <2> QED
    BY <1>0, <1>3, <2>1, <2>2, <2>3, <2>4, RequestStep
<1>4. ASSUME NEW p \in Pusher, task'[p].bundle # Null, NEW u \in Uuid, task'[p].bundle[u] # Null
      PROVE  made'[u] > 0
  <2>0. task[p] \in TaskRow
    BY <1>0, TaskParts
  <2>1. CASE task'[p].bundle = task[p].bundle
    BY <1>0, <1>1, <1>4, <2>1 DEF FoundWasMade
  <2>2. CASE Rests(p)
    BY <1>4, <2>2 DEF Rests
  <2>3. CASE Pulls(p)
    BY <1>1, <1>2, <1>4, <2>0, <2>3 DEF Pulls, TaskRow
  <2>4. CASE Begins(p) \/ Skips(p) \/ Sends(p) \/ Pops(p)
    BY <2>0, <2>1, <2>4 DEF Begins, Skips, Sends, Pops, TaskRow
  <2> QED
    BY <1>0, <2>1, <2>2, <2>3, <2>4, TaskSteps
<1> QED
  BY <1>3, <1>4 DEF FoundWasMade
-----------------------------------------------------------------------------
(* What a step makes of a row on the phone: it stays, is saved, edited,     *)
(* deleted, or goes while it is not pending; or it is marked as uploaded,   *)
(* and then the document had been made.                                     *)
Gone(u) == ~ Pending(u) /\ local'[u] = Null
Uploaded(u) == local'[u] # Null /\ local'[u].synced /\ made[u] > 0

LEMMA LocalStep ==
  ASSUME OfflineInv, [OfflineNext]_offlineVars, NEW u \in Uuid
  PROVE  \/ local'[u] = local[u]
         \/ Save(u) \/ Delete(u)
         \/ Pending(u) /\ Pending(u)'
         \/ Gone(u) \/ Uploaded(u)
<1>0. OfflineTypeOK /\ TasksInShape /\ FoundWasMade
  BY DEF OfflineInv
<1> USE DEF OfflineTypeOK
<1>1. ASSUME UNCHANGED phone PROVE local'[u] = local[u]
  BY <1>1 DEF phone
<1>2. ASSUME NEW v \in Uuid, Save(v) \/ Delete(v) PROVE local'[u] = local[u] \/ Save(u) \/ Delete(u)
  BY <1>0, <1>2 DEF Save, Delete
<1>3. ASSUME NEW v \in Uuid, Edit(v) PROVE local'[u] = local[u] \/ (Pending(u) /\ Pending(u)')
  <2>1. local[v] # Null /\ local[v] \in LocalRow /\ ~ local[v].synced
    BY <1>0, <1>3 DEF Edit, Pending
  <2>2. u # v => local'[u] = local[u]
    BY <1>0, <1>3 DEF Edit
  <2>3. local' = [local EXCEPT ![v] = [local[v] EXCEPT !.head = @ + 1, !.lines = local[v].head + 1]]
    BY <1>0, <1>3, <2>1 DEF Edit, LocalRow
  <2> DEFINE row == [local[v] EXCEPT !.head = @ + 1, !.lines = local[v].head + 1]
  <2>4. row \in LocalRow /\ ~ row.synced
    <3>1. local[v].head + 1 \in 1..OfficeVersion
      BY <1>3, <2>1, LimitAssumption DEF Edit, LocalRow, OfficeVersion
    <3> QED
      BY <2>1, <3>1 DEF LocalRow
  <2>5. local'[v] = row
    BY <1>0, <2>3
  <2> HIDE DEF row
  <2>6. Pending(v)'
    BY <2>4, <2>5, NullAssumption DEF Pending
  <2> QED
    BY <2>1, <2>2, <2>6 DEF Pending
<1>4. CASE SignInAsOther
  BY <1>4 DEF SignInAsOther, Gone
<1>5. ASSUME NEW p \in Pusher, Answered(p) PROVE local'[u] = local[u] \/ Uploaded(u)
  <2> DEFINE r == conn[task[p].conn]
  <2>1. task[p].conn \in Conn /\ r # Null /\ r.at = "ok"
    BY <1>0, <1>5, TaskParts DEF Answered, TaskRow
  <2>2. CASE Marked(r, u)
    <3>1. made[u] > 0
      BY <1>0, <2>1, <2>2 DEF FoundWasMade, Marked
    <3>2. local[u] \in LocalRow /\ local'[u] = [local[u] EXCEPT !.synced = TRUE]
      BY <1>0, <1>5, <2>2 DEF Answered, Marked
    <3>3. local'[u] \in LocalRow /\ local'[u].synced
      BY <3>2 DEF LocalRow
    <3> QED
      BY <3>1, <3>3, NullAssumption DEF Uploaded
  <2>3. CASE ~ Marked(r, u)
    BY <1>5, <2>3 DEF Answered
  <2> QED
    BY <2>2, <2>3
<1>6. ASSUME NEW p \in Pusher, PullApply(p) PROVE local'[u] = local[u] \/ Gone(u) \/ Uploaded(u)
  <2> DEFINE b == task[p].bundle
  <2>1. b # Null
    BY <1>6 DEF PullApply
  <2>2. CASE u \notin Pulled \/ Pending(u)
    BY <1>6, <2>2 DEF PullApply, Applied
  <2>3. CASE u \in Pulled /\ ~ Pending(u) /\ b[u] = Null
    BY <1>6, <2>3 DEF PullApply, Applied, Gone
  <2>4. CASE u \in Pulled /\ ~ Pending(u) /\ b[u] # Null
    <3> DEFINE row == [head |-> b[u].head, lines |-> b[u].lines,
                       own |-> local[u] # Null /\ local[u].own, synced |-> TRUE]
    <3>1. local'[u] = row
      BY <1>6, <2>4 DEF PullApply, Applied
    <3>2. b[u] \in ServerRow
      BY <1>0, <2>1, <2>4, TaskParts DEF TaskRow, Bundle
    <3>3. local[u] # Null => local[u] \in LocalRow
      BY <1>0
    <3>4. row \in LocalRow /\ row.synced
      BY <3>2, <3>3 DEF ServerRow, LocalRow
    <3>5. made[u] > 0
      BY <1>0, <2>1, <2>4 DEF FoundWasMade
    <3> HIDE DEF row
    <3> QED
      BY <3>1, <3>4, <3>5, NullAssumption DEF Uploaded
  <2> QED
    BY <2>2, <2>3, <2>4
<1>7. ASSUME NEW p \in Pusher,
             \/ \E plan : StartTask(p, plan)
             \/ StartStep(p) \/ EndStep(p) \/ (\E c \in Conn : Send(p, c))
             \/ AnsweredError(p) \/ PullAnswer(p) \/ GiveUp(p) \/ PullFails(p)
      PROVE  UNCHANGED phone
  BY <1>7 DEF StartTask, StartStep, EndStep, Send, AnsweredError, PullAnswer, GiveUp, PullFails
<1>8. ASSUME NEW c \in Conn, ServerStep(c) \/ ServerRefuse(c) PROVE UNCHANGED phone
  BY <1>8 DEF ServerStep, ServerLookup, ServerCommit, Forgotten, ServerRefuse
<1>9. ASSUME (\E v \in Uuid : OfficeEdit(v) \/ OfficeDelete(v)) \/ Killed \/ UNCHANGED offlineVars
      PROVE  UNCHANGED phone
  BY <1>9 DEF OfficeEdit, OfficeDelete, Killed, offlineVars
<1> QED
  BY <1>1, <1>2, <1>3, <1>4, <1>5, <1>6, <1>7, <1>8, <1>9
  DEF OfflineNext, UserStep, TaskStep

(* The documents saved and dropped are only added to, one with its row.     *)
LEMMA SavedSteps ==
  ASSUME [OfflineNext]_offlineVars
  PROVE  /\ dropped \subseteq dropped'
         /\ \/ saved' = saved
            \/ \E u \in Uuid : Save(u) /\ saved' = saved \cup {u}
<1>1. CASE UNCHANGED <<saved, dropped>>
  BY <1>1
<1>2. ASSUME NEW u \in Uuid, Save(u) \/ Delete(u)
      PROVE  /\ dropped \subseteq dropped'
             /\ saved' = saved \/ (Save(u) /\ saved' = saved \cup {u})
  BY <1>2 DEF Save, Delete
<1> QED
  BY <1>1, <1>2
  DEF OfflineNext, UserStep, TaskStep, ServerStep, Edit, SignInAsOther, StartTask, StartStep, EndStep,
      Send, Answered, AnsweredError, PullAnswer, PullApply, GiveUp, PullFails, ServerLookup,
      ServerCommit, Forgotten, ServerRefuse, OfficeEdit, OfficeDelete, Killed, offlineVars, phone

(* What is marked as uploaded was made, and nothing saved is lost.          *)
LEMMA SavedStep ==
  ASSUME OfflineInv, [OfflineNext]_offlineVars
  PROVE  SyncedWasMade' /\ NeverLost' /\ PendingWasSaved' /\ BaseIsKept'
<1>0. /\ OfflineTypeOK /\ RequestsInShape /\ SyncedWasMade /\ NeverLost /\ PendingWasSaved
      /\ BaseIsKept /\ OfflineTypeOK'
  BY TypeStep DEF OfflineInv
<1>1. \A u \in Uuid : made[u] > 0 => made'[u] > 0
  BY <1>0, Remembered
<1>2. ASSUME NEW u \in Uuid, Save(u)
      PROVE  /\ local' = [local EXCEPT ![u] = [head |-> 1, lines |-> 1, own |-> TRUE,
                                               synced |-> FALSE]]
             /\ Pending(u)' /\ u \in saved' /\ local'[u] # Null /\ ~ local'[u].synced
  <2> DEFINE row == [head |-> 1, lines |-> 1, own |-> TRUE, synced |-> FALSE]
  <2>1. row \in LocalRow /\ ~ row.synced
    BY LimitAssumption DEF LocalRow, OfficeVersion
  <2>2. local' = [local EXCEPT ![u] = row] /\ saved' = saved \cup {u}
    BY <1>2 DEF Save
  <2>3. local'[u] = row
    BY <1>0, <2>2 DEF OfflineTypeOK
  <2>4. local'[u] # Null /\ ~ local'[u].synced
    BY <2>1, <2>3, NullAssumption
  <2> QED
    BY <2>2, <2>4 DEF Pending
<1>3. ASSUME NEW u \in Uuid, Delete(u)
      PROVE  local'[u] = Null /\ u \in dropped' /\ Kind[u] # "sale"
  BY <1>0, <1>3 DEF Delete, OfflineTypeOK
<1>4. SyncedWasMade'
  <2> SUFFICES ASSUME NEW u \in Uuid, local'[u] # Null, local'[u].synced
               PROVE  made'[u] > 0
    BY <1>0 DEF SyncedWasMade
  <2>1. ~ Save(u) /\ ~ Delete(u) /\ ~ Pending(u)' /\ ~ Gone(u)
    BY <1>2, <1>3 DEF Pending, Gone
  <2>2. local'[u] = local[u] \/ Uploaded(u)
    BY <2>1, LocalStep
  <2> QED
    BY <1>0, <1>1, <2>2 DEF SyncedWasMade, Uploaded
<1>5. NeverLost'
  <2> SUFFICES ASSUME NEW u \in saved'
               PROVE  local'[u] # Null \/ made'[u] > 0 \/ u \in dropped'
    BY DEF NeverLost
  <2>1. u \in Uuid
    BY <1>0 DEF OfflineTypeOK
  <2>2. CASE Save(u) \/ Delete(u)
    BY <1>2, <1>3, <2>1, <2>2
  <2>3. CASE ~ Save(u) /\ ~ Delete(u)
    <3>1. u \in saved
      BY <1>0, <2>3, SavedSteps DEF OfflineTypeOK
    <3>2. local[u] # Null \/ made'[u] > 0 \/ u \in dropped'
      BY <1>0, <1>1, <2>1, <3>1, SavedSteps DEF NeverLost
    <3>3. local[u] # Null => Pending(u) \/ made'[u] > 0
      BY <1>0, <1>1, <2>1 DEF SyncedWasMade, Pending
    <3> QED
      BY <2>1, <2>3, <3>2, <3>3, LocalStep DEF Gone, Uploaded, Pending
  <2> QED
    BY <2>2, <2>3
<1>6. PendingWasSaved'
  <2>1. IsFiniteSet(saved')
    BY <1>0, SavedSteps, FS_AddElement DEF PendingWasSaved
  <2>2. ASSUME NEW u \in Uuid, Pending(u)' PROVE u \in saved'
    <3>1. CASE Save(u)
      BY <1>2, <3>1
    <3>2. CASE ~ Save(u)
      <4>1. Pending(u)
        BY <1>3, <2>2, <3>2, LocalStep DEF Pending, Gone, Uploaded
      <4> QED
        BY <1>0, <4>1, SavedSteps DEF PendingWasSaved
    <3> QED
      BY <3>1, <3>2
  <2> QED
    BY <2>1, <2>2 DEF PendingWasSaved
<1>7. BaseIsKept'
  <2> SUFFICES ASSUME NEW u \in saved', Kind[u] = "bonus"
               PROVE  Pending(Base[u])' \/ made'[Base[u]] > 0
    BY DEF BaseIsKept
  <2> DEFINE b == Base[u]
  <2>1. u \in Uuid /\ b \in Uuid /\ Kind[b] = "sale"
    BY <1>0, BaseAssumption DEF OfflineTypeOK
  <2>2. b < u /\ b # u /\ b # Null
    BY <2>1, BaseAssumption, UuidAssumption, NullAssumption
  <2>3. CASE Save(u)
    <3>1. local[b] # Null /\ local'[b] = local[b]
      BY <1>0, <1>2, <2>1, <2>2, <2>3 DEF Save, OfflineTypeOK
    <3>2. local[b].synced => made'[b] > 0
      BY <1>0, <1>1, <2>1, <3>1 DEF SyncedWasMade
    <3> QED
      BY <3>1, <3>2 DEF Pending
  <2>4. CASE ~ Save(u)
    <3>1. u \in saved
      BY <1>0, <2>4, SavedSteps DEF OfflineTypeOK
    <3>2. Pending(b) \/ made'[b] > 0
      BY <1>0, <1>1, <2>1, <3>1 DEF BaseIsKept
    <3>3. ~ Delete(b)
      BY <1>3, <2>1
    <3>4. Save(b) => Pending(b)'
      BY <1>2, <2>1
    <3>5. Uploaded(b) => made'[b] > 0
      BY <1>1, <2>1 DEF Uploaded
    <3> HIDE DEF b
    <3>6. Pending(b) => Pending(b)' \/ made'[b] > 0
      BY <2>1, <3>3, <3>4, <3>5, LocalStep DEF Gone, Pending
    <3> QED
      BY <3>2, <3>6 DEF b
  <2> QED
    BY <2>3, <2>4
<1> QED
  BY <1>4, <1>5, <1>6, <1>7
-----------------------------------------------------------------------------
(* In a queue, what a bonus is for is ahead of it, or was made.             *)
LEMMA AheadStep ==
  ASSUME OfflineInv, [OfflineNext]_offlineVars
  PROVE  BaseIsAhead'
<1>0. /\ OfflineTypeOK /\ TasksInShape /\ RequestsInShape /\ FoundWasMade /\ PendingWasSaved
      /\ BaseIsKept /\ BaseIsAhead /\ OfflineTypeOK'
  BY TypeStep DEF OfflineInv
<1>1. \A u \in Uuid : made[u] > 0 => made'[u] > 0
  BY <1>0, Remembered
<1> SUFFICES ASSUME NEW p \in Pusher, NEW i \in DOMAIN task'[p].queue,
                    NEW u \in UuidsOf(task'[p].queue[i]), Kind[u] = "bonus"
             PROVE  \/ made'[Base[u]] > 0
                    \/ \E j \in 1..(i - 1) : Base[u] \in UuidsOf(task'[p].queue[j])
  BY DEF BaseIsAhead
<1> DEFINE b == Base[u]
           queue == task[p].queue
<1>2. task[p] \in TaskRow /\ queue \in Seq(Seq(SentRow) \ {<<>>}) /\ TaskInShape(p)
  BY <1>0, TaskParts DEF TaskRow, TasksInShape
<1>3. u \in Uuid /\ b \in Uuid /\ Kind[b] = "sale"
  <2>1. task'[p] \in TaskRow
    BY <1>0 DEF OfflineTypeOK
  <2>2. task'[p].queue[i] \in Seq(SentRow)
    BY <2>1 DEF TaskRow
  <2>3. PICK k \in DOMAIN task'[p].queue[i] : task'[p].queue[i][k].uuid = u
    BY DEF UuidsOf
  <2>4. task'[p].queue[i][k] \in SentRow
    BY <2>2, <2>3
  <2> QED
    BY <2>3, <2>4, BaseAssumption DEF SentRow
<1>4. ASSUME task'[p].queue = queue
      PROVE  made'[b] > 0 \/ \E j \in 1..(i - 1) : b \in UuidsOf(task'[p].queue[j])
  BY <1>0, <1>1, <1>3, <1>4 DEF BaseIsAhead
<1>5. CASE Rests(p)
  BY <1>5 DEF Rests
<1>6. ASSUME NEW step \in Steps,
             task'[p] = [task[p] EXCEPT !.queue = Requests(step), !.at = "push"]
      PROVE  made'[b] > 0 \/ \E j \in 1..(i - 1) : b \in UuidsOf(task'[p].queue[j])
  <2>1. task'[p].queue = Requests(step)
    BY <1>2, <1>6 DEF TaskRow
  <2>2. made[b] > 0 \/ \E j \in 1..(i - 1) : b \in UuidsOf(Requests(step)[j])
    BY <1>0, <1>6, <2>1, RequestsOfStep
  <2> QED
    BY <1>1, <1>3, <2>1, <2>2
<1>7. ASSUME queue # <<>>, task'[p].queue = Tail(queue),
             b \in UuidsOf(Head(queue)) => made'[b] > 0
      PROVE  made'[b] > 0 \/ \E j \in 1..(i - 1) : b \in UuidsOf(task'[p].queue[j])
  <2>1. /\ i \in Nat \ {0} /\ i + 1 \in DOMAIN queue /\ queue[i + 1] = task'[p].queue[i]
        /\ Head(queue) = queue[1]
        /\ \A j \in DOMAIN queue : j # 1 => queue[j] = task'[p].queue[j - 1]
    <3> HIDE DEF queue
    <3>1. queue \in Seq(Seq(SentRow) \ {<<>>}) /\ queue # <<>>
      BY <1>2, <1>7
    <3>2. i \in DOMAIN Tail(queue)
      BY <1>7
    <3>3. /\ i \in Nat \ {0} /\ i + 1 \in DOMAIN queue /\ queue[i + 1] = Tail(queue)[i]
          /\ Head(queue) = queue[1]
      BY <3>1, <3>2
    <3>4. \A j \in DOMAIN queue : j # 1 => queue[j] = Tail(queue)[j - 1]
      BY <3>1
    <3> QED
      BY <1>7, <3>3, <3>4
  <2> HIDE DEF queue, b
  <2>2. made[b] > 0 \/ \E j \in 1..i : b \in UuidsOf(queue[j])
    BY <1>0, <2>1 DEF BaseIsAhead, queue, b
  <2>3. CASE made[b] > 0
    BY <1>1, <1>3, <2>3
  <2>4. ASSUME NEW j \in 1..i, b \in UuidsOf(queue[j])
        PROVE  made'[b] > 0 \/ \E k \in 1..(i - 1) : b \in UuidsOf(task'[p].queue[k])
    <3>1. CASE j = 1
      BY <1>7, <2>1, <2>4, <3>1
    <3>2. CASE j # 1
      <4>1. j \in DOMAIN queue
        BY <1>2, <2>1 DEF queue
      <4>2. j - 1 \in 1..(i - 1) /\ queue[j] = task'[p].queue[j - 1]
        BY <2>1, <3>2, <4>1
      <4> QED
        BY <2>4, <4>2
    <3> QED
      BY <3>1, <3>2
  <2> QED
    BY <2>2, <2>3, <2>4
<1>8. CASE Skips(p)
  <2>1. queue # <<>> /\ task'[p].queue = Tail(queue)
    BY <1>2, <1>8 DEF Skips, TaskRow
  <2>2. Head(queue) \in Seq(SentRow) \ {<<>>} /\ SingleOrVisits(Head(queue))
    BY <1>2, <2>1 DEF TaskInShape
  <2>3. 1 \in DOMAIN Head(queue) /\ Head(queue)[1] \in SentRow
    BY <2>2
  <2>4. AsSent(Head(queue)[1]).uuid = Head(queue)[1].uuid
    BY <2>3 DEF AsSent, SentRow
  <2>5. Kind[Head(queue)[1].uuid] = "transfer" /\ Head(queue)[1].uuid \in UuidsOf(Head(queue))
    BY <1>8, <2>3, <2>4 DEF Skips, UuidsOf
  <2>6. b \notin UuidsOf(Head(queue))
    BY <1>3, <2>2, <2>5 DEF SingleOrVisits
  <2> QED
    BY <1>7, <2>1, <2>6
<1>9. CASE Pops(p)
  <2>1. queue # <<>> /\ task'[p].queue = Tail(queue)
    BY <1>2, <1>9 DEF Pops, TaskRow
  <2>2. task[p].conn # Null /\ task[p].conn \in Conn /\ conn[task[p].conn].at = "ok"
    BY <1>2, <1>9 DEF Pops, Answered, TaskRow
  <2>3. conn[task[p].conn] # Null /\ UuidsOf(Head(queue)) = Asked(conn[task[p].conn])
    BY <1>0, <1>2, <2>2 DEF TaskInShape, UuidsOf, Asked, OfflineTypeOK
  <2>4. b \in UuidsOf(Head(queue)) => made'[b] > 0
    BY <1>0, <1>1, <1>3, <2>2, <2>3 DEF FoundWasMade
  <2> QED
    BY <1>7, <2>1, <2>4
<1>10. CASE \/ Sends(p) \/ Pulls(p)
            \/ task'[p] = task[p] \/ task'[p] = [task[p] EXCEPT !.at = "pull"]
  BY <1>2, <1>4, <1>10 DEF Sends, Pulls, TaskRow
<1> QED
  BY <1>0, <1>5, <1>6, <1>8, <1>9, <1>10, TaskSteps DEF Begins

(* When a bonus is on its way, its invoice had arrived.                     *)
LEMMA ArrivedStep ==
  ASSUME OfflineInv, [OfflineNext]_offlineVars
  PROVE  BaseArrived'
<1>0. /\ OfflineTypeOK /\ TasksInShape /\ RequestsInShape /\ MadeIsThere /\ BaseIsAhead
      /\ BaseArrived /\ OfflineTypeOK'
  BY TypeStep DEF OfflineInv
<1>1. \A u \in Uuid : (made[u] > 0 => made'[u] > 0) /\ (voided[u] > 0 => voided'[u] > 0)
  BY <1>0, Remembered
<1> SUFFICES ASSUME NEW c \in Conn, conn'[c] # Null,
                    NEW u \in Asked(conn'[c]), Kind[u] = "bonus"
             PROVE  /\ made'[Base[u]] > 0
                    /\ conn'[c].at = "serving" => conn'[c].link = Base[u] \/ voided'[Base[u]] > 0
  BY DEF BaseArrived
<1> DEFINE b == Base[u]
<1>2. u \in Uuid /\ b \in Uuid
  <2>1. conn'[c].rows \in Seq(SentRow)
    BY <1>0 DEF OfflineTypeOK, RequestRow
  <2>2. PICK i \in DOMAIN conn'[c].rows : conn'[c].rows[i].uuid = u
    BY DEF Asked
  <2>3. conn'[c].rows[i] \in SentRow
    BY <2>1, <2>2
  <2> QED
    BY <2>2, <2>3, BaseAssumption DEF SentRow
<1>3. CASE Kept(c)
  <2>1. u \in Asked(conn[c]) /\ conn[c] # Null
    BY <1>3 DEF Kept, Asked
  <2>2. made[b] > 0 /\ (conn[c].at = "serving" => conn[c].link = b \/ voided[b] > 0)
    BY <1>0, <2>1 DEF BaseArrived
  <2> QED
    BY <1>1, <1>2, <1>3, <2>2 DEF Kept
<1>4. CASE ServerLookup(c)
  <2>1. conn[c] # Null /\ u \in Asked(conn[c]) /\ conn[c] \in RequestRow
    BY <1>0, <1>4, LookupStep DEF Asked
  <2>2. made[b] > 0
    BY <1>0, <2>1 DEF BaseArrived
  <2>3. conn[c].rows # <<>> /\ SingleOrVisits(conn[c].rows) /\ conn[c].rows \in Seq(SentRow)
    BY <1>0, <2>1 DEF RequestsInShape, RequestInShape, RequestRow
  <2>4. conn[c].rows[1].uuid = u
    <3>1. 1 \in DOMAIN conn[c].rows
      BY <2>3
    <3>2. conn[c].rows[1].uuid \in UuidsOf(conn[c].rows) /\ u \in UuidsOf(conn[c].rows)
      BY <2>1, <3>1 DEF UuidsOf, Asked
    <3> QED
      BY <2>3, <3>2 DEF SingleOrVisits
  <2>5. conn'[c].link = IF b # Null /\ server[b] # Null THEN b ELSE Null
    BY <1>0, <1>4, <2>4, LookupStep
  <2>6. b # Null
    BY <1>2, NullAssumption
  <2>7. server[b] = Null => voided[b] > 0
    BY <1>0, <1>2, <2>2 DEF MadeIsThere, OfflineTypeOK
  <2> QED
    BY <1>1, <1>2, <2>2, <2>5, <2>6, <2>7
<1>5. CASE ServerCommit(c)
  <2>1. /\ u \in Asked(conn[c]) /\ conn[c] # Null
        /\ conn'[c].at = "error" \/ conn'[c].at = "ok"
    BY <1>0, <1>5, CommitStep DEF Asked
  <2> QED
    BY <1>0, <1>1, <1>2, <2>1 DEF BaseArrived
<1>6. ASSUME NEW p \in Pusher, SentBy(p, c)
      PROVE  made'[b] > 0 /\ conn'[c].at # "serving"
  <2>1. task[p].queue # <<>> /\ task[p].queue \in Seq(Seq(SentRow) \ {<<>>})
    BY <1>0, <1>6, TaskParts DEF SentBy, Send, TaskRow
  <2>2. 1 \in DOMAIN task[p].queue /\ Head(task[p].queue) = task[p].queue[1]
        /\ Head(task[p].queue) \in Seq(SentRow) \ {<<>>}
    BY <2>1
  <2>3. u \in UuidsOf(conn'[c].rows)
    BY DEF UuidsOf, Asked
  <2>4. u \in UuidsOf(task[p].queue[1])
    BY <1>0, <1>6, <2>2, <2>3, RowsAsSent DEF SentBy
  <2>5. made[b] > 0 \/ \E j \in 1..(1 - 1) : b \in UuidsOf(task[p].queue[j])
    BY <1>0, <2>2, <2>4 DEF BaseIsAhead
  <2>6. conn'[c].at = "sent"
    BY <1>6 DEF SentBy
  <2> QED
    BY <1>1, <1>2, <2>5, <2>6
<1> QED
  BY <1>0, <1>3, <1>4, <1>5, <1>6, RequestStep

(* So a bonus is linked to its invoice, unless that was deleted.            *)
LEMMA LinkedStep ==
  ASSUME OfflineInv, [OfflineNext]_offlineVars
  PROVE  BonusIsLinked'
<1>0. OfflineTypeOK /\ RequestsInShape /\ BaseArrived /\ BonusIsLinked /\ OfflineTypeOK'
  BY TypeStep DEF OfflineInv
<1> SUFFICES ASSUME NEW u \in Uuid, Kind[u] = "bonus", server'[u] # Null
             PROVE  server'[u].link = Base[u] \/ voided'[Base[u]] > 0
  BY DEF BonusIsLinked
<1>1. Base[u] \in Uuid
  BY BaseAssumption
<1>2. voided[Base[u]] > 0 => voided'[Base[u]] > 0
  BY <1>0, <1>1, Remembered
<1>3. CASE Stays(u)
  BY <1>0, <1>2, <1>3 DEF Stays, BonusIsLinked
<1>4. ASSUME NEW c \in Conn, CreatedBy(c, u)
      PROVE  server'[u].link = Base[u] \/ voided'[Base[u]] > 0
  <2>1. conn[c] # Null /\ conn[c].at = "serving"
    BY <1>0, <1>4, CommitStep DEF CreatedBy
  <2>2. u \in Asked(conn[c])
    BY <1>0, <1>4, <2>1 DEF CreatedBy, RequestsInShape, RequestInShape
  <2> QED
    BY <1>0, <1>2, <1>4, <2>1, <2>2 DEF BaseArrived, CreatedBy
<1> QED
  BY <1>0, <1>3, <1>4, OfficeStep DEF Deleted
-----------------------------------------------------------------------------
LEMMA OfflineInvInit == OfflineInit => OfflineInv
<1> SUFFICES ASSUME OfflineInit PROVE OfflineInv
  OBVIOUS
<1>1. OfflineTypeOK
  <2>1. Idle \in TaskRow /\ Idle.conn = Null
    BY DEF Idle, TaskRow
  <2> QED
    BY <2>1, LimitAssumption DEF OfflineTypeOK, OfflineInit, Bundle
<1>2. \A p \in Pusher : task[p].queue = <<>> /\ task[p].conn = Null /\ task[p].bundle = Null
                        /\ task[p].at = "idle"
  BY DEF OfflineInit, Idle
<1>3. TasksInShape
  BY <1>2 DEF TasksInShape, TaskInShape
<1>4. RequestsInShape /\ BaseArrived
  BY DEF OfflineInit, RequestsInShape, RequestInShape, BaseArrived
<1>5. BaseIsAhead
  BY <1>2 DEF BaseIsAhead
<1>6. FoundWasMade
  BY <1>2 DEF OfflineInit, FoundWasMade
<1>7. MadeIsThere
  BY DEF OfflineInit, MadeIsThere
<1>8. SyncedWasMade /\ NeverLost
  BY <1>1 DEF OfflineInit, SyncedWasMade, NeverLost
<1>9. PendingWasSaved /\ BaseIsKept
  BY FS_EmptySet DEF OfflineInit, PendingWasSaved, Pending, BaseIsKept
<1>10. BonusIsLinked
  BY DEF OfflineInit, BonusIsLinked
<1> QED
  BY <1>1, <1>3, <1>4, <1>5, <1>6, <1>7, <1>8, <1>9, <1>10 DEF OfflineInv

LEMMA OfflineInvStep == OfflineInv /\ [OfflineNext]_offlineVars => OfflineInv'
<1> SUFFICES ASSUME OfflineInv, [OfflineNext]_offlineVars PROVE OfflineInv'
  OBVIOUS
<1> QED
  BY TypeStep, ShapeStep, ThereStep, FoundStep, SavedStep, AheadStep, ArrivedStep, LinkedStep
  DEF OfflineInv

(* The invariant holds in every state, whatever documents, pushers,         *)
(* connections and plans there are.                                         *)
THEOREM OfflineInvariant == OfflineSpec => []OfflineInv
<1>1. OfflineInit => OfflineInv
  BY OfflineInvInit
<1>2. OfflineInv /\ [OfflineNext]_offlineVars => OfflineInv'
  BY OfflineInvStep
<1> QED
  BY <1>1, <1>2, PTL DEF OfflineSpec

(* A document is made once, and one the phone shows as uploaded was made    *)
(* (api_client.dart: push; auto_sync.dart; the uuid lookups of the          *)
(* endpoints).                                                              *)
THEOREM DocumentsReachOnce == OfflineSpec => []ReachedOnce
<1>1. OfflineInv => ReachedOnce
  <2> SUFFICES ASSUME OfflineInv PROVE ReachedOnce
    OBVIOUS
  <2>1. MadeOnce
    BY DEF OfflineInv, OfflineTypeOK, MadeIsThere, MadeOnce
  <2> QED
    BY <2>1 DEF OfflineInv, ReachedOnce
<1> QED
  BY <1>1, OfflineInvariant, PTL

(* No pull, sign-in, crash or lost answer loses a saved document            *)
(* (local_db.dart: applyServerInvoices, wipeUserData, markSaleSynced).      *)
THEOREM NothingSavedIsLost == OfflineSpec => []NeverLost
<1>1. OfflineInv => NeverLost
  BY DEF OfflineInv
<1> QED
  BY <1>1, OfflineInvariant, PTL

(* A bonus never overtakes its invoice, on the phone or on the way          *)
(* (local_db.dart: pendingSaleInvoices; api_client.dart: pushSaleInvoices). *)
THEOREM BonusesStayLinked == OfflineSpec => []BonusIsLinked
<1>1. OfflineInv => BonusIsLinked
  BY DEF OfflineInv
<1> QED
  BY <1>1, OfflineInvariant, PTL
-----------------------------------------------------------------------------
(* What a state (how far it came, and at what count) may say of the punches *)
(* that are not on the server: none of them is far behind it, nor will a    *)
(* later one be; and the count is not the present one while some are left.  *)
NotAhead(l) ==
    l # Null =>
        /\ l \in Nat
        /\ \A p \in Unsent : p.at >= l - Overlap
        /\ l =< FirstDay \/ \E q \in punched : l =< q.at

CountedAll(c) == c # Null /\ held = punched /\ c = Cardinality(held) => Unsent = {}

NotCountedBefore(c) == c # Null => c \in Nat /\ c =< Cardinality(punched)

Truthful(l, c) ==
    /\ NotAhead(l) /\ CountedAll(c) /\ NotCountedBefore(c)
    /\ c # Null => l # Null

(* What a run under way has read, and what it is still to send.             *)
TodoIsRest(seen, todo) ==
    /\ todo \subseteq punched
    /\ held = punched /\ seen = Cardinality(held) => Unsent \subseteq todo
    /\ \A p \in Unsent \ todo, q \in todo : p.at >= q.at - Overlap

RunRow == [step : {"count", "read", "send"}, last : Nat \cup {Null},
           count : Nat \cup {Null}, seen : Nat \cup {Null}, cursor : Nat, todo : SUBSET Punch]

RunTruthful(g) ==
    /\ g \in RunRow
    /\ Truthful(g.last, g.count) /\ NotCountedBefore(g.seen)
    /\ g.last = Null => g.cursor = FirstDay
    /\ g.step # "send" => g.cursor = Cursor(g)
    /\ g.step # "count" => g.seen # Null
    /\ g.step = "send" => TodoIsRest(g.seen, g.todo)

AgentTyped ==
    /\ punched \subseteq Punch /\ held \subseteq punched
    /\ arrived \subseteq Punch /\ late \subseteq Punch
    /\ going = [r \in Run |-> going[r]]
    /\ file = [last |-> file.last, count |-> file.count]

AgentHonest ==
    /\ AgentTyped /\ Truthful(file.last, file.count)
    /\ \A r \in Run : going[r] # Null => RunTruthful(going[r])

AgentInv ==
    /\ since \in Nat /\ since >= FirstDay
    /\ since = FirstDay => AgentHonest

(* The steps of a run, as changes of its row.                               *)
Counted(g, n) == [g EXCEPT !.step = "read", !.seen = n]
Selected(g, todo) == [g EXCEPT !.step = "send", !.todo = todo]
Advanced(g, chunk, newest) == [g EXCEPT !.todo = @ \ chunk, !.last = newest]

LEMMA RunRowParts ==
  ASSUME NEW g \in RunRow
  PROVE  /\ g.step \in {"count", "read", "send"} /\ g.last \in Nat \cup {Null}
         /\ g.count \in Nat \cup {Null} /\ g.seen \in Nat \cup {Null}
         /\ g.cursor \in Nat /\ g.todo \subseteq Punch
BY DEF RunRow

LEMMA CountedParts ==
  ASSUME NEW g \in RunRow, NEW n \in Nat
  PROVE  LET h == Counted(g, n)
         IN  /\ h \in RunRow /\ h.step = "read" /\ h.seen = n
             /\ h.last = g.last /\ h.count = g.count /\ h.cursor = g.cursor
BY DEF RunRow, Counted

LEMMA SelectedParts ==
  ASSUME NEW g \in RunRow, NEW todo \in SUBSET Punch
  PROVE  LET h == Selected(g, todo)
         IN  /\ h \in RunRow /\ h.step = "send" /\ h.todo = todo
             /\ h.last = g.last /\ h.count = g.count /\ h.seen = g.seen
             /\ h.cursor = g.cursor
BY DEF RunRow, Selected

LEMMA AdvancedParts ==
  ASSUME NEW g \in RunRow, NEW chunk, NEW newest \in Nat
  PROVE  LET h == Advanced(g, chunk, newest)
         IN  /\ h \in RunRow /\ h.step = g.step /\ h.todo = g.todo \ chunk
             /\ h.last = newest /\ h.count = g.count /\ h.seen = g.seen
             /\ h.cursor = g.cursor
BY DEF RunRow, Advanced

LEMMA StartedParts ==
  ASSUME NEW s, s.last \in Nat \cup {Null}, s.count \in Nat \cup {Null}, Cursor(s) \in Nat
  PROVE  LET h == Started(s)
         IN  /\ h \in RunRow /\ h.step = "count" /\ h.seen = Null
             /\ h.last = s.last /\ h.count = s.count /\ h.cursor = Cursor(s)
             /\ Cursor(h) = Cursor(s)
BY DEF RunRow, Started, Cursor

(* The greatest of two, and of a batch with what went before.               *)
LEMMA MaxOfTwo ==
  ASSUME NEW a \in Int, NEW b \in Int
  PROVE  Max({a, b}) \in {a, b} /\ Max({a, b}) >= a /\ Max({a, b}) >= b
<1>1. \E x \in {a, b} : \A y \in {a, b} : x >= y
  BY DEF Max
<1> QED
  BY <1>1 DEF Max

LEMMA NewestIs ==
  ASSUME NEW chunk \in SUBSET Punch, chunk # {}, NEW l \in Nat \cup {Null}
  PROVE  LET newest == Max({p.at : p \in chunk} \cup ({l} \ {Null}))
         IN  /\ newest \in Nat
             /\ newest = l \/ \E p \in chunk : newest = p.at
<1> DEFINE S == {p.at : p \in chunk} \cup ({l} \ {Null})
           rank == [p \in chunk |-> p.at]
<1>1. IsFiniteSet(chunk) /\ \A p \in chunk : p.at \in Nat
  BY AgentAssumption, FS_Subset
<1>2. \A p \in chunk : rank[p] \in Int /\ rank[p] = p.at
  BY <1>1
<1> HIDE DEF rank
<1>3. PICK m \in chunk : \A p \in chunk : rank[p] =< rank[m]
  BY <1>1, <1>2, HighestExists
<1>4. m.at \in Nat /\ \A p \in chunk : m.at >= p.at
  BY <1>1, <1>2, <1>3
<1>5. \E x \in S : \A y \in S : x >= y
  <2>1. CASE l # Null /\ l > m.at
    <3>1. l \in S /\ \A y \in S : l >= y
      BY <1>1, <1>4, <2>1
    <3> QED
      BY <3>1
  <2>2. CASE ~ (l # Null /\ l > m.at)
    <3>1. m.at \in S /\ \A y \in S : m.at >= y
      BY <1>1, <1>4, <2>2
    <3> QED
      BY <3>1
  <2> QED
    BY <2>1, <2>2
<1>6. Max(S) \in S
  <2> HIDE DEF S
  <2> QED
    BY <1>5 DEF Max
<1>7. S \subseteq Nat /\ \A y \in S : y = l \/ \E p \in chunk : y = p.at
  BY <1>1
<1> QED
  BY <1>6, <1>7

(* Where a run begins, when no month has begun.                             *)
LEMMA CursorIs ==
  ASSUME since = FirstDay, NEW s, s.last \in Nat \cup {Null}
  PROVE  /\ Cursor(s) \in Nat
         /\ s.last = Null => Cursor(s) = FirstDay
         /\ s.last # Null => Cursor(s) = FirstDay \/ Cursor(s) = s.last - Overlap
<1>1. CASE s.last = Null
  BY <1>1, AgentAssumption DEF Cursor
<1>2. CASE s.last # Null /\ Overlap > 0
  <2>1. s.last \in Nat /\ s.last - Overlap \in Int /\ since \in Int
    BY <1>2, AgentAssumption
  <2>2. /\ Max({since, s.last - Overlap}) \in {since, s.last - Overlap}
        /\ Max({since, s.last - Overlap}) >= since
    BY <2>1, MaxOfTwo
  <2>3. Cursor(s) = Max({since, s.last - Overlap})
    BY <1>2 DEF Cursor
  <2> QED
    BY <1>2, <2>1, <2>2, <2>3, AgentAssumption
<1>3. CASE s.last # Null /\ ~ (Overlap > 0)
  BY <1>3, AgentAssumption DEF Cursor
<1> QED
  BY <1>1, <1>2, <1>3
-----------------------------------------------------------------------------
(* A step that makes no punch and leaves fewer to send.                     *)
Fewer ==
    /\ Unsent' \subseteq Unsent /\ punched' = punched /\ since' = since
    /\ held' = held \/ Unsent' = {}

LEMMA TruthKept ==
  ASSUME Fewer, NEW l, NEW c, Truthful(l, c)
  PROVE  Truthful(l, c)'
BY DEF Fewer, Truthful, NotAhead, CountedAll, NotCountedBefore

LEMMA TodoKept ==
  ASSUME Fewer, NEW seen, NEW todo, TodoIsRest(seen, todo)
  PROVE  TodoIsRest(seen, todo)'
BY DEF Fewer, TodoIsRest

LEMMA RunKept ==
  ASSUME Fewer, NEW g, RunTruthful(g)
  PROVE  RunTruthful(g)'
<1>1. /\ Truthful(g.last, g.count)'
      /\ g.step = "send" => TodoIsRest(g.seen, g.todo)'
  BY TruthKept, TodoKept DEF RunTruthful
<1>2. NotCountedBefore(g.seen)' /\ Cursor(g)' = Cursor(g)
  BY DEF RunTruthful, NotCountedBefore, Fewer, Cursor
<1> QED
  BY <1>1, <1>2 DEF RunTruthful, RunRow

(* A punch is made: no count is the present one any more, and it is not far *)
(* behind what was made before.                                             *)
LEMMA OneMore ==
  ASSUME AgentTyped, NEW x \in Punch, MakePunch(x)
  PROVE  /\ IsFiniteSet(punched) /\ Cardinality(punched) \in Nat
         /\ punched' = punched \cup {x} /\ held' = held \cup {x}
         /\ Cardinality(punched') = Cardinality(punched) + 1
         /\ Unsent' \subseteq Unsent \cup {x}
         /\ x.at \in Nat /\ \A q \in punched : x.at >= q.at - Overlap
         /\ \A q \in punched : q.at \in Nat
         /\ x \in Unsent' => x.at >= FirstDay
<1>1. IsFiniteSet(punched) /\ x \notin punched
  BY AgentAssumption, FS_Subset DEF AgentTyped, MakePunch
<1>2. Cardinality(punched) \in Nat /\ Cardinality(punched \cup {x}) = Cardinality(punched) + 1
  BY <1>1, FS_CardinalityType, FS_AddElement
<1>3. /\ punched' = punched \cup {x} /\ held' = held \cup {x}
      /\ \A q \in punched : x.at >= q.at - Overlap
  BY DEF MakePunch
<1>4. Unsent' \subseteq Unsent \cup {x} /\ (x \in Unsent' => x.at >= FirstDay)
  BY DEF MakePunch, Unsent
<1>5. x.at \in Nat /\ \A q \in punched : q.at \in Nat
  BY AgentAssumption DEF AgentTyped
<1> QED
  BY <1>1, <1>2, <1>3, <1>4, <1>5

LEMMA TruthAfterPunch ==
  ASSUME AgentTyped, NEW x \in Punch, MakePunch(x), NEW l, NEW c, Truthful(l, c)
  PROVE  Truthful(l, c)'
<1>1. NotAhead(l)'
  <2> SUFFICES ASSUME l # Null PROVE NotAhead(l)'
    BY DEF NotAhead
  <2>1. /\ l \in Nat
        /\ \A p \in Unsent : p.at >= l - Overlap
        /\ l =< FirstDay \/ \E q \in punched : l =< q.at
    BY DEF Truthful, NotAhead
  <2>2. x \in Unsent' => x.at >= l - Overlap
    BY <2>1, OneMore, AgentAssumption
  <2>3. \A p \in Unsent' : p.at >= l - Overlap
    BY <2>1, <2>2, OneMore
  <2>4. l =< FirstDay \/ \E q \in punched' : l =< q.at
    BY <2>1, OneMore
  <2> QED
    BY <2>1, <2>3, <2>4 DEF NotAhead
<1>2. NotCountedBefore(c)' /\ (c # Null => c # Cardinality(punched'))
  BY OneMore DEF Truthful, NotCountedBefore
<1>3. CountedAll(c)'
  BY <1>2 DEF CountedAll
<1> QED
  BY <1>1, <1>2, <1>3 DEF Truthful

LEMMA RunAfterPunch ==
  ASSUME AgentTyped, NEW x \in Punch, MakePunch(x), NEW g, RunTruthful(g)
  PROVE  RunTruthful(g)'
<1>1. Truthful(g.last, g.count)'
  BY TruthAfterPunch DEF RunTruthful
<1>2. /\ NotCountedBefore(g.seen)'
      /\ g.seen # Null => g.seen # Cardinality(punched')
  BY OneMore DEF RunTruthful, NotCountedBefore
<1>3. Cursor(g)' = Cursor(g)
  BY DEF MakePunch, Cursor
<1>4. ASSUME g.step = "send" PROVE TodoIsRest(g.seen, g.todo)'
  <2>1. TodoIsRest(g.seen, g.todo) /\ g.seen # Null
    BY <1>4 DEF RunTruthful
  <2>2. ASSUME NEW p \in Unsent' \ g.todo, NEW q \in g.todo PROVE p.at >= q.at - Overlap
    BY <2>1, <2>2, OneMore DEF TodoIsRest
  <2>3. g.todo \subseteq punched'
    BY <2>1, OneMore DEF TodoIsRest
  <2>4. ~ (held' = punched' /\ g.seen = Cardinality(held'))
    BY <1>2, <2>1
  <2> QED
    BY <2>2, <2>3, <2>4 DEF TodoIsRest
<1> QED
  BY <1>1, <1>2, <1>3, <1>4 DEF RunTruthful, RunRow
-----------------------------------------------------------------------------
(* What the parts say of the whole, one run at a time.                      *)
LEMMA OthersGoOn ==
  ASSUME AgentHonest, Fewer, AgentTyped', NEW r \in Run, NEW h,
         going' = [going EXCEPT ![r] = h], h # Null => RunTruthful(h)'
  PROVE  (\A s \in Run : going[s] # Null => RunTruthful(going[s]))'
<1> SUFFICES ASSUME NEW s \in Run, going'[s] # Null PROVE RunTruthful(going[s])'
  OBVIOUS
<1>1. going = [q \in Run |-> going[q]]
  BY DEF AgentHonest, AgentTyped
<1>2. CASE s = r
  <2>1. going'[s] = h
    BY <1>1, <1>2
  <2> QED
    BY <2>1
<1>3. CASE s # r
  <2>1. PICK g : g = going[s]
    OBVIOUS
  <2>2. going'[s] = g
    BY <1>1, <1>3, <2>1
  <2>3. RunTruthful(g)
    BY <2>1, <2>2 DEF AgentHonest
  <2>4. RunTruthful(g)'
    BY <2>3, RunKept
  <2> QED
    BY <2>2, <2>4
<1> QED
  BY <1>2, <1>3

LEMMA StartHonest ==
  ASSUME AgentHonest, since = FirstDay, NEW r \in Run, Start(r) \/ StartAgain(r)
  PROVE  AgentHonest'
<1>1. PICK s \in {file, Empty} : going' = [going EXCEPT ![r] = Started(s)]
  BY DEF Start, StartAgain
<1>2. UNCHANGED <<punched, held, file, since, arrived, late>>
  BY DEF Start, StartAgain
<1>3. Fewer /\ AgentTyped'
  BY <1>1, <1>2 DEF Fewer, Unsent, AgentHonest, AgentTyped
<1>4. Truthful(s.last, s.count) /\ s.last \in Nat \cup {Null} /\ s.count \in Nat \cup {Null}
  BY <1>1 DEF AgentHonest, Empty, Truthful, NotAhead, CountedAll, NotCountedBefore
<1>5. Cursor(s) \in Nat /\ (s.last = Null => Cursor(s) = FirstDay)
  BY <1>4, CursorIs
<1> PICK h : h = Started(s)
  OBVIOUS
<1>6. /\ h \in RunRow /\ h.step = "count" /\ h.seen = Null
      /\ h.last = s.last /\ h.count = s.count /\ h.cursor = Cursor(s)
      /\ Cursor(h) = Cursor(s)
  BY <1>4, <1>5, StartedParts
<1>7. going' = [going EXCEPT ![r] = h]
  BY <1>1
<1>8. RunTruthful(h)
  BY <1>4, <1>5, <1>6 DEF RunTruthful, NotCountedBefore
<1>9. RunTruthful(h)'
  BY <1>3, <1>8, RunKept
<1>11. (\A q \in Run : going[q] # Null => RunTruthful(going[q]))'
  BY <1>3, <1>7, <1>9, OthersGoOn
<1>12. Truthful(file.last, file.count)'
  BY <1>2, <1>3, TruthKept DEF AgentHonest
<1> QED
  BY <1>3, <1>11, <1>12 DEF AgentHonest

LEMMA CountHonest ==
  ASSUME AgentHonest, NEW r \in Run, Count(r)
  PROVE  AgentHonest'
<1> PICK g, n : g = going[r] /\ n = Cardinality(held)
  OBVIOUS
<1> PICK h : h = Counted(g, n)
  OBVIOUS
<1>1. /\ going' = [going EXCEPT ![r] = h]
      /\ UNCHANGED <<punched, held, file, since, arrived, late>>
      /\ g.step = "count" /\ RunTruthful(g) /\ AgentTyped
  BY DEF Count, Counted, AgentHonest
<1>2. Fewer /\ AgentTyped'
  BY <1>1 DEF Fewer, Unsent, AgentTyped
<1>4. n \in Nat /\ n =< Cardinality(punched)
  <2>1. IsFiniteSet(punched) /\ held \in SUBSET punched
    BY <1>1, AgentAssumption, FS_Subset DEF AgentTyped
  <2> QED
    BY <2>1, FS_Subset, FS_CardinalityType
<1>5. g \in RunRow
  BY <1>1 DEF RunTruthful
<1>6. /\ h \in RunRow /\ h.step = "read" /\ h.seen = n
      /\ h.last = g.last /\ h.count = g.count /\ h.cursor = g.cursor
  BY <1>4, <1>5, CountedParts
<1>7. RunTruthful(h)
  <2>1. Cursor(h) = Cursor(g)
    BY <1>6 DEF Cursor
  <2>2. n # Null
    BY <1>4, AgentAssumption
  <2> QED
    BY <1>1, <1>4, <1>6, <2>1, <2>2 DEF RunTruthful, NotCountedBefore
<1>8. RunTruthful(h)'
  BY <1>2, <1>7, RunKept
<1>9. (\A q \in Run : going[q] # Null => RunTruthful(going[q]))'
  BY <1>1, <1>2, <1>8, OthersGoOn
<1>10. Truthful(file.last, file.count)'
  BY <1>1, <1>2, TruthKept DEF AgentHonest
<1> QED
  BY <1>2, <1>9, <1>10 DEF AgentHonest

LEMMA ReadHonest ==
  ASSUME AgentHonest, since = FirstDay, NEW r \in Run, Read(r)
  PROVE  AgentHonest'
<1> PICK g : g = going[r]
  OBVIOUS
<1> PICK rest : rest = IF Unchanged(g) THEN {} ELSE {p \in held : p.at >= g.cursor}
  OBVIOUS
<1> PICK h : h = Selected(g, rest)
  OBVIOUS
<1>1. /\ going' = [going EXCEPT ![r] = h]
      /\ UNCHANGED <<punched, held, file, since, arrived, late>>
      /\ g.step = "read" /\ RunTruthful(g) /\ AgentTyped
  BY DEF Read, Selected, AgentHonest
<1>2. Fewer /\ AgentTyped'
  BY <1>1 DEF Fewer, Unsent, AgentTyped
<1>4. g \in RunRow /\ g.cursor = Cursor(g) /\ g.seen # Null
  BY <1>1 DEF RunTruthful
<1>5. /\ Truthful(g.last, g.count) /\ NotCountedBefore(g.seen)
      /\ g.last = Null => g.cursor = FirstDay
  BY <1>1 DEF RunTruthful
<1>6. rest \subseteq punched /\ rest \in SUBSET Punch
  BY <1>1 DEF AgentTyped
<1>7. ASSUME Unchanged(g) PROVE TodoIsRest(g.seen, rest)
  <2>1. rest = {} /\ g.count = g.seen
    BY <1>7 DEF Unchanged
  <2>2. held = punched /\ g.seen = Cardinality(held) => Unsent \subseteq rest
    BY <1>4, <1>5, <2>1 DEF Truthful, CountedAll
  <2> QED
    BY <2>1, <2>2 DEF TodoIsRest
<1>8. ASSUME ~ Unchanged(g) PROVE TodoIsRest(g.seen, rest)
  <2>1. rest = {p \in held : p.at >= g.cursor}
    BY <1>8
  <2>2. ASSUME NEW p \in Unsent PROVE p \in rest
    <3>1. p \in held /\ p.at >= FirstDay
      BY DEF Unsent
    <3>2. g.last # Null => p.at >= g.last - Overlap
      BY <1>5 DEF Truthful, NotAhead
    <3>3. g.last \in Nat \cup {Null}
      BY <1>4, RunRowParts
    <3> QED
      BY <1>4, <2>1, <3>1, <3>2, <3>3, CursorIs
  <2>3. Unsent \subseteq rest
    BY <2>2
  <2> QED
    BY <1>6, <2>3 DEF TodoIsRest
<1>9. TodoIsRest(g.seen, rest)
  BY <1>7, <1>8
<1>10. /\ h \in RunRow /\ h.step = "send" /\ h.todo = rest
       /\ h.last = g.last /\ h.count = g.count /\ h.seen = g.seen /\ h.cursor = g.cursor
  BY <1>4, <1>6, SelectedParts
<1>11. RunTruthful(h)
  BY <1>4, <1>5, <1>9, <1>10 DEF RunTruthful
<1>12. RunTruthful(h)'
  BY <1>2, <1>11, RunKept
<1>13. (\A q \in Run : going[q] # Null => RunTruthful(going[q]))'
  BY <1>1, <1>2, <1>12, OthersGoOn
<1>14. Truthful(file.last, file.count)'
  BY <1>1, <1>2, TruthKept DEF AgentHonest
<1> QED
  BY <1>2, <1>13, <1>14 DEF AgentHonest
(* A batch answered: what is left is not before the newest of it.           *)
LEMMA BatchHonest ==
  ASSUME AgentHonest, NEW r \in Run, NEW chunk \in SUBSET Punch, BatchAnswered(r, chunk)
  PROVE  AgentHonest'
<1> PICK g : g = going[r]
  OBVIOUS
<1> PICK newest : newest = Max({p.at : p \in chunk} \cup ({g.last} \ {Null}))
  OBVIOUS
<1> PICK h : h = Advanced(g, chunk, newest)
  OBVIOUS
<1>1. /\ going' = [going EXCEPT ![r] = h]
      /\ UNCHANGED <<punched, held, since, late>>
      /\ arrived' = arrived \cup chunk
      /\ file' = [last |-> newest, count |-> g.count]
      /\ chunk # {} /\ IsNext(r, chunk)
  BY DEF BatchAnswered, Advanced
<1>2. g.step = "send" /\ RunTruthful(g) /\ AgentTyped
  BY DEF BatchAnswered, Sending, AgentHonest
<1>3. /\ chunk \subseteq g.todo
      /\ \A p \in chunk, q \in g.todo \ chunk : p.at =< q.at
  BY <1>1 DEF IsNext
<1>4. Fewer /\ AgentTyped' /\ Unsent' = Unsent \ chunk
  BY <1>1, <1>2 DEF Fewer, Unsent, AgentTyped
<1>5. /\ g \in RunRow /\ Truthful(g.last, g.count) /\ NotCountedBefore(g.seen)
      /\ TodoIsRest(g.seen, g.todo) /\ g.seen # Null
      /\ g.last \in Nat \cup {Null}
  BY <1>2 DEF RunTruthful, RunRow
<1>6. /\ newest \in Nat
      /\ newest = g.last \/ \E p \in chunk : newest = p.at
  BY <1>1, <1>5, NewestIs
<1>7. \A p \in Punch : p.at \in Nat
  BY AgentAssumption
<1>8. NotAhead(newest)'
  <2>1. ASSUME NEW p \in Unsent' PROVE p.at >= newest - Overlap
    <3>1. p \in Unsent /\ p \notin chunk /\ p.at \in Nat
      BY <1>2, <1>4, <1>7, <2>1 DEF Unsent, AgentTyped
    <3>2. CASE newest = g.last
      BY <1>5, <1>6, <3>1, <3>2, AgentAssumption DEF Truthful, NotAhead
    <3>3. ASSUME NEW q \in chunk, newest = q.at PROVE p.at >= newest - Overlap
      <4>1. CASE p \in g.todo
        BY <1>3, <1>6, <3>1, <3>3, <4>1, AgentAssumption
      <4>2. CASE p \notin g.todo
        BY <1>3, <1>5, <3>1, <3>3, <4>2 DEF TodoIsRest
      <4> QED
        BY <4>1, <4>2
    <3> QED
      BY <1>6, <3>2, <3>3
  <2>2. newest =< FirstDay \/ \E q \in punched' : newest =< q.at
    <3>1. CASE newest = g.last
      <4>1. newest # Null /\ NotAhead(newest)
        BY <1>5, <1>6, <3>1, AgentAssumption DEF Truthful
      <4>2. newest =< FirstDay \/ \E q \in punched : newest =< q.at
        BY <4>1 DEF NotAhead
      <4> QED
        BY <1>1, <4>2
    <3>2. ASSUME NEW q \in chunk, newest = q.at PROVE \E p \in punched' : newest =< p.at
      <4>1. q \in punched'
        BY <1>1, <1>3, <1>5 DEF TodoIsRest
      <4>2. newest =< q.at
        BY <1>6, <3>2
      <4> QED
        BY <4>1, <4>2
    <3> QED
      BY <1>6, <3>1, <3>2
  <2> QED
    BY <1>6, <2>1, <2>2 DEF NotAhead
<1>9. Truthful(newest, g.count)'
  <2>1. Truthful(g.last, g.count)'
    BY <1>4, <1>5, TruthKept
  <2>2. newest # Null
    BY <1>6, AgentAssumption
  <2> QED
    BY <1>8, <2>1, <2>2 DEF Truthful
<1>10. TodoIsRest(g.seen, g.todo \ chunk)'
  <2>1. TodoIsRest(g.seen, g.todo)'
    BY <1>4, <1>5, TodoKept
  <2>2. Unsent' \cap chunk = {}
    BY <1>4
  <2> QED
    BY <2>1, <2>2 DEF TodoIsRest
<1>11. /\ h \in RunRow /\ h.step = "send" /\ h.todo = g.todo \ chunk
       /\ h.last = newest /\ h.count = g.count /\ h.seen = g.seen
  <2>1. g \in RunRow /\ newest \in Nat
    BY <1>5, <1>6
  <2>2. /\ h \in RunRow /\ h.step = g.step /\ h.todo = g.todo \ chunk
        /\ h.last = newest /\ h.count = g.count /\ h.seen = g.seen
    BY ONLY <2>1, h = Advanced(g, chunk, newest), AdvancedParts
  <2> QED
    BY <1>2, <2>2
<1>12. RunTruthful(h)'
  <2>1. NotCountedBefore(g.seen)'
    BY <1>4, <1>5 DEF Fewer, NotCountedBefore
  <2>2. newest # Null
    BY <1>6, AgentAssumption
  <2>3. (h \in RunRow)'
    BY <1>11 DEF RunRow
  <2> QED
    BY <1>5, <1>9, <1>10, <1>11, <2>1, <2>2, <2>3 DEF RunTruthful
<1>13. (\A q \in Run : going[q] # Null => RunTruthful(going[q]))'
  BY <1>1, <1>4, <1>12, OthersGoOn
<1>14. Truthful(file.last, file.count)'
  BY <1>1, <1>9
<1> QED
  BY <1>4, <1>13, <1>14 DEF AgentHonest

(* A run that ends has sent what it read, or had nothing to read.           *)
LEMMA FinishHonest ==
  ASSUME AgentHonest, NEW r \in Run, Finish(r)
  PROVE  AgentHonest'
<1> PICK g : g = going[r]
  OBVIOUS
<1> PICK last : last = IF g.last = Null THEN g.cursor ELSE g.last
  OBVIOUS
<1>1. /\ going' = [going EXCEPT ![r] = Null]
      /\ UNCHANGED <<punched, held, since, arrived, late>>
      /\ file' = [last |-> last, count |-> g.seen]
      /\ g.step = "send" /\ g.todo = {} /\ RunTruthful(g) /\ AgentTyped
  BY DEF Finish, Sending, AgentHonest
<1>2. Fewer /\ AgentTyped'
  BY <1>1 DEF Fewer, Unsent, AgentTyped
<1>3. /\ Truthful(g.last, g.count) /\ NotCountedBefore(g.seen)
      /\ TodoIsRest(g.seen, {}) /\ g.cursor \in Nat
      /\ g.last = Null => g.cursor = FirstDay
  BY <1>1 DEF RunTruthful, RunRow
<1>4. CountedAll(g.seen)
  BY <1>3 DEF TodoIsRest, CountedAll
<1>5. NotAhead(last)
  <2>1. CASE g.last = Null
    <3>1. last \in Nat /\ last = FirstDay
      BY <1>3, <2>1
    <3>2. \A p \in Unsent : p.at \in Nat /\ p.at >= FirstDay
      BY <1>1, AgentAssumption DEF AgentTyped, Unsent
    <3> QED
      BY <3>1, <3>2, AgentAssumption DEF NotAhead
  <2>2. CASE g.last # Null
    BY <1>3, <2>2 DEF Truthful
  <2> QED
    BY <2>1, <2>2
<1>6. last # Null
  BY <1>3, AgentAssumption
<1>7. Truthful(last, g.seen)'
  BY <1>2, <1>3, <1>4, <1>5, <1>6, TruthKept DEF Truthful
<1>8. (\A q \in Run : going[q] # Null => RunTruthful(going[q]))'
  BY <1>1, <1>2, OthersGoOn
<1> QED
  BY <1>1, <1>2, <1>7, <1>8 DEF AgentHonest

LEMMA CutOffHonest ==
  ASSUME AgentHonest, NEW r \in Run, CutOff(r)
  PROVE  AgentHonest'
<1>1. /\ going' = [going EXCEPT ![r] = Null]
      /\ UNCHANGED <<punched, held, file, since, arrived, late>> /\ AgentTyped
  BY DEF CutOff, AgentHonest
<1>2. Fewer /\ AgentTyped'
  BY <1>1 DEF Fewer, Unsent, AgentTyped
<1>3. (\A q \in Run : going[q] # Null => RunTruthful(going[q]))'
  BY <1>1, <1>2, OthersGoOn
<1>4. Truthful(file.last, file.count)'
  BY <1>1, <1>2, TruthKept DEF AgentHonest
<1> QED
  BY <1>2, <1>3, <1>4 DEF AgentHonest

(* Steps that leave every run as it is.                                     *)
LEMMA RunsWait ==
  ASSUME AgentHonest, Fewer, AgentTyped', going' = going,
         file' = file \/ file' = Empty
  PROVE  AgentHonest'
<1>1. (\A q \in Run : going[q] # Null => RunTruthful(going[q]))'
  <2> SUFFICES ASSUME NEW q \in Run, going[q] # Null PROVE RunTruthful(going[q])'
    OBVIOUS
  <2> PICK g : g = going[q]
    OBVIOUS
  <2>1. RunTruthful(g)
    BY DEF AgentHonest
  <2>2. RunTruthful(g)'
    BY <2>1, RunKept
  <2> QED
    BY <2>2
<1>2. Truthful(file.last, file.count)'
  <2>1. CASE file' = file
    BY <2>1, TruthKept DEF AgentHonest
  <2>2. CASE file' = Empty
    BY <2>2 DEF Empty, Truthful, NotAhead, CountedAll, NotCountedBefore
  <2> QED
    BY <2>1, <2>2
<1> QED
  BY <1>1, <1>2 DEF AgentHonest

LEMMA PunchHonest ==
  ASSUME AgentHonest, NEW x \in Punch, MakePunch(x)
  PROVE  AgentHonest'
<1>1. UNCHANGED <<file, going, since, arrived, late>> /\ AgentTyped /\ AgentTyped'
  BY DEF MakePunch, AgentHonest, AgentTyped
<1>2. (\A q \in Run : going[q] # Null => RunTruthful(going[q]))'
  <2> SUFFICES ASSUME NEW q \in Run, going[q] # Null PROVE RunTruthful(going[q])'
    BY <1>1
  <2> PICK g : g = going[q]
    OBVIOUS
  <2>1. RunTruthful(g)
    BY DEF AgentHonest
  <2>2. RunTruthful(g)'
    BY <1>1, <2>1, RunAfterPunch
  <2> QED
    BY <1>1, <2>2
<1>3. Truthful(file.last, file.count)'
  BY <1>1, TruthAfterPunch DEF AgentHonest
<1> QED
  BY <1>1, <1>2, <1>3 DEF AgentHonest
-----------------------------------------------------------------------------
LEMMA AgentInvInit == AgentInit => AgentInv
<1> SUFFICES ASSUME AgentInit PROVE AgentInv
  OBVIOUS
<1>1. AgentTyped
  BY DEF AgentInit, AgentTyped, Empty
<1>2. Truthful(file.last, file.count)
  BY DEF AgentInit, Empty, Truthful, NotAhead, CountedAll, NotCountedBefore
<1>3. \A r \in Run : going[r] = Null
  BY DEF AgentInit
<1>4. since \in Nat /\ since >= FirstDay
  BY AgentAssumption DEF AgentInit
<1> QED
  BY <1>1, <1>2, <1>3, <1>4 DEF AgentInv, AgentHonest

LEMMA HonestStep ==
  ASSUME AgentHonest, since = FirstDay, since' = FirstDay, [AgentNext]_agentVars
  PROVE  AgentHonest'
<1>1. CASE UNCHANGED agentVars
  <2>1. Fewer /\ AgentTyped' /\ going' = going /\ file' = file
    BY <1>1 DEF agentVars, Fewer, Unsent, AgentHonest, AgentTyped
  <2> QED
    BY <2>1, RunsWait
<1>2. ASSUME NEW p \in Punch, MakePunch(p) PROVE AgentHonest'
  BY <1>2, PunchHonest
<1>3. ASSUME NEW t \in NewMonths, MonthBegins(t) PROVE AgentHonest'
  <2>1. t > since /\ since' = t
    BY <1>3 DEF MonthBegins
  <2> QED
    BY <2>1, AgentAssumption
<1>4. CASE EraseLog
  <2>1. held \subseteq arrived /\ held' = {} /\ UNCHANGED <<punched, file, going, since, arrived, late>>
    BY <1>4 DEF EraseLog
  <2>2. Fewer /\ AgentTyped'
    BY <2>1 DEF Fewer, Unsent, AgentHonest, AgentTyped
  <2> QED
    BY <2>1, <2>2, RunsWait
<1>5. CASE LateRequestRuns
  <2>1. /\ arrived' = arrived \cup late /\ late' = {}
        /\ UNCHANGED <<punched, held, file, going, since>>
    BY <1>5 DEF LateRequestRuns
  <2>2. Fewer /\ AgentTyped'
    BY <2>1 DEF Fewer, Unsent, AgentHonest, AgentTyped
  <2> QED
    BY <2>1, <2>2, RunsWait
<1>6. CASE LoseState
  <2>1. file' = Empty /\ UNCHANGED <<punched, held, going, since, arrived, late>>
    BY <1>6 DEF LoseState
  <2>2. Fewer /\ AgentTyped'
    BY <2>1 DEF Fewer, Unsent, AgentHonest, AgentTyped, Empty
  <2> QED
    BY <2>1, <2>2, RunsWait
<1>7. ASSUME NEW r \in Run, RunOf(r) PROVE AgentHonest'
  <2>1. CASE Start(r) \/ StartAgain(r)
    BY <2>1, StartHonest
  <2>2. CASE Count(r)
    BY <2>2, CountHonest
  <2>3. CASE Read(r)
    BY <2>3, ReadHonest
  <2>4. ASSUME NEW chunk \in SUBSET Punch, BatchAnswered(r, chunk) PROVE AgentHonest'
    BY <2>4, BatchHonest
  <2>5. ASSUME NEW chunk \in SUBSET Punch, BatchUnanswered(r, chunk) PROVE AgentHonest'
    <3>1. /\ arrived \subseteq arrived' /\ arrived' \subseteq arrived \cup chunk
          /\ late' \subseteq late \cup chunk
          /\ UNCHANGED <<punched, held, file, going, since>>
      BY <2>5 DEF BatchUnanswered
    <3>2. Fewer /\ AgentTyped'
      BY <3>1 DEF Fewer, Unsent, AgentHonest, AgentTyped
    <3> QED
      BY <3>1, <3>2, RunsWait
  <2>6. CASE Finish(r)
    BY <2>6, FinishHonest
  <2>7. CASE CutOff(r)
    BY <2>7, CutOffHonest
  <2> QED
    BY <1>7, <2>1, <2>2, <2>3, <2>4, <2>5, <2>6, <2>7 DEF RunOf, BatchSent
<1> QED
  BY <1>1, <1>2, <1>3, <1>4, <1>5, <1>6, <1>7 DEF AgentNext

(* Months only go forward: once one has begun, nothing more is claimed.     *)
LEMMA AgentInvStep == AgentInv /\ [AgentNext]_agentVars => AgentInv'
<1> SUFFICES ASSUME AgentInv, [AgentNext]_agentVars PROVE AgentInv'
  OBVIOUS
<1>1. since' = since \/ \E t \in NewMonths : t > since /\ since' = t
  BY DEF AgentNext, agentVars, MakePunch, MonthBegins, EraseLog, LateRequestRuns, LoseState,
         RunOf, Start, StartAgain, Count, Read, BatchSent, BatchAnswered, BatchUnanswered,
         Finish, CutOff
<1>2. since' \in Nat /\ since' >= since /\ since >= FirstDay /\ since \in Nat
  BY <1>1, AgentAssumption DEF AgentInv
<1>3. ASSUME since' = FirstDay PROVE AgentHonest'
  <2>1. since = FirstDay
    BY <1>2, <1>3, AgentAssumption
  <2>2. AgentHonest
    BY <2>1 DEF AgentInv
  <2> QED
    BY <1>3, <2>1, <2>2, HonestStep
<1> QED
  BY <1>2, <1>3, AgentAssumption DEF AgentInv

(* The state file never has the next run pass over a punch that is not on   *)
(* the server, however runs overlap and are cut off (zk_agent.py: run_sync, *)
(* read_device).                                                            *)
THEOREM PunchesWaitInReach ==
  AgentInit /\ [][AgentNext]_agentVars => []NothingSkippedInMonth
<1>1. AgentInit => AgentInv
  BY AgentInvInit
<1>2. AgentInv /\ [AgentNext]_agentVars => AgentInv'
  BY AgentInvStep
<1>3. AgentInv => NothingSkippedInMonth
  <2> SUFFICES ASSUME AgentInv, since = FirstDay, NEW p \in Unsent
               PROVE  /\ p.at >= Cursor(file)
                      /\ held = punched /\ file.last # Null => file.count # Cardinality(held)
    BY DEF NothingSkippedInMonth, NothingSkipped
  <2>1. Truthful(file.last, file.count) /\ p.at >= FirstDay
    BY DEF AgentInv, AgentHonest, Unsent
  <2>2. file.last \in Nat \cup {Null}
    BY <2>1 DEF Truthful, NotAhead
  <2>3. file.last # Null => p.at >= file.last - Overlap
    BY <2>1 DEF Truthful, NotAhead
  <2>4. p.at >= Cursor(file)
    BY <2>1, <2>2, <2>3, CursorIs
  <2>5. ASSUME held = punched, file.count = Cardinality(held) PROVE FALSE
    <3>1. Cardinality(held) \in Nat
      BY <2>5, AgentAssumption, FS_Subset, FS_CardinalityType DEF AgentInv, AgentHonest, AgentTyped
    <3> QED
      BY <2>1, <2>5, <3>1, AgentAssumption DEF Truthful, CountedAll
  <2> QED
    BY <2>4, <2>5
<1> QED
  BY <1>1, <1>2, <1>3, PTL
=============================================================================
