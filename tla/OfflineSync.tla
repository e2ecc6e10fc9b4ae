---------------------------- MODULE OfflineSync ----------------------------
(***************************************************************************)
(* The queue of documents a user of the app saves without a connection     *)
(* (src/mobile/lib: db/local_db.dart, api/api_client.dart,                 *)
(* services/auto_sync.dart), and the endpoints that receive them.  Every   *)
(* document carries a client_uuid; an endpoint answers a uuid it knows     *)
(* with the row it has.  A push reads its queue once and posts it document *)
(* by document; each answer marks a document as synced.  A pull replaces   *)
(* the synced invoices and receipts by the server's.                       *)
(*                                                                         *)
(* Several pushes may be under way: the automatic ones exclude each other, *)
(* the buttons of the review screens do not ask them.  Requests and        *)
(* answers may be lost, a request may be served after its sender gave up,  *)
(* the app may be killed, and the user goes on working.                    *)
(***************************************************************************)
EXTENDS Integers, Sequences, FiniteSets, NullValue

CONSTANTS
    Uuid,         \* the documents, numbered as they are saved (local_id)
    Kind,         \* the kind of each: a table of the app
    Base,         \* the invoice a bonus is for, Null for other documents
    Pusher,       \* the tasks of the app that push and pull
    Plan,         \* the sequences of steps each of them may run
    Tolerant,     \* the pushers that go on after an error (AutoSync.run)
    Conn,         \* connections to the server
    UserOps,      \* what users do besides saving: edit, delete, sign in, office
    Together,     \* bound: the sets of documents that one behaviour may save
    MaxVersion,   \* bound: versions of a document its user saves
    LineCount,    \* of each document, how many lines its versions have
    MaxFault      \* bound: faults and office edits over the whole run

Kinds == {"inspection", "coupon", "sale", "bonus", "receipt", "transfer"}

ASSUME UuidAssumption == Uuid \subseteq Nat /\ Kind \in [Uuid -> Kinds]
ASSUME BaseAssumption ==
    \A u \in Uuid : IF Kind[u] = "bonus"
                    THEN Base[u] \in Uuid /\ Base[u] < u /\ Kind[Base[u]] = "sale"
                    ELSE Base[u] = Null
ASSUME TolerantAssumption == Tolerant \subseteq Pusher

(* The steps of a plan: push the documents of a kind, pull, pull if sent.   *)
Steps == {"inspection", "coupon", "sale", "receipt", "transfer", "pull", "refresh"}

ASSUME PlanAssumption == \A p \in Pusher : Plan[p] \subseteq Seq(Steps)
ASSUME LimitAssumption == MaxVersion \in Nat \ {0} /\ MaxFault \in Nat

OfficeVersion == MaxVersion + 1

ASSUME LineCountAssumption == LineCount \in [Uuid -> [1..OfficeVersion -> Nat \ {0}]]

(* Rows on the phone, rows of the server, rows as they are sent, requests.  *)
LocalRow == [head : 1..OfficeVersion, lines : 1..OfficeVersion,
             own : BOOLEAN, synced : BOOLEAN]
ServerRow == [head : 1..OfficeVersion, lines : 1..OfficeVersion, link : Uuid \cup {Null}]
SentRow == [uuid : Uuid, head : 1..OfficeVersion, lines : 0..OfficeVersion]
RequestRow == [rows : Seq(SentRow), by : Pusher \cup {Null},
            at : {"sent", "serving", "ok", "error"}, fresh : SUBSET Uuid,
            link : Uuid \cup {Null}]
Bundle == [Uuid -> ServerRow \cup {Null}]
TaskRow == [plan : Seq(Steps), queue : Seq(Seq(SentRow) \ {<<>>}), sent : {0, 1},
            conn : Conn \cup {Null}, bundle : Bundle \cup {Null},
            at : {"idle", "between", "push", "pull"}]

ASSUME NullAssumption ==
    /\ Null \notin LocalRow /\ Null \notin ServerRow /\ Null \notin RequestRow
    /\ Null \notin Bundle /\ Null \notin Uuid /\ Null \notin Conn /\ Null \notin Pusher

VARIABLES
    local,    \* rows of the app's database
    server,   \* rows of the server's, one for each uuid
    task,     \* what each pusher is doing
    conn,     \* requests on their way, being served, or answered
    made,     \* how often the server has created a document
    voided,   \* how often the office has deleted it
    saved,    \* the documents that were ever saved
    dropped,  \* those deleted on the phone while they were pending
    faults

phone == <<local, saved, dropped>>
office == <<server, made, voided>>
offlineVars == <<phone, office, task, conn, faults>>

Pulled == {u \in Uuid : Kind[u] \in {"sale", "bonus", "receipt"}}

Pending(u) == local[u] # Null /\ ~ local[u].synced
Fault == faults < MaxFault /\ faults' = faults + 1

-----------------------------------------------------------------------------
(* The user. *)

(* saveSaleInvoice, saveReceipt, saveTransfer, saveInspection and           *)
(* saveCouponReceipt: a document and its lines in one local transaction.    *)
Save(u) ==
    /\ \A v \in saved : v < u
    /\ \E D \in Together : saved \cup {u} \subseteq D
    /\ Base[u] # Null => local[Base[u]] # Null
    /\ local' = [local EXCEPT ![u] = [head |-> 1, lines |-> 1, own |-> TRUE,
                                      synced |-> FALSE]]
    /\ saved' = saved \cup {u}
    /\ UNCHANGED <<dropped, office, task, conn, faults>>

(* updateQueuedSaleInvoice, updateQueuedTransfer: while it is not synced.   *)
Edit(u) ==
    /\ "edit" \in UserOps
    /\ Kind[u] \in {"sale", "bonus", "transfer"}
    /\ Pending(u) /\ local[u].head < MaxVersion
    /\ local' = [local EXCEPT ![u].head = @ + 1, ![u].lines = local[u].head + 1]
    /\ UNCHANGED <<saved, dropped, office, task, conn, faults>>

(* deleteUnsyncedReceipt, deleteQueuedTransfer, deleteInspection,           *)
(* deleteCouponReceipt: while it is not synced.  Invoices have none.        *)
Delete(u) ==
    /\ "delete" \in UserOps
    /\ Kind[u] \notin {"sale", "bonus"}
    /\ Pending(u)
    /\ local' = [local EXCEPT ![u] = Null]
    /\ dropped' = dropped \cup {u}
    /\ UNCHANGED <<saved, office, task, conn, faults>>

(* login by another user: refused while anything is pending, and otherwise  *)
(* wipeUserData.                                                            *)
SignInAsOther ==
    /\ "sign_in" \in UserOps
    /\ \A u \in Uuid : ~ Pending(u)
    /\ local' = [u \in Uuid |-> Null]
    /\ UNCHANGED <<saved, dropped, office, task, conn, faults>>

-----------------------------------------------------------------------------
(* A pusher and its steps. *)

Idle == [plan |-> <<>>, queue |-> <<>>, sent |-> 0, conn |-> Null, bundle |-> Null,
         at |-> "idle"]

Becomes(p, t) == task' = [task EXCEPT ![p] = t]

Rest(t) == [t EXCEPT !.plan = Tail(@), !.queue = <<>>, !.conn = Null, !.bundle = Null,
                     !.at = "between"]

(* An error ends the step, and the task too unless it is a tolerant one.    *)
AfterError(p) == IF p \in Tolerant THEN Rest(task[p]) ELSE Idle

StartTask(p, plan) ==
    /\ task[p].at = "idle"
    /\ Becomes(p, [Idle EXCEPT !.plan = plan, !.at = "between"])
    /\ UNCHANGED <<phone, office, conn, faults>>

(* The members of a set in the order of their ranks.                        *)
ByRank(S, rank) ==
    CHOOSE s \in [1..Cardinality(S) -> S] :
        /\ \A u \in S : \E i \in DOMAIN s : s[i] = u
        /\ \A i, j \in DOMAIN s : i < j => rank[s[i]] < rank[s[j]]

(* Wrong on purpose: the newest first, whether it is a bonus or not.        *)
InOrderNewest(S) == ByRank(S, [u \in S |-> -u])

(* The newest first, except bonuses: they follow all invoices, oldest first.*)
InOrder(S) == ByRank(S, [u \in S |-> IF Kind[u] = "bonus" THEN u + 1 ELSE -u])

Row(u) == [uuid |-> u, head |-> local[u].head, lines |-> local[u].lines]

(* The requests of a step: all inspections in one, others one by one.       *)
Requests(step) ==
    LET kinds == IF step = "sale" THEN {"sale", "bonus"} ELSE {step}
        order == InOrder({u \in Uuid : Pending(u) /\ Kind[u] \in kinds})
    IN  IF step = "inspection" /\ order # <<>>
        THEN << [i \in DOMAIN order |-> Row(order[i])] >>
        ELSE [i \in DOMAIN order |-> <<Row(order[i])>>]

(* The pending rows are read once, when the step starts.                    *)
StartStep(p) ==
    LET t == task[p] IN
    /\ t.at = "between"
    /\ Becomes(p,
         IF t.plan = <<>> THEN Idle
         ELSE IF Head(t.plan) = "pull" \/ (Head(t.plan) = "refresh" /\ t.sent > 0)
              THEN [t EXCEPT !.at = "pull"]
         ELSE IF Head(t.plan) = "refresh" THEN Rest(t)
         ELSE [t EXCEPT !.queue = Requests(Head(t.plan)), !.at = "push"])
    /\ UNCHANGED <<phone, office, conn, faults>>

(* The lines of an invoice and of a transfer are read when it is its turn,  *)
(* by the local_id of the row that was pending.                             *)
AsSent(row) ==
    IF Kind[row.uuid] \in {"sale", "bonus", "transfer"}
    THEN [row EXCEPT !.lines = IF local[row.uuid] # Null /\ local[row.uuid].own
                               THEN local[row.uuid].lines ELSE 0]
    ELSE row

Send(p, c) ==
    LET t == task[p]
        rows == [i \in DOMAIN Head(t.queue) |-> AsSent(Head(t.queue)[i])]
    IN
    /\ t.at = "push" /\ t.queue # <<>> /\ t.conn = Null
    /\ IF Kind[rows[1].uuid] = "transfer" /\ rows[1].lines = 0
       THEN /\ Becomes(p, [t EXCEPT !.queue = Tail(@)])
            /\ UNCHANGED conn
       ELSE /\ conn[c] = Null
            /\ conn' = [conn EXCEPT ![c] = [rows |-> rows, by |-> p, at |-> "sent",
                                            fresh |-> {}, link |-> Null]]
            /\ Becomes(p, [t EXCEPT !.conn = c])
    /\ UNCHANGED <<phone, office, faults>>

EndStep(p) ==
    /\ task[p].at = "push" /\ task[p].queue = <<>>
    /\ Becomes(p, Rest(task[p]))
    /\ UNCHANGED <<phone, office, conn, faults>>

-----------------------------------------------------------------------------
(* The server. *)

Asked(r) == {r.rows[i].uuid : i \in DOMAIN r.rows}
RowOf(r, u) == r.rows[CHOOSE i \in DOMAIN r.rows : r.rows[i].uuid = u]

(* Wrong on purpose: the endpoint does not look for the uuid.               *)
FreshAlways(r) == Asked(r)

(* The documents of a request the server has not got.                       *)
Fresh(r) == {u \in Asked(r) : server[u] = Null}

(* The handler starts: it looks for the uuids, and for a bonus's invoice.   *)
ServerLookup(c) ==
    LET r == conn[c]
        u == r.rows[1].uuid
    IN
    /\ r # Null /\ r.at = "sent"
    /\ conn' = [conn EXCEPT ![c].at = IF Fresh(r) = {} THEN "ok" ELSE "serving",
                            ![c].fresh = Fresh(r),
                            ![c].link = IF Base[u] # Null /\ server[Base[u]] # Null
                                        THEN Base[u] ELSE Null]
    /\ UNCHANGED <<phone, office, task, faults>>

(* Whether the inserts of the request violate a key: client_uuid is unique, *)
(* and the invoice of a bonus must be there.                                *)
Insertable(r) ==
    /\ \A u \in r.fresh : server[u] = Null
    /\ r.link # Null => server[r.link] # Null

(* Wrong on purpose: nothing keeps a second row of one uuid out.            *)
ServerCommitTwice(c) ==
    LET r == conn[c] IN
    /\ r # Null /\ r.at = "serving"
    /\ server' = [u \in Uuid |-> IF u \in r.fresh
                                 THEN [head |-> RowOf(r, u).head, lines |-> RowOf(r, u).lines,
                                       link |-> r.link]
                                 ELSE server[u]]
    /\ made' = [u \in Uuid |-> made[u] + IF u \in r.fresh THEN 1 ELSE 0]
    /\ conn' = [conn EXCEPT ![c].at = "ok"]
    /\ UNCHANGED <<phone, voided, task, faults>>

(* The handler commits what is new, all of it or nothing.                   *)
ServerCommit(c) ==
    LET r == conn[c]
        good == Insertable(r) /\ \A u \in r.fresh : RowOf(r, u).lines > 0
    IN
    /\ r # Null /\ r.at = "serving"
    /\ IF good
       THEN /\ server' = [u \in Uuid |->
                 IF u \in r.fresh THEN [head |-> RowOf(r, u).head,
                                        lines |-> RowOf(r, u).lines, link |-> r.link]
                 ELSE server[u]]
            /\ made' = [u \in Uuid |-> made[u] + IF u \in r.fresh THEN 1 ELSE 0]
       ELSE UNCHANGED <<server, made>>
    /\ conn' = [conn EXCEPT ![c].at = IF good THEN "ok" ELSE "error"]
    /\ UNCHANGED <<phone, voided, task, faults>>

(* Refused, or broken off: nothing is committed.                            *)
ServerRefuse(c) ==
    /\ conn[c] # Null /\ conn[c].at = "serving"
    /\ Fault
    /\ conn' = [conn EXCEPT ![c].at = "error"]
    /\ UNCHANGED <<phone, office, task>>

(* The office changes an invoice, or deletes one that has no bonus.         *)
OfficeEdit(u) ==
    /\ "office" \in UserOps /\ Kind[u] = "sale"
    /\ server[u] # Null /\ Fault
    /\ server' = [server EXCEPT ![u].head = OfficeVersion, ![u].lines = OfficeVersion]
    /\ UNCHANGED <<phone, made, voided, task, conn>>

OfficeDelete(u) ==
    /\ "office" \in UserOps /\ u \in Pulled
    /\ server[u] # Null /\ Fault
    /\ \A b \in Uuid : server[b] # Null => server[b].link # u
    /\ server' = [server EXCEPT ![u] = Null]
    /\ voided' = [voided EXCEPT ![u] = @ + 1]
    /\ UNCHANGED <<phone, made, task, conn>>

-----------------------------------------------------------------------------
(* Answers. *)

(* Wrong on purpose: any answer marks the document.                         *)
AnsweredAnyhow(p) ==
    LET t == task[p]
        r == conn[t.conn]
    IN
    /\ t.conn # Null /\ r.at \in {"ok", "error"}
    /\ local' = [u \in Uuid |-> IF local[u] # Null /\ u \in Asked(r)
                                THEN [local[u] EXCEPT !.synced = TRUE] ELSE local[u]]
    /\ conn' = [conn EXCEPT ![t.conn] = Null]
    /\ Becomes(p, [t EXCEPT !.conn = Null, !.queue = Tail(@), !.sent = 1])
    /\ UNCHANGED <<saved, dropped, office, faults>>

(* A transfer must have arrived with as many lines as were sent.            *)
SameCount(u, lines) ==
    server[u] # Null /\ LineCount[u][lines] = LineCount[u][server[u].lines]

Complete(r) ==
    Kind[r.rows[1].uuid] = "transfer" => SameCount(r.rows[1].uuid, r.rows[1].lines)

(* markSaleSynced and its likes, by uuid, whatever the row has become; and  *)
(* markTransferSynced, by the local_id of the phone's own row.              *)
Marked(r, u) ==
    /\ local[u] # Null /\ u \in Asked(r)
    /\ Kind[u] = "transfer" => local[u].own

Answered(p) ==
    LET t == task[p]
        r == conn[t.conn]
    IN
    /\ t.conn # Null /\ r.at = "ok" /\ Complete(r)
    /\ local' = [u \in Uuid |-> IF Marked(r, u) THEN [local[u] EXCEPT !.synced = TRUE]
                                               ELSE local[u]]
    /\ conn' = [conn EXCEPT ![t.conn] = Null]
    /\ Becomes(p, [t EXCEPT !.conn = Null, !.queue = Tail(@), !.sent = 1])
    /\ UNCHANGED <<saved, dropped, office, faults>>

(* Any other status, or another count, stops the step: those behind wait.   *)
AnsweredError(p) ==
    LET t == task[p]
        r == conn[t.conn]
    IN
    /\ t.conn # Null /\ (r.at = "error" \/ (r.at = "ok" /\ ~ Complete(r)))
    /\ conn' = [conn EXCEPT ![t.conn] = Null]
    /\ Becomes(p, AfterError(p))
    /\ UNCHANGED <<phone, office, faults>>

(* No answer in time, or the connection breaks: the request may be lost, or *)
(* be served all the same.                                                  *)
GiveUp(p) ==
    LET t == task[p] IN
    /\ t.conn # Null /\ Fault
    /\ \/ conn' = [conn EXCEPT ![t.conn] = Null]
       \/ conn' = [conn EXCEPT ![t.conn].by = Null]
    /\ Becomes(p, AfterError(p))
    /\ UNCHANGED <<phone, office>>

(* The session has expired (401) or the app is killed: every task of the    *)
(* app that runs is gone, its database is not.                              *)
Killed ==
    /\ \E p \in Pusher : task[p].at # "idle"
    /\ Fault
    /\ task' = [p \in Pusher |-> Idle]
    /\ conn' = [c \in Conn |-> IF conn[c] = Null THEN Null ELSE [conn[c] EXCEPT !.by = Null]]
    /\ UNCHANGED <<phone, office>>

(* An answer nobody waits for.                                              *)
Forgotten(c) ==
    /\ conn[c] # Null /\ conn[c].by = Null /\ conn[c].at \in {"ok", "error"}
    /\ conn' = [conn EXCEPT ![c] = Null]
    /\ UNCHANGED <<phone, office, task, faults>>

-----------------------------------------------------------------------------
(* The pull. *)

(* rep_bundle: the recent invoices and receipts of the user.                *)
PullAnswer(p) ==
    /\ task[p].at = "pull" /\ task[p].bundle = Null
    /\ Becomes(p, [task[p] EXCEPT !.bundle = server])
    /\ UNCHANGED <<phone, office, conn, faults>>

PullFails(p) ==
    /\ task[p].at = "pull" /\ task[p].bundle = Null /\ Fault
    /\ Becomes(p, Rest(task[p]))
    /\ UNCHANGED <<phone, office, conn>>

(* Wrong on purpose: a pending row the server has not got goes as well.     *)
AppliedToAll(bundle, u) ==
    IF bundle[u] = Null THEN Null
    ELSE [head |-> bundle[u].head, lines |-> bundle[u].lines,
          own |-> local[u] # Null /\ local[u].own, synced |-> TRUE]

(* A pending row stays as it is; a synced one becomes the server's, or goes *)
(* if the server has it no more; one that is missing is added.              *)
Applied(bundle, u) ==
    IF Pending(u) THEN local[u]
    ELSE IF bundle[u] = Null THEN Null
    ELSE [head |-> bundle[u].head, lines |-> bundle[u].lines,
          own |-> local[u] # Null /\ local[u].own, synced |-> TRUE]

(* applyServerInvoices and applyServerReceipts.                             *)
PullApply(p) ==
    /\ task[p].bundle # Null
    /\ local' = [u \in Uuid |-> IF u \in Pulled THEN Applied(task[p].bundle, u) ELSE local[u]]
    /\ Becomes(p, Rest(task[p]))
    /\ UNCHANGED <<saved, dropped, office, conn, faults>>

-----------------------------------------------------------------------------
OfflineInit ==
    /\ local = [u \in Uuid |-> Null] /\ server = [u \in Uuid |-> Null]
    /\ task = [p \in Pusher |-> Idle] /\ conn = [c \in Conn |-> Null]
    /\ made = [u \in Uuid |-> 0] /\ voided = [u \in Uuid |-> 0]
    /\ saved = {} /\ dropped = {} /\ faults = 0

UserStep ==
    \/ \E u \in Uuid : Save(u) \/ Edit(u) \/ Delete(u)
    \/ SignInAsOther

TaskStep(p) ==
    \/ StartStep(p) \/ EndStep(p) \/ \E c \in Conn : Send(p, c)
    \/ Answered(p) \/ AnsweredError(p) \/ PullAnswer(p) \/ PullApply(p)

ServerStep(c) == ServerLookup(c) \/ ServerCommit(c) \/ Forgotten(c)

OfflineNext ==
    \/ UserStep
    \/ \E p \in Pusher : (\E plan \in Plan[p] : StartTask(p, plan)) \/ TaskStep(p)
    \/ \E c \in Conn : ServerStep(c) \/ ServerRefuse(c)
    \/ \E p \in Pusher : GiveUp(p) \/ PullFails(p)
    \/ Killed
    \/ \E u \in Uuid : OfficeEdit(u) \/ OfficeDelete(u)

OfflineSpec == OfflineInit /\ [][OfflineNext]_offlineVars

-----------------------------------------------------------------------------
OfflineTypeOK ==
    /\ local \in [Uuid -> LocalRow \cup {Null}]
    /\ server \in Bundle
    /\ task \in [Pusher -> TaskRow]
    /\ conn \in [Conn -> RequestRow \cup {Null}]
    /\ made \in [Uuid -> Nat] /\ voided \in [Uuid -> Nat]
    /\ saved \subseteq Uuid /\ dropped \subseteq Uuid /\ faults \in 0..MaxFault
    /\ \A p \in Pusher : task[p].conn # Null =>
          conn[task[p].conn] # Null /\ conn[task[p].conn].by = p

(* However often a document is pushed, by however many pushers, and however *)
(* many answers are lost, the server creates it once, and again only after  *)
(* the office deleted it.                                                   *)
MadeOnce == \A u \in Uuid : made[u] =< 1 + voided[u]

(* The rows are well formed, and a document the phone shows as uploaded did *)
(* reach the server.                                                        *)
SyncedWasMade == OfflineTypeOK /\ \A u \in Uuid : local[u] # Null /\ local[u].synced => made[u] > 0

(* A document is made once, and one the phone shows as uploaded was made    *)
(* (api_client.dart: push; auto_sync.dart).                                 *)
ReachedOnce == MadeOnce /\ SyncedWasMade

(* A saved document that never reached the server is still on the phone,    *)
(* unless its user deleted it: no pull, sign-in or crash loses it.          *)
NeverLost == \A u \in saved : local[u] # Null \/ made[u] > 0 \/ u \in dropped

(* A bonus is never received before the invoice it is for, so its link is   *)
(* kept, unless the office had deleted that invoice.                        *)
BonusIsLinked ==
    \A u \in Uuid : Kind[u] = "bonus" /\ server[u] # Null =>
        server[u].link = Base[u] \/ voided[Base[u]] > 0

(* A transfer whose first answer was lost, and that was edited since to     *)
(* another count of lines, is refused from then on, and holds up those      *)
(* saved before it.                                                         *)
HeldUp(u) ==
    Kind[u] = "transfer" /\ \E v \in Uuid :
        /\ v >= u /\ Kind[v] = "transfer" /\ Pending(v)
        /\ server[v] # Null /\ ~ SameCount(v, local[v].lines)

(* Phone and server agree on the documents that are pulled, and nothing is  *)
(* waiting but transfers that are held up.                                  *)
Agreed ==
    /\ \A u \in Uuid : Pending(u) => HeldUp(u)
    /\ \A u \in Pulled :
          /\ (local[u] = Null) = (server[u] = Null)
          /\ local[u] # Null => /\ local[u].head = server[u].head
                                /\ local[u].lines = server[u].lines

(* If the user keeps synchronising, phone and server come to agree for      *)
(* good, whatever was lost, edited or deleted on the way, and nothing waits *)
(* but what an edited transfer holds up (api_client.dart: pushTransfers).   *)
AgreeInTheEnd == <>[]Agreed
=============================================================================
