------------------------------ MODULE PunchAgent ------------------------------
(***************************************************************************)
(* The agent that carries a fingerprint device's log to the server         *)
(* (src/tools/zk_agent/zk_agent.py, techno_basma.py).                      *)
(*                                                                         *)
(* The agent is run every few minutes, and runs may overlap: the lock file *)
(* is removed by whoever found it taken, and the window takes none.  A run *)
(* reads its state file, counts the device's records, reads the log if the *)
(* count changed since, and sends what is not older than its cursor in     *)
(* batches, the oldest first.  It may be cut off anywhere; an answer may   *)
(* be lost, or a request still be under way when it is given up.           *)
(*                                                                         *)
(* Heartbeat and list of users change nothing here.  The device keeps its  *)
(* log until somebody erases it, once all of it is on the server.          *)
(***************************************************************************)
EXTENDS Integers, FiniteSets, FiniteSetsExt, NullValue

CONSTANTS
    Run,            \* runs that may be going on at once
    Punch,          \* what may be recorded: [no, at, way]
    Batch,          \* batch_size
    Overlap,        \* overlap_hours
    FirstDay,       \* since_date: instant from which punches are sent
    NewMonths,      \* since_date left empty: instants at which a month begins
    MaxCuts         \* bound on failures and on starts by hand

ASSUME AgentAssumption ==
    /\ Batch \in Nat \ {0} /\ Overlap \in Nat
    /\ FirstDay \in Nat /\ NewMonths \subseteq Nat
    /\ IsFiniteSet(Punch) /\ \A p \in Punch : p.at \in Nat
    /\ Null \notin Int

VARIABLES
    punched,        \* punches made so far
    held,           \* those in the device's log
    file,           \* the state file
    going,          \* of each run, what it knows
    since,          \* where a run that starts now begins
    arrived,        \* rows of attendance_punch
    late,           \* punches of a request given up but still under way
    cuts            \* failures and starts by hand so far

agentVars == <<punched, held, file, going, since, arrived, late, cuts>>

Empty == [last |-> Null, count |-> Null]

-----------------------------------------------------------------------------
(* Clocks of the device may be set back, by no more than the overlap.       *)
MakePunch(p) ==
    /\ p \notin punched /\ \A q \in punched : p.at >= q.at - Overlap
    /\ punched' = punched \cup {p} /\ held' = held \cup {p}
    /\ UNCHANGED <<file, going, since, arrived, late, cuts>>

EraseLog ==
    /\ held # {} /\ held \subseteq arrived
    /\ held' = {}
    /\ UNCHANGED <<punched, file, going, since, arrived, late, cuts>>

MonthBegins(t) ==
    /\ t > since /\ since' = t
    /\ UNCHANGED <<punched, held, file, going, arrived, late, cuts>>

-----------------------------------------------------------------------------
(* Where a run that finds state s begins.                                   *)
Cursor(s) ==
    IF s.last = Null THEN since
    ELSE IF Overlap > 0 THEN Max({since, s.last - Overlap})
    ELSE s.last

Started(s) ==
    [step |-> "count", last |-> s.last, count |-> s.count, seen |-> Null,
     cursor |-> Cursor(s), todo |-> {}]

Start(r) ==
    /\ going[r] = Null
    /\ going' = [going EXCEPT ![r] = Started(file)]
    /\ UNCHANGED <<punched, held, file, since, arrived, late, cuts>>

(* By hand, with --since the first day: the state is not looked at.         *)
StartAgain(r) ==
    /\ going[r] = Null
    /\ cuts < MaxCuts /\ cuts' = cuts + 1
    /\ going' = [going EXCEPT ![r] = Started(Empty)]
    /\ UNCHANGED <<punched, held, file, since, arrived, late>>

Count(r) ==
    /\ going[r] # Null /\ going[r].step = "count"
    /\ going' = [going EXCEPT ![r].step = "read", ![r].seen = Cardinality(held)]
    /\ UNCHANGED <<punched, held, file, since, arrived, late, cuts>>

Unchanged(g) == g.last # Null /\ g.count = g.seen

Read(r) ==
    /\ going[r] # Null /\ going[r].step = "read"
    /\ going' = [going EXCEPT ![r].step = "send",
                              ![r].todo = IF Unchanged(going[r]) THEN {}
                                          ELSE {p \in held : p.at >= going[r].cursor}]
    /\ UNCHANGED <<punched, held, file, since, arrived, late, cuts>>

Sending(r) == going[r] # Null /\ going[r].step = "send"

(* The next batch: the oldest of what is left.                              *)
IsNext(r, chunk) ==
    /\ chunk \subseteq going[r].todo
    /\ Cardinality(chunk) = Min({Batch, Cardinality(going[r].todo)})
    /\ \A p \in chunk, q \in going[r].todo \ chunk : p.at =< q.at

(* Wrong on purpose: the count is saved with each batch.                   *)
BatchAnsweredCounts(r, chunk) ==
    LET newest == Max({p.at : p \in chunk} \cup ({going[r].last} \ {Null}))
    IN
    /\ Sending(r) /\ chunk # {} /\ IsNext(r, chunk)
    /\ arrived' = arrived \cup chunk
    /\ going' = [going EXCEPT ![r].todo = @ \ chunk, ![r].last = newest]
    /\ file' = [last |-> newest, count |-> going[r].seen]
    /\ UNCHANGED <<punched, held, since, late, cuts>>

(* The batch is on the server, and the state file says how far it went.     *)
BatchAnswered(r, chunk) ==
    LET newest == Max({p.at : p \in chunk} \cup ({going[r].last} \ {Null}))
    IN
    /\ Sending(r) /\ chunk # {} /\ IsNext(r, chunk)
    /\ arrived' = arrived \cup chunk
    /\ going' = [going EXCEPT ![r].todo = @ \ chunk, ![r].last = newest]
    /\ file' = [last |-> newest, count |-> going[r].count]
    /\ UNCHANGED <<punched, held, since, late, cuts>>

(* The same batch will be sent again, unless the run gives up.              *)
BatchUnanswered(r, chunk) ==
    /\ Sending(r) /\ chunk # {} /\ IsNext(r, chunk)
    /\ cuts < MaxCuts /\ cuts' = cuts + 1
    /\ \/ arrived' = arrived \cup chunk /\ late' = late
       \/ arrived' = arrived /\ late' = late \cup chunk
    /\ UNCHANGED <<punched, held, file, going, since>>

LateRequestRuns ==
    /\ late # {}
    /\ arrived' = arrived \cup late /\ late' = {}
    /\ UNCHANGED <<punched, held, file, going, since, cuts>>

(* Wrong on purpose: the device's records are counted again at the end.     *)
FinishCounts(r) ==
    /\ Sending(r) /\ going[r].todo = {}
    /\ file' = [last |-> IF going[r].last = Null THEN going[r].cursor ELSE going[r].last,
                 count |-> Cardinality(held)]
    /\ going' = [going EXCEPT ![r] = Null]
    /\ UNCHANGED <<punched, held, since, arrived, late, cuts>>

Finish(r) ==
    /\ Sending(r) /\ going[r].todo = {}
    /\ file' = [last |-> IF going[r].last = Null THEN going[r].cursor ELSE going[r].last,
                 count |-> going[r].seen]
    /\ going' = [going EXCEPT ![r] = Null]
    /\ UNCHANGED <<punched, held, since, arrived, late, cuts>>

(* The run gives up, is refused, or its computer goes down.                 *)
CutOff(r) ==
    /\ going[r] # Null
    /\ cuts < MaxCuts /\ cuts' = cuts + 1
    /\ going' = [going EXCEPT ![r] = Null]
    /\ UNCHANGED <<punched, held, file, since, arrived, late>>

(* The state file is missing or cannot be read.                             *)
LoseState ==
    /\ file # Empty
    /\ cuts < MaxCuts /\ cuts' = cuts + 1
    /\ file' = Empty
    /\ UNCHANGED <<punched, held, going, since, arrived, late>>

-----------------------------------------------------------------------------
AgentInit ==
    /\ punched = {} /\ held = {} /\ arrived = {} /\ late = {}
    /\ file = Empty /\ since = FirstDay /\ cuts = 0
    /\ going = [r \in Run |-> Null]

BatchSent(r) == \E chunk \in SUBSET Punch : BatchAnswered(r, chunk)

RunOf(r) ==
    \/ Start(r) \/ StartAgain(r) \/ Count(r) \/ Read(r)
    \/ BatchSent(r) \/ \E chunk \in SUBSET Punch : BatchUnanswered(r, chunk)
    \/ Finish(r) \/ CutOff(r)

AgentNext ==
    \/ \E p \in Punch : MakePunch(p)
    \/ \E t \in NewMonths : MonthBegins(t)
    \/ EraseLog \/ LateRequestRuns \/ LoseState
    \/ \E r \in Run : RunOf(r)

-----------------------------------------------------------------------------
Unsent == {p \in held \ arrived : p.at >= FirstDay}

(* Whatever was cut off or overlapped, a punch not yet on the server is     *)
(* none the state file would have the next run pass over: it is not before  *)
(* the cursor, and the count says there is something to read, unless        *)
(* records were erased (zk_agent.py: run_sync, read_device).                *)
NothingSkipped ==
    \A p \in Unsent :
        /\ p.at >= Cursor(file)
        /\ held = punched /\ file.last # Null => file.count # Cardinality(held)

(* Where no month has begun (zk_agent.py: run_sync, read_device).           *)
NothingSkippedInMonth == since = FirstDay => NothingSkipped

(* Every punch reaches the server, unless records were erased and others    *)
(* brought their number back to what it was (zk_agent.py: run_sync).        *)
PunchesArrive ==
    \A p \in Punch : p \in Unsent ~> (p \in arrived \/ held # punched)
=============================================================================
