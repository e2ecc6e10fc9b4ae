-------------------------- MODULE TransfersProofs --------------------------
(***************************************************************************)
(* Theorems about Transfers, for any number of requests, transfers, items  *)
(* and places.  A step of the transfers is a step of the stock ledger, or  *)
(* it drops the movements of a transfer (StepSplit); so the ledger's own   *)
(* theorems carry over where nothing is dropped.  Movements come in pairs, *)
(* so a transfer conserves; and while one request at a time is served, an  *)
(* approved transfer has moved exactly its lines.                          *)
(***************************************************************************)
EXTENDS MCTransfers, StockLedgerProofs, FiniteTheorems

(* A commit that drops movements: cancel, and delete of what was approved.  *)
Drops(t) ==
    /\ req[t] # Null /\ req[t].op \in {"cancel", "delete"}
    /\ \E st \in {"reversed", "deleted"}, row \in {transfer[req[t].doc], NoRow} :
          DropMovements(t, st, row)

(* Every step is one of the ledger, or drops the movements of a transfer.   *)
LEMMA StepSplit ==
  [TransferNext]_transferVars => [Next]_vars \/ \E t \in Txn : Drops(t)
<1> SUFFICES ASSUME [TransferNext]_transferVars
             PROVE  [Next]_vars \/ \E t \in Txn : Drops(t)
  OBVIOUS
<1>1. CASE UNCHANGED transferVars
  BY <1>1 DEF transferVars
<1>2. ASSUME NEW d \in Doc, NEW draft \in Draft, Create(d, draft) PROVE UNCHANGED vars
  BY <1>2 DEF Create
<1>3. ASSUME NEW t \in Txn, NEW d \in Doc, Start(t, d) PROVE Begin(t)
  BY <1>3 DEF Start, StartApprove, StartAutoApprove, StartCancel, StartDelete,
              StartRevise, StartReject, StartAddLine, StartSetLine, StartRemoveLine, Serve
<1>4. ASSUME NEW t \in Txn, NEW item, NEW p, NEW q, StartSale(t, item, p, q)
      PROVE  Begin(t)
  BY <1>4 DEF StartSale
<1>5. ASSUME NEW t \in Txn, PostNext(t) PROVE \E c \in Call : Request(t, c)
  BY <1>5 DEF PostNext
<1>6. ASSUME NEW t \in Txn, LedgerStep(t) \/ LedgerAbort(t) PROVE Step(t)
  BY <1>6 DEF LedgerStep, LedgerAbort, Step
<1>7. ASSUME NEW t \in Txn, Finish(t) PROVE Commit(t) \/ Drops(t)
  <2>1. CASE FinishCancel(t)
    BY <2>1 DEF FinishCancel, Ready, Drops
  <2>2. CASE FinishDelete(t)
    BY <2>2 DEF FinishDelete, Ready, Drops, Write
  <2>3. CASE FinishSale(t)
    BY <2>3 DEF FinishSale
  <2> QED
    BY <1>7, <2>1, <2>2, <2>3
    DEF Finish, FinishApprove, FinishAutoApprove, FinishRevise, FinishReject,
        FinishAddLine, FinishSetLine, FinishRemoveLine, Write
<1> QED
  BY <1>1, <1>2, <1>3, <1>4, <1>5, <1>6, <1>7 DEF TransferNext, Next, Step

-----------------------------------------------------------------------------
(* Where no request cancels or deletes, the transfers implement the ledger. *)

NothingDropped == Ops \cap {"cancel", "delete"} = {}

(* A transaction serves only the kinds of request of the instance.          *)
ServesOps ==
    /\ req = [t \in Txn |-> req[t]]
    /\ \A t \in Txn : req[t] # Null => req[t].op \in Ops

(* A request is of one of the kinds in Ops until it ends.                   *)
LEMMA ServesOpsStep == ServesOps /\ [TransferNext]_transferVars => ServesOps'
<1> SUFFICES ASSUME ServesOps, [TransferNext]_transferVars PROVE ServesOps'
  OBVIOUS
<1>1. CASE req' = req
  BY <1>1 DEF ServesOps
<1>2. ASSUME NEW t \in Txn, NEW d \in Doc, Start(t, d) PROVE ServesOps'
  <2>1. ASSUME NEW op, NEW ask, NEW plan, Serve(t, op, d, ask, plan)
        PROVE  ServesOps'
    BY <2>1 DEF Serve, ServesOps
  <2> QED
    BY <1>2, <2>1
    DEF Start, StartApprove, StartAutoApprove, StartCancel, StartDelete,
        StartRevise, StartReject, StartAddLine, StartSetLine, StartRemoveLine
<1>3. ASSUME NEW t \in Txn, NEW item, NEW p, NEW q, StartSale(t, item, p, q)
      PROVE  ServesOps'
  BY <1>3 DEF StartSale, ServesOps
<1>4. ASSUME NEW t \in Txn, End(t) PROVE ServesOps'
  BY <1>4 DEF End, ServesOps
<1>5. ASSUME NEW t \in Txn, LedgerAbort(t) \/ Finish(t) PROVE End(t)
  BY <1>5 DEF LedgerAbort, Finish, FinishApprove, FinishAutoApprove, FinishCancel,
              FinishDelete, FinishRevise, FinishReject, FinishAddLine, FinishSetLine,
              FinishRemoveLine, FinishSale, Write, DropMovements
<1> QED
  BY <1>1, <1>2, <1>3, <1>4, <1>5
  DEF TransferNext, transferVars, Create, PostNext, LedgerStep

(* Transfers without cancellation and deletion use the stock ledger only    *)
(* through its own steps.                                                   *)
THEOREM TransfersImplementLedger ==
  ASSUME NothingDropped
  PROVE  TransferSpec => ImplementsLedger
<1>1. TransferInit => Init /\ ServesOps
  BY DEF TransferInit, ServesOps
<1>2. ServesOps /\ [TransferNext]_transferVars => [Next]_vars
  BY StepSplit DEF Drops, ServesOps, NothingDropped
<1> QED
  BY <1>1, <1>2, ServesOpsStep, PTL DEF TransferSpec, ImplementsLedger, Spec

(* FR-008: approvals, automatic approvals, revisions, rejections and sales, *)
(* however they interleave, never drive an on-hand below zero.              *)
THEOREM TransfersNeverNegative ==
  ASSUME NothingDropped
  PROVE  TransferSpec => []NonNegative
BY TransfersImplementLedger, NeverNegative, PTL DEF ImplementsLedger

(* And every approval, automatic approval, revision and sale takes effect   *)
(* in one instant, each of its movements funded then (StockBook).           *)
THEOREM TransfersSerializable ==
  ASSUME NothingDropped
  PROVE  TransferSpec => Serializable
BY TransfersImplementLedger, LedgerSerializable, PTL DEF ImplementsLedger

-----------------------------------------------------------------------------
(* Nothing moves before an approval.  Only a commit changes the movements   *)
(* of a transfer, so the argument needs what a commit brings with it: a     *)
(* request that leaves the status alone has posted nothing (Quiet), unless  *)
(* it is a revision, and a revision was let in by an approval, after which  *)
(* a transfer is never pending again.                                       *)

Quiet == {"cancel", "delete", "reject", "add_line", "set_line", "remove_line"}

Shapes ==
    /\ status \in [Doc -> Status]
    /\ moved \in [Doc -> [Locator -> Int]]
    /\ delta = [t \in Txn |-> delta[t]]
    /\ pc = [t \in Txn |-> pc[t]]
    /\ req = [t \in Txn |-> req[t]]
    /\ todo = [t \in Txn |-> todo[t]]

Unstarted == \A t \in Txn : pc[t] = "idle" => delta[t] = NoDelta

QuietPostsNothing ==
    \A t \in Txn : req[t] # Null /\ req[t].op \in Quiet =>
        pc[t] = "open" /\ todo[t] = <<>> /\ delta[t] = NoDelta

RevisesApproved ==
    \A t \in Txn : req[t] # Null /\ req[t].op = "revise" =>
        status[req[t].doc] \notin {"none", "pending"}

(* Every request but a sale is about a transfer.                            *)
AboutTransfers ==
    \A t \in Txn : req[t] # Null /\ req[t].op # "sell" => req[t].doc \in Doc

PInv == /\ Shapes /\ Unstarted /\ QuietPostsNothing
        /\ AboutTransfers /\ RevisesApproved /\ PendingMovesNothing

(* No transfer and no request at the start.                                 *)
LEMMA PInit == TransferInit => PInv
BY DEF TransferInit, Init, PInv, Shapes, Unstarted, QuietPostsNothing, RevisesApproved,
       AboutTransfers, PendingMovesNothing, Status, NoDelta

(* A request begins: nothing has moved yet.                                 *)
LEMMA PServe ==
  ASSUME PInv, NEW t \in Txn, NEW op, NEW d \in Doc, NEW ask, NEW plan,
         Serve(t, op, d, ask, plan),
         op \in Quiet => plan = <<>>,
         op = "revise" => status[d] \notin {"none", "pending"}
  PROVE  PInv'
<1>1. pc[t] = "idle" /\ delta[t] = NoDelta
  BY DEF Serve, Begin, PInv, Unstarted
<1>2. Shapes' /\ Unstarted' /\ PendingMovesNothing'
  BY <1>1 DEF PInv, Shapes, Unstarted, PendingMovesNothing, Serve, Begin, docVars, NoDelta
<1>3. QuietPostsNothing'
  BY <1>1 DEF PInv, Shapes, QuietPostsNothing, Serve, Begin, docVars, NoDelta
<1>4. AboutTransfers' /\ RevisesApproved'
  BY <1>1 DEF PInv, Shapes, AboutTransfers, RevisesApproved, Serve, Begin, docVars
<1> QED
  BY <1>2, <1>3, <1>4 DEF PInv

(* Posting: only a request that is not quiet posts.                         *)
LEMMA PPost ==
  ASSUME PInv, NEW t \in Txn, PostNext(t) \/ LedgerStep(t)
  PROVE  PInv'
<1>1. ~ (req[t] # Null /\ req[t].op \in Quiet)
  <2>1. PostNext(t) => todo[t] # <<>>
    BY DEF PostNext
  <2>2. LedgerStep(t) => pc[t] # "open"
    BY DEF LedgerStep, LockLocator, MissLocator, InsertLocator, InsertMovement
  <2> QED
    BY <2>1, <2>2 DEF PInv, QuietPostsNothing
<1>2. /\ pc' = [pc EXCEPT ![t] = pc'[t]] /\ pc'[t] # "idle"
      /\ delta' = [delta EXCEPT ![t] = delta'[t]]
      /\ todo' = [todo EXCEPT ![t] = todo'[t]]
      /\ UNCHANGED <<docVars, req>>
  <2>1. CASE PostNext(t)
    BY <2>1 DEF PostNext, Request, PInv, Shapes
  <2>2. CASE LedgerStep(t)
    BY <2>2 DEF LedgerStep, LockLocator, MissLocator, InsertLocator, InsertMovement,
                PInv, Shapes
  <2> QED
    BY <2>1, <2>2
<1>3. Shapes' /\ Unstarted' /\ PendingMovesNothing'
  BY <1>2 DEF PInv, Shapes, Unstarted, PendingMovesNothing, docVars
<1>5. AboutTransfers' /\ RevisesApproved'
  BY <1>2 DEF PInv, AboutTransfers, RevisesApproved, docVars
<1>4. QuietPostsNothing'
  BY <1>1, <1>2 DEF PInv, Shapes, QuietPostsNothing
<1> QED
  BY <1>3, <1>4, <1>5 DEF PInv

(* A request ends: whatever it leaves in the documents, the transactions    *)
(* are as the invariant wants them.                                         *)
LEMMA PEnd ==
  ASSUME PInv, NEW t \in Txn, Release(t), End(t),
         status' \in [Doc -> Status],
         moved' \in [Doc -> [Locator -> Int]],
         \A d \in Doc : status[d] \notin {"none", "pending"} =>
                           status'[d] \notin {"none", "pending"},
         PendingMovesNothing'
  PROVE  PInv'
<1>1. Shapes' /\ Unstarted' /\ QuietPostsNothing'
  BY DEF PInv, Shapes, Unstarted, QuietPostsNothing, Release, End
<1>2. AboutTransfers' /\ RevisesApproved'
  BY DEF PInv, Shapes, RevisesApproved, AboutTransfers, End
<1> QED
  BY <1>1, <1>2 DEF PInv

(* A request that ends without a commit changes no transfer.                *)
LEMMA PAbort ==
  ASSUME PInv, NEW t \in Txn, LedgerAbort(t) PROVE PInv'
<1>1. Release(t) /\ End(t) /\ UNCHANGED docVars
  BY DEF LedgerAbort, LocatorTaken, NotEnough, Rollback, DeadlockVictim, Abort
<1> QED
  BY <1>1, PEnd DEF PInv, Shapes, PendingMovesNothing, docVars

(* A commit that writes: a transfer it leaves pending was pending, and had  *)
(* nothing moved by this request.                                           *)
LEMMA PWrite ==
  ASSUME TypeOK, PInv, NEW t \in Txn, NEW st, NEW row, Write(t, st, row),
         req[t].doc \in Doc => st \in Status,
         req[t].doc \in Doc /\ st \in {"none", "pending"} =>
             st = status[req[t].doc] /\ delta[t] = NoDelta
  PROVE  PInv'
<1>1. Release(t) /\ End(t)
  BY DEF Write, Commit
<1>2. status' \in [Doc -> Status]
  BY DEF Write, PInv, Shapes
<1>3. \A d \in Doc : status[d] \notin {"none", "pending"} =>
                        status'[d] \notin {"none", "pending"}
  BY DEF Write, PInv, Shapes
<1>4. moved' \in [Doc -> [Locator -> Int]]
  <2> DEFINE sum == [l \in Locator |-> moved[req[t].doc][l] + delta[t][l]]
  <2>1. moved' = [moved EXCEPT ![req[t].doc] = sum]
    BY DEF Write
  <2>2. req[t].doc \in Doc => sum \in [Locator -> Int]
    BY DEF PInv, Shapes, TypeOK
  <2> HIDE DEF sum
  <2> QED
    BY <2>1, <2>2 DEF PInv, Shapes
<1>5. PendingMovesNothing'
  <2> SUFFICES ASSUME NEW d \in Doc, status'[d] \in {"none", "pending"}
               PROVE  moved'[d] = NoDelta
    BY DEF PendingMovesNothing
  <2>1. status[d] \in {"none", "pending"}
    BY <1>3
  <2>2. moved[d] = NoDelta
    BY <2>1 DEF PInv, PendingMovesNothing
  <2>3. CASE d # req[t].doc
    BY <2>2, <2>3 DEF Write, PInv, Shapes
  <2>4. CASE d = req[t].doc
    <3>1. status'[d] = st
      BY <2>4 DEF Write, PInv, Shapes
    <3>2. delta[t] = NoDelta
      BY <3>1, <2>4
    <3>3. moved'[d] = [l \in Locator |-> moved[d][l] + delta[t][l]]
      BY <2>4 DEF Write, PInv, Shapes
    <3> QED
      BY <2>2, <3>2, <3>3 DEF NoDelta
  <2> QED
    BY <2>3, <2>4
<1> QED
  BY <1>1, <1>2, <1>3, <1>4, <1>5, PEnd

(* A commit that drops leaves the transfer reversed or deleted, never pending. *)
LEMMA PDrop ==
  ASSUME PInv, NEW t \in Txn, NEW st \in {"reversed", "deleted"}, NEW row,
         DropMovements(t, st, row)
  PROVE  PInv'
<1>1. Release(t) /\ End(t)
  BY DEF DropMovements
<1>2. status' \in [Doc -> Status]
  BY DEF DropMovements, PInv, Shapes, Status
<1>3. moved' \in [Doc -> [Locator -> Int]]
  <2>1. NoDelta \in [Locator -> Int]
    BY DEF NoDelta
  <2> QED
    BY <2>1 DEF DropMovements, PInv, Shapes
<1>4. PendingMovesNothing'
  BY DEF DropMovements, PInv, Shapes, PendingMovesNothing
<1> QED
  BY <1>1, <1>2, <1>3, <1>4, PEnd DEF DropMovements, PInv, Shapes

-----------------------------------------------------------------------------
(* The commit of each kind of request, by PWrite and PDrop.                 *)
LEMMA PFinish ==
  ASSUME TypeOK, PInv, NEW t \in Txn, Finish(t) PROVE PInv'
<1> DEFINE d == req[t].doc
<1>1. d \in Doc => status[d] \in Status
  BY DEF PInv, Shapes
<1>2. CASE FinishApprove(t)
  BY <1>2, PWrite DEF FinishApprove, Status
<1>3. CASE FinishAutoApprove(t)
  <2>1. PICK row : Write(t, "approved", row)
    BY <1>3 DEF FinishAutoApprove
  <2> QED
    BY <2>1, PWrite DEF Status
<1>4. CASE FinishCancel(t)
  BY <1>4, PDrop DEF FinishCancel
<1>5. CASE FinishDelete(t)
  BY <1>5, PDrop, PWrite DEF FinishDelete, Status
<1>6. CASE FinishRevise(t)
  <2>1. PICK row : Write(t, status[d], row)
    BY <1>6 DEF FinishRevise
  <2>2. status[d] \notin {"none", "pending"}
    BY <1>6 DEF FinishRevise, Ready, PInv, RevisesApproved
  <2> QED
    BY <1>1, <2>1, <2>2, PWrite
<1>7. CASE FinishReject(t)
  BY <1>7, PWrite DEF FinishReject, Status
<1>8. CASE FinishAddLine(t) \/ FinishSetLine(t) \/ FinishRemoveLine(t)
  <2>1. PICK row : Write(t, status[d], row)
    BY <1>8 DEF FinishAddLine, FinishSetLine, FinishRemoveLine
  <2>2. delta[t] = NoDelta
    BY <1>8 DEF FinishAddLine, FinishSetLine, FinishRemoveLine, Ready,
                PInv, QuietPostsNothing, Quiet
  <2> QED
    BY <1>1, <2>1, <2>2, PWrite
<1>9. CASE FinishSale(t)
  BY <1>9, PEnd DEF FinishSale, Commit, PInv, Shapes, PendingMovesNothing, docVars
<1> QED
  BY <1>2, <1>3, <1>4, <1>5, <1>6, <1>7, <1>8, <1>9 DEF Finish

(* The start of each kind of request, by PServe.                            *)
LEMMA PStart ==
  ASSUME PInv, NEW t \in Txn, NEW d \in Doc, Start(t, d) PROVE PInv'
<1>1. ASSUME NEW op \in {"approve", "auto"}, NEW ask, NEW plan,
             Serve(t, op, d, ask, plan)
      PROVE  PInv'
  BY <1>1, PServe DEF Quiet
<1>2. ASSUME NEW op \in Quiet, NEW ask, Serve(t, op, d, ask, <<>>) PROVE PInv'
  BY <1>2, PServe DEF Quiet
<1>3. ASSUME NEW r \in Revision, StartRevise(t, d, r) PROVE PInv'
  <2>1. PICK plan : Serve(t, "revise", d, r, plan)
    BY <1>3 DEF StartRevise
  <2>2. status[d] = "approved"
    BY <1>3 DEF StartRevise
  <2> QED
    BY <2>1, <2>2, PServe DEF Quiet
<1>4. CASE StartApprove(t, d) \/ StartAutoApprove(t, d)
  BY <1>4, <1>1 DEF StartApprove, StartAutoApprove
<1>5. CASE StartCancel(t, d) \/ StartDelete(t, d) \/ StartReject(t, d)
  BY <1>5, <1>2 DEF StartCancel, StartDelete, StartReject, Quiet
<1>6. CASE \E line \in Edit : StartAddLine(t, d, line)
  BY <1>6, <1>2 DEF StartAddLine, Quiet
<1>7. CASE \E id \in LineIds(transfer[d].lines) :
             \/ StartRemoveLine(t, d, id)
             \/ \E line \in Edit : StartSetLine(t, d, id, line)
  BY <1>7, <1>2 DEF StartRemoveLine, StartSetLine, Quiet
<1> QED
  BY <1>3, <1>4, <1>5, <1>6, <1>7 DEF Start

(* The three parts of a request and the creation of a transfer.             *)
LEMMA PStep == TypeOK /\ PInv /\ [TransferNext]_transferVars => PInv'
<1> SUFFICES ASSUME TypeOK, PInv, [TransferNext]_transferVars PROVE PInv'
  OBVIOUS
<1>1. CASE UNCHANGED transferVars
  BY <1>1 DEF transferVars, vars, docVars, PInv, Shapes, Unstarted, QuietPostsNothing,
              AboutTransfers, RevisesApproved, PendingMovesNothing
<1>2. ASSUME NEW d \in Doc, NEW draft \in Draft, Create(d, draft) PROVE PInv'
  <2>1. status[d] = "none" /\ status' = [status EXCEPT ![d] = "pending"]
        /\ UNCHANGED <<vars, moved, req, todo>>
    BY <1>2 DEF Create
  <2>2. Shapes' /\ Unstarted' /\ QuietPostsNothing' /\ AboutTransfers'
    BY <2>1 DEF vars, PInv, Shapes, Unstarted, QuietPostsNothing, AboutTransfers, Status
  <2>3. RevisesApproved' /\ PendingMovesNothing'
    BY <2>1 DEF vars, PInv, Shapes, AboutTransfers, RevisesApproved, PendingMovesNothing
  <2> QED
    BY <2>2, <2>3 DEF PInv
<1>3. ASSUME NEW t \in Txn, NEW item, NEW p, NEW q, StartSale(t, item, p, q)
      PROVE  PInv'
  <2>1. /\ Begin(t) /\ UNCHANGED docVars
        /\ \E r : r.op = "sell" /\ req' = [req EXCEPT ![t] = r]
        /\ \E s : todo' = [todo EXCEPT ![t] = s]
    BY <1>3 DEF StartSale
  <2>2. Shapes' /\ Unstarted' /\ PendingMovesNothing'
    BY <2>1 DEF Begin, docVars, PInv, Shapes, Unstarted, PendingMovesNothing
  <2>3. QuietPostsNothing'
    BY <2>1 DEF Begin, PInv, Shapes, QuietPostsNothing, Quiet
  <2>4. AboutTransfers' /\ RevisesApproved'
    BY <2>1 DEF docVars, PInv, Shapes, AboutTransfers, RevisesApproved
  <2> QED
    BY <2>2, <2>3, <2>4 DEF PInv
<1> QED
  BY <1>1, <1>2, <1>3, PStart, PPost, PAbort, PFinish DEF TransferNext

(* The types of the ledger survive the drops, which are no step of it.      *)
LEMMA TransferTypeStep ==
  TypeOK /\ PInv /\ [TransferNext]_transferVars => TypeOK'
<1> SUFFICES ASSUME TypeOK, PInv, NEW t \in Txn, Drops(t) PROVE TypeOK'
  BY StepSplit, TypeStep
<1>1. PICK st \in {"reversed", "deleted"}, row \in {transfer[req[t].doc], NoRow} :
          DropMovements(t, st, row)
  BY DEF Drops
<1>2. balance' = [l \in Locator |-> balance[l] - moved[req[t].doc][l]]
  BY <1>1 DEF DropMovements
<1>3. moved[req[t].doc] \in [Locator -> Int]
  BY DEF Drops, PInv, Shapes, AboutTransfers
<1>4. balance' \in [Locator -> Int]
  BY <1>2, <1>3 DEF TypeOK
<1>5. Release(t) /\ UNCHANGED known
  BY <1>1 DEF DropMovements
<1> QED
  BY <1>4, <1>5 DEF Release, TypeOK, NoDelta

(* Scenario 1 of the transfers story: while a transfer is pending no stock  *)
(* has moved for it, whatever requests of all kinds race on it.             *)
THEOREM NothingMovesWhilePending == TransferSpec => []PendingMovesNothing
<1>1. TransferInit => TypeOK
  BY OpeningAssumption DEF TransferInit, Init, TypeOK, NoDelta
<1>2. PInv => PendingMovesNothing
  BY DEF PInv
<1> QED
  BY <1>1, <1>2, PInit, PStep, TransferTypeStep, PTL DEF TransferSpec
-----------------------------------------------------------------------------
(* Plans.  What the operators of a plan yield is stated for any sequence of *)
(* lines, numbered or not.                                                  *)
Carries(s) ==
    /\ Len(s) \in Nat /\ DOMAIN s = 1..Len(s)
    /\ \A i \in 1..Len(s) : s[i].item \in Item /\ s[i].qty \in Nat \ {0}

(* The elements of a sequence at some positions, in their order.            *)
Chosen(s, S) == [k \in DOMAIN Ascending(S) |-> s[Ascending(S)[k]]]

(* The positions of a sequence can be put in ascending order.               *)
LEMMA AscendingIn ==
  ASSUME NEW n \in Nat, NEW S \in SUBSET (1..n)
  PROVE  /\ IsFiniteSet(S) /\ Cardinality(S) \in Nat
         /\ Ascending(S) \in [1..Cardinality(S) -> S]
         /\ \A i, j \in 1..Cardinality(S) : i < j => Ascending(S)[i] < Ascending(S)[j]
<1>1. IsFiniteSet(S) /\ Cardinality(S) \in Nat
  <2>1. IsFiniteSet(1..n)
    BY FS_Interval
  <2> QED
    BY <2>1, FS_Subset, FS_CardinalityType
<1> DEFINE rank == [u \in S |-> u]
<1>2. (\A u \in S : rank[u] \in Int) /\ \A u, v \in S : rank[u] = rank[v] => u = v
  OBVIOUS
<1>3. PICK s : InRankOrder(s, S, rank)
  <2> HIDE DEF rank
  <2> QED
    BY <1>1, <1>2, OrderExists
<1>4. /\ s \in [1..Cardinality(S) -> S]
      /\ \A i, j \in DOMAIN s : i < j => s[i] < s[j]
  BY <1>3 DEF InRankOrder
<1> HIDE DEF rank
<1>5. \E r \in [1..Cardinality(S) -> S] : \A i, j \in DOMAIN r : i < j => r[i] < r[j]
  BY <1>4
<1> QED
  BY <1>1, <1>5 DEF Ascending

(* Choosing positions keeps what holds of the elements there.               *)
LEMMA ChosenIn ==
  ASSUME NEW s, Len(s) \in Nat, DOMAIN s = 1..Len(s), NEW S \in SUBSET (DOMAIN s), NEW X,
         \A i \in S : s[i] \in X
  PROVE  Chosen(s, S) \in Seq(X)
<1>1. Cardinality(S) \in Nat /\ Ascending(S) \in [1..Cardinality(S) -> S]
  BY AscendingIn
<1>2. Chosen(s, S) \in [1..Cardinality(S) -> X]
  BY <1>1 DEF Chosen
<1> QED
  BY <1>1, <1>2

(* The lines of an item carry a quantity if there are any.                  *)
LEMMA QtyParts ==
  ASSUME NEW s, Carries(s), NEW item
  PROVE  /\ QtyOf(s, item) \in Nat
         /\ \A i \in DOMAIN s : s[i].item = item => QtyOf(s, item) > 0
<1> DEFINE f == [i \in DOMAIN s |-> s[i].qty]
<1> DEFINE S == {i \in DOMAIN s : s[i].item = item}
<1>1. IsFiniteSet(S) /\ \A i \in S : f[i] \in Nat
  BY AscendingIn DEF Carries
<1>2. QtyOf(s, item) = SumFunctionOnSet(f, S)
  BY DEF QtyOf
<1>3. ASSUME NEW i \in DOMAIN s, s[i].item = item PROVE f[i] \in Nat /\ f[i] > 0 /\ i \in S
  BY <1>3 DEF Carries
<1> HIDE DEF f, S
<1>4. SumFunctionOnSet(f, S) \in Nat /\ \A i \in S : f[i] =< SumFunctionOnSet(f, S)
  BY <1>1, SumBounds
<1> QED
  BY <1>2, <1>3, <1>4

(* A sequence of such lines, of either kind, carries.                       *)
LEMMA LinesCarry ==
  /\ \A s \in Seq(AskedLine) : Carries(s)
  /\ \A s \in Seq(Line) : Carries(s)
<1>1. ASSUME NEW s \in Seq(AskedLine) PROVE Carries(s)
  <2>1. Len(s) \in Nat /\ DOMAIN s = 1..Len(s) /\ \A i \in 1..Len(s) : s[i] \in AskedLine
    OBVIOUS
  <2> QED
    BY <2>1 DEF AskedLine, Carries
<1>2. ASSUME NEW s \in Seq(Line) PROVE Carries(s)
  <2>1. Len(s) \in Nat /\ DOMAIN s = 1..Len(s) /\ \A i \in 1..Len(s) : s[i] \in Line
    OBVIOUS
  <2> QED
    BY <2>1 DEF Line, Carries
<1> QED
  BY <1>1, <1>2

(* The merged lines, in the order of their items.                           *)
LEMMA MergedIn ==
  ASSUME NEW s, Carries(s)
  PROVE  Merged(s) \in Seq(AskedLine)
<1> DEFINE S == {i \in DOMAIN s : \A j \in 1..(i - 1) : s[j].item # s[i].item}
           at == Ascending(S)
<1>1. Cardinality(S) \in Nat /\ at \in [1..Cardinality(S) -> S]
  BY AscendingIn DEF Carries
<1>2. Merged(s) = [k \in DOMAIN at |-> [item |-> s[at[k]].item, qty |-> QtyOf(s, s[at[k]].item)]]
  BY DEF Merged
<1>3. ASSUME NEW i \in S PROVE [item |-> s[i].item, qty |-> QtyOf(s, s[i].item)] \in AskedLine
  <2>1. i \in DOMAIN s /\ s[i].item \in Item
    BY DEF Carries
  <2>2. QtyOf(s, s[i].item) \in Nat /\ QtyOf(s, s[i].item) > 0
    BY <2>1, QtyParts
  <2> QED
    BY <2>1, <2>2 DEF AskedLine
<1> HIDE DEF S, at
<1>4. Merged(s) \in [1..Cardinality(S) -> AskedLine]
  BY <1>1, <1>2, <1>3
<1> QED
  BY <1>1, <1>4

(* The differences of two sets of lines are integers.                       *)
LEMMA DifferencesIn ==
  ASSUME NEW s \in Seq(AskedLine), NEW u \in Seq(AskedLine)
  PROVE  Differences(s, u) \in Seq([item : Item, qty : Int])
<1> DEFINE all == Merged(s \o u)
           Diff == [item : Item, qty : Int]
<1>1. Carries(s) /\ Carries(u) /\ Carries(s \o u)
  <2>1. s \o u \in Seq(AskedLine)
    OBVIOUS
  <2> QED
    BY <2>1, LinesCarry
<1>2. all \in Seq(AskedLine)
  BY <1>1, MergedIn
<1>3. Differences(s, u)
        = [k \in DOMAIN all |-> [all[k] EXCEPT !.qty = QtyOf(u, all[k].item) - QtyOf(s, all[k].item)]]
  BY DEF Differences
<1> HIDE DEF all
<1>4. ASSUME NEW k \in 1..Len(all)
      PROVE  [all[k] EXCEPT !.qty = QtyOf(u, all[k].item) - QtyOf(s, all[k].item)] \in Diff
  <2>1. all[k] \in AskedLine
    BY <1>2
  <2>2. QtyOf(u, all[k].item) \in Int /\ QtyOf(s, all[k].item) \in Int
    BY <1>1, QtyParts
  <2> QED
    BY <2>1, <2>2 DEF AskedLine
<1>5. Len(all) \in Nat /\ DOMAIN all = 1..Len(all)
  BY <1>2
<1> HIDE DEF Diff
<1>6. Differences(s, u) \in [1..Len(all) -> Diff]
  BY <1>3, <1>4, <1>5
<1>7. Differences(s, u) \in Seq(Diff)
  BY <1>5, <1>6
<1> QED
  BY <1>7 DEF Diff

-----------------------------------------------------------------------------
(* A posting out of a place, and the posting that brings it into another.   *)
Opposite(c, e) ==
    c.dir = "out" /\ e.dir = "in" /\ c.qty = e.qty /\ c.loc[1] = e.loc[1]

(* Nothing but such pairs.                                                  *)
Paired(s) ==
    \E n \in Nat : Len(s) = 2 * n /\ \A i \in 1..n : Opposite(s[2 * i - 1], s[2 * i])

(* The movements of a plan come in pairs.                                   *)
LEMMA MovesPaired ==
  ASSUME NEW s, Carries(s), NEW from \in Place, NEW to \in Place
  PROVE  Moves(s, from, to) \in Seq(Posting) /\ Paired(Moves(s, from, to))
<1> DEFINE n == Len(s)
           plan == Moves(s, from, to)
           out(i) == [loc |-> <<s[i].item, from>>, dir |-> "out", qty |-> s[i].qty, negative |-> FALSE]
           in(i) == [loc |-> <<s[i].item, to>>, dir |-> "in", qty |-> s[i].qty, negative |-> FALSE]
<1>1. n \in Nat /\ 2 * n \in Nat
  BY DEF Carries
<1>2. ASSUME NEW i \in 1..n PROVE out(i) \in Posting /\ in(i) \in Posting
  <2>1. s[i].item \in Item /\ s[i].qty \in Nat \ {0}
    BY DEF Carries
  <2>2. <<s[i].item, from>> \in Locator /\ <<s[i].item, to>> \in Locator
    BY <2>1, LocatorAssumption
  <2> QED
    BY <2>1, <2>2 DEF Posting
<1>3. plan = [k \in 1..(2 * n) |->
                IF k % 2 = 1 THEN out((k + 1) \div 2) ELSE in((k + 1) \div 2)]
  BY DEF Moves, Move
<1>4. \A k \in 1..(2 * n) : (k + 1) \div 2 \in 1..n
  BY <1>1
<1> HIDE DEF plan, out, in
<1>5. plan \in [1..(2 * n) -> Posting]
  BY <1>2, <1>3, <1>4
<1>6. plan \in Seq(Posting) /\ Len(plan) = 2 * n
  BY <1>1, <1>5
<1>7. ASSUME NEW i \in 1..n PROVE Opposite(plan[2 * i - 1], plan[2 * i])
  <2>1. /\ 2 * i - 1 \in 1..(2 * n) /\ (2 * i - 1) % 2 = 1 /\ ((2 * i - 1) + 1) \div 2 = i
        /\ 2 * i \in 1..(2 * n) /\ (2 * i) % 2 # 1 /\ (2 * i + 1) \div 2 = i
    BY <1>1
  <2>2. plan[2 * i - 1] = out(i) /\ plan[2 * i] = in(i)
    BY <1>3, <2>1
  <2> QED
    BY <2>2 DEF Opposite, out, in
<1> QED
  BY <1>1, <1>6, <1>7 DEF plan, Paired

LEMMA TailParts ==
  ASSUME NEW X, NEW s \in Seq(X), s # <<>>
  PROVE  /\ Len(s) \in Nat /\ Len(s) > 0 /\ Head(s) = s[1] /\ Head(s) \in X
         /\ Tail(s) \in Seq(X) /\ Len(Tail(s)) = Len(s) - 1
         /\ \A i \in 1..(Len(s) - 1) : Tail(s)[i] = s[i + 1]
OBVIOUS

LEMMA PairedParts ==
  ASSUME NEW s \in Seq(Posting), Paired(s), s # <<>>
  PROVE  /\ Tail(s) # <<>> /\ Opposite(Head(s), Head(Tail(s)))
         /\ Paired(Tail(Tail(s)))
<1>1. PICK n \in Nat : Len(s) = 2 * n /\ \A i \in 1..n : Opposite(s[2 * i - 1], s[2 * i])
  BY DEF Paired
<1>2. n > 0 /\ Len(s) >= 2 /\ 1 \in 1..n
  BY <1>1
<1>3. /\ Tail(s) \in Seq(Posting) /\ Len(Tail(s)) = Len(s) - 1 /\ Head(s) = s[1]
      /\ \A i \in 1..(Len(s) - 1) : Tail(s)[i] = s[i + 1]
  BY TailParts
<1>4. Tail(s) # <<>> /\ 1 \in 1..(Len(s) - 1)
  <2>1. Len(Tail(s)) # 0 /\ 1 \in 1..(Len(s) - 1)
    BY <1>1, <1>2, <1>3
  <2>2. Len(<<>>) = 0
    OBVIOUS
  <2> QED
    BY <2>1, <2>2, Zenon
<1>5. /\ Len(Tail(Tail(s))) = 2 * (n - 1) /\ Head(Tail(s)) = s[2]
      /\ \A i \in 1..(2 * (n - 1)) : Tail(Tail(s))[i] = s[i + 2]
  <2>1. /\ Len(Tail(Tail(s))) = Len(Tail(s)) - 1 /\ Head(Tail(s)) = Tail(s)[1]
        /\ \A i \in 1..(Len(Tail(s)) - 1) : Tail(Tail(s))[i] = Tail(s)[i + 1]
    BY <1>3, <1>4, TailParts
  <2>2. Len(Tail(s)) - 1 = 2 * (n - 1) /\ Tail(s)[1] = s[2]
    BY <1>1, <1>3, <1>4
  <2>3. ASSUME NEW i \in 1..(2 * (n - 1)) PROVE Tail(s)[i + 1] = s[i + 2]
    <3>1. i + 1 \in 1..(Len(s) - 1) /\ (i + 1) + 1 = i + 2
      BY <1>1
    <3> QED
      BY <1>3, <3>1
  <2> QED
    BY <2>1, <2>2, <2>3
<1>6. ASSUME NEW i \in 1..(n - 1)
      PROVE  Opposite(Tail(Tail(s))[2 * i - 1], Tail(Tail(s))[2 * i])
  <2>1. 2 * i - 1 \in 1..(2 * (n - 1)) /\ 2 * i \in 1..(2 * (n - 1)) /\ i + 1 \in 1..n
    BY <1>1
  <2>2. Tail(Tail(s))[2 * i - 1] = s[2 * (i + 1) - 1] /\ Tail(Tail(s))[2 * i] = s[2 * (i + 1)]
    BY <1>1, <1>5, <2>1
  <2> QED
    BY <1>1, <2>1, <2>2
<1>7. n - 1 \in Nat /\ Opposite(s[1], s[2])
  <2>1. Opposite(s[2 * 1 - 1], s[2 * 1])
    BY <1>1, <1>2
  <2> QED
    BY <1>1, <1>2, <2>1
<1> QED
  BY <1>3, <1>4, <1>5, <1>6, <1>7 DEF Paired

LEMMA PairedJoin ==
  ASSUME NEW s \in Seq(Posting), NEW u \in Seq(Posting), Paired(s), Paired(u)
  PROVE  Paired(s \o u)
<1>1. PICK n \in Nat : Len(s) = 2 * n /\ \A i \in 1..n : Opposite(s[2 * i - 1], s[2 * i])
  BY DEF Paired
<1>2. PICK m \in Nat : Len(u) = 2 * m /\ \A i \in 1..m : Opposite(u[2 * i - 1], u[2 * i])
  BY DEF Paired
<1>3. Len(s \o u) = 2 * (n + m) /\ n + m \in Nat
  BY <1>1, <1>2
<1>4. ASSUME NEW i \in 1..(n + m)
      PROVE  Opposite((s \o u)[2 * i - 1], (s \o u)[2 * i])
  <2>1. CASE i =< n
    <3>1. /\ i \in 1..n /\ 2 * i - 1 \in 1..Len(s) /\ 2 * i \in 1..Len(s)
      BY <1>1, <2>1
    <3>2. (s \o u)[2 * i - 1] = s[2 * i - 1] /\ (s \o u)[2 * i] = s[2 * i]
      BY <3>1
    <3> QED
      BY <1>1, <3>1, <3>2
  <2>2. CASE i > n
    <3> DEFINE j == i - n
    <3>1. /\ j \in 1..m
          /\ 2 * j - 1 \in 1..Len(u) /\ 2 * i - 1 = Len(s) + (2 * j - 1)
          /\ 2 * j \in 1..Len(u) /\ 2 * i = Len(s) + 2 * j
      BY <1>1, <1>2, <2>2
    <3>2. \A k \in 1..Len(u) : (s \o u)[Len(s) + k] = u[k]
      OBVIOUS
    <3>3. (s \o u)[2 * i - 1] = u[2 * j - 1] /\ (s \o u)[2 * i] = u[2 * j]
      BY <3>1, <3>2
    <3> QED
      BY <1>2, <3>1, <3>3
  <2>3. i =< n \/ i > n
    OBVIOUS
  <2> QED
    BY <2>1, <2>2, <2>3
<1> QED
  BY <1>3, <1>4 DEF Paired
(* A row that exists has places and a header line, whatever its lines.      *)
Live(row) ==
    row \in Row /\ row.src \in Place /\ row.dst \in Place /\ row.head \in Line

LEMMA MovingIn ==
  ASSUME NEW row, Live(row)
  PROVE  Moving(row) \in Seq(Line) \ {<<>>} /\ Carries(Moving(row))
<1>1. row.lines \in Seq(Line) /\ row.head \in Line
  BY DEF Live, Row
<1>2. Moving(row) \in Seq(Line) \ {<<>>}
  <2>1. <<row.head>> \in Seq(Line) /\ <<row.head>> # <<>>
    BY <1>1
  <2> QED
    BY <1>1, <2>1 DEF Moving
<1> QED
  BY <1>2, LinesCarry

(* What an automatic approval gives carries: lines given nothing are gone.  *)
LEMMA TrimmedIn ==
  ASSUME NEW row, Live(row), balance \in [Locator -> Int]
  PROVE  Trimmed(row) \in Seq(Line)
<1> DEFINE s == Moving(row)
           n == Len(s)
           given == [i \in DOMAIN s |-> [s[i] EXCEPT !.qty = Given(row, i)]]
           S == {i \in DOMAIN given : given[i].qty > 0}
<1>1. s \in Seq(Line) /\ n \in Nat /\ DOMAIN s = 1..n
  BY MovingIn
<1>2. Trimmed(row) = Chosen(given, S)
  BY DEF Trimmed, Where, Chosen
<1>3. ASSUME NEW i \in 1..n PROVE s[i] \in Line /\ Given(row, i) \in Int
  <2>1. s[i] \in Line /\ s[i].item \in Item /\ s[i].qty \in Nat
    <3>1. s[i] \in Line
      BY <1>1
    <3> QED
      BY <3>1 DEF Line
  <2>2. balance[<<s[i].item, row.src>>] \in Int
    BY <2>1, LocatorAssumption DEF Live
  <2>3. SubSeq(s, 1, i - 1) \in Seq(Line)
    BY <1>1
  <2>4. QtyOf(SubSeq(s, 1, i - 1), s[i].item) \in Nat
    BY <2>3, LinesCarry, QtyParts
  <2> HIDE DEF s
  <2>5. Given(row, i) = Larger(Smaller(s[i].qty,
            Larger(balance[<<s[i].item, row.src>>], 0) - QtyOf(SubSeq(s, 1, i - 1), s[i].item)), 0)
    BY DEF Given, s
  <2> QED
    BY <2>1, <2>2, <2>4, <2>5 DEF Larger, Smaller
<1> HIDE DEF s, n
<1>4. ASSUME NEW i \in S PROVE given[i] \in Line
  <2>1. i \in 1..n /\ s[i] \in Line /\ Given(row, i) \in Int
    BY <1>1, <1>3
  <2>2. given[i] = [s[i] EXCEPT !.qty = Given(row, i)] /\ given[i].qty > 0
    BY <1>1
  <2> QED
    BY <2>1, <2>2 DEF Line
<1>5. Len(given) \in Nat /\ DOMAIN given = 1..Len(given)
  <2>1. given = [i \in 1..n |-> [s[i] EXCEPT !.qty = Given(row, i)]]
    BY <1>1
  <2> HIDE DEF given
  <2> QED
    BY <1>1, <2>1
<1> HIDE DEF given
<1> QED
  BY <1>2, <1>4, <1>5, ChosenIn

(* The plan of a revision: what goes back and what comes more, in pairs.    *)
LEMMA RevisionPlanPaired ==
  ASSUME NEW row, Live(row), NEW r \in Revision
  PROVE  RevisionPlan(row, r) \in Seq(Posting) /\ Paired(RevisionPlan(row, r))
<1> DEFINE old == Merged(Moving(row))
           new == Merged(r.lines)
           diff == Differences(old, new)
           M == {i \in DOMAIN diff : diff[i].qty > 0}
           Below == {i \in DOMAIN diff : diff[i].qty < 0}
           more == Chosen(diff, M)
           less == Chosen(diff, Below)
           back == [i \in DOMAIN less |-> [less[i] EXCEPT !.qty = -@]]
           Diff == [item : Item, qty : Int]
           Less == {x \in Diff : x.qty < 0}
<1>1. r.lines \in Seq(AskedLine) /\ r.src \in Place /\ r.dst \in Place
  BY AskedAssumption DEF AskedRow
<1>2. old \in Seq(AskedLine) /\ new \in Seq(AskedLine) /\ Carries(old) /\ Carries(new)
  BY <1>1, MovingIn, MergedIn, LinesCarry
<1>3. diff \in Seq(Diff)
  <2> HIDE DEF old, new
  <2> QED
    BY <1>2, DifferencesIn
<1>4. RevisionPlan(row, r) =
         IF row.src = r.src /\ row.dst = r.dst
         THEN Moves(back, row.dst, row.src) \o Moves(more, row.src, row.dst)
         ELSE Moves(old, row.dst, row.src) \o Moves(new, r.src, r.dst)
  BY DEF RevisionPlan, Where, Chosen
<1> HIDE DEF old, new, diff
<1>5. Len(diff) \in Nat /\ DOMAIN diff = 1..Len(diff) /\ \A i \in DOMAIN diff : diff[i] \in Diff
  <2> HIDE DEF Diff
  <2> QED
    BY <1>3
<1>6. Carries(more)
  <2>1. \A i \in M : diff[i] \in AskedLine
    BY <1>5 DEF AskedLine
  <2>2. M \in SUBSET (DOMAIN diff)
    OBVIOUS
  <2> HIDE DEF M
  <2> QED
    BY <1>5, <2>1, <2>2, ChosenIn, LinesCarry
<1>7. Carries(back)
  <2>1. \A i \in Below : diff[i] \in Less
    BY <1>5
  <2>2. Below \in SUBSET (DOMAIN diff)
    OBVIOUS
  <2>3. less \in Seq(Less)
    <3> HIDE DEF Below, Less
    <3> QED
      BY <1>5, <2>1, <2>2, ChosenIn
  <2> HIDE DEF less
  <2>4. Len(less) \in Nat /\ DOMAIN less = 1..Len(less) /\ \A i \in 1..Len(less) : less[i] \in Less
    <3> HIDE DEF Less
    <3> QED
      BY <2>3
  <2>5. back \in [1..Len(less) -> AskedLine]
    BY <2>4 DEF AskedLine
  <2>6. back \in Seq(AskedLine)
    <3> HIDE DEF back
    <3> QED
      BY <2>4, <2>5
  <2> QED
    BY <2>6, LinesCarry
<1> HIDE DEF more, back
<1>8. row.src \in Place /\ row.dst \in Place
  BY DEF Live
<1>9. /\ Moves(back, row.dst, row.src) \in Seq(Posting) /\ Paired(Moves(back, row.dst, row.src))
      /\ Moves(more, row.src, row.dst) \in Seq(Posting) /\ Paired(Moves(more, row.src, row.dst))
  BY <1>6, <1>7, <1>8, MovesPaired
<1>10. /\ Moves(old, row.dst, row.src) \in Seq(Posting) /\ Paired(Moves(old, row.dst, row.src))
       /\ Moves(new, r.src, r.dst) \in Seq(Posting) /\ Paired(Moves(new, r.src, r.dst))
  BY <1>1, <1>2, <1>8, MovesPaired
<1>11. ASSUME NEW u \in Seq(Posting), NEW v \in Seq(Posting) PROVE u \o v \in Seq(Posting)
  OBVIOUS
<1> QED
  BY <1>4, <1>9, <1>10, <1>11, PairedJoin
-----------------------------------------------------------------------------
(* What movements add up to over the places of an item.                     *)
ItemSum(f, item) == SumFunctionOnSet(f, {item} \X Place)

LEMMA PlacesOfItem ==
  ASSUME NEW item \in Item
  PROVE  IsFiniteSet({item} \X Place) /\ {item} \X Place \subseteq Locator
<1>1. IsFiniteSet({item})
  BY FS_Singleton
<1>2. IsFiniteSet({item} \X Place)
  BY <1>1, FiniteAssumption, FS_Product
<1> QED
  BY <1>2, LocatorAssumption

LEMMA ItemSumChange ==
  ASSUME NEW f \in [Locator -> Int], NEW g, NEW l \in Locator, NEW v \in Int,
         g[l] = f[l] + v, \A k \in Locator \ {l} : g[k] = f[k],
         NEW item \in Item
  PROVE  /\ ItemSum(f, item) \in Int
         /\ l[1] = item => ItemSum(g, item) = ItemSum(f, item) + v
         /\ l[1] # item => ItemSum(g, item) = ItemSum(f, item)
<1> DEFINE S == {item} \X Place
<1>1. IsFiniteSet(S) /\ S \subseteq Locator
  BY PlacesOfItem
<1>2. l \in S <=> l[1] = item
  BY LocatorAssumption
<1> HIDE DEF S
<1>3. SumFunctionOnSet(f, S) \in Int
  BY <1>1, SumInt
<1>4. CASE l \in S
  <2>1. SumFunctionOnSet(g, S) = SumFunctionOnSet(f, S) + g[l] - f[l]
    <3>1. (\A y \in S : f[y] \in Int) /\ g[l] \in Int /\ \A y \in S \ {l} : g[y] = f[y]
      BY <1>1
    <3> QED
      BY <1>1, <1>4, <3>1, SumChange
  <2>2. g[l] = f[l] + v /\ f[l] \in Int
    OBVIOUS
  <2>3. SumFunctionOnSet(g, S) = SumFunctionOnSet(f, S) + v
    BY <1>3, <2>1, <2>2
  <2> QED
    BY <1>2, <1>3, <1>4, <2>3 DEF ItemSum, S
<1>5. CASE l \notin S
  <2>1. \A y \in S : g[y] = f[y]
    BY <1>1, <1>5
  <2>2. SumFunctionOnSet(g, S) = SumFunctionOnSet(f, S)
    BY <1>1, <2>1, SumSame
  <2> QED
    BY <1>2, <1>3, <1>5, <2>2 DEF ItemSum, S
<1> QED
  BY <1>4, <1>5

LEMMA ItemSumPlus ==
  ASSUME NEW f \in [Locator -> Int], NEW g \in [Locator -> Int], NEW h,
         \A l \in Locator : h[l] = f[l] + g[l], NEW item \in Item
  PROVE  ItemSum(h, item) = ItemSum(f, item) + ItemSum(g, item)
<1>1. IsFiniteSet({item} \X Place)
      /\ \A l \in {item} \X Place : f[l] \in Int /\ g[l] \in Int /\ h[l] = f[l] + g[l]
  BY PlacesOfItem
<1> QED
  BY <1>1, SumPlus DEF ItemSum

LEMMA ItemSumNone ==
  ASSUME NEW item \in Item
  PROVE  ItemSum(NoDelta, item) = 0
<1>1. NoDelta \in [Locator -> Int] /\ \A l \in Locator : NoDelta[l] = NoDelta[l] + NoDelta[l]
  BY DEF NoDelta
<1>2. IsFiniteSet({item} \X Place) /\ \A l \in {item} \X Place : NoDelta[l] \in Int
  BY <1>1, PlacesOfItem
<1>3. ItemSum(NoDelta, item) \in Int
  BY <1>2, SumInt DEF ItemSum
<1>4. ItemSum(NoDelta, item) = ItemSum(NoDelta, item) + ItemSum(NoDelta, item)
  BY <1>1, ItemSumPlus
<1>5. \A n \in Int : n = n + n => n = 0
  OBVIOUS
<1> QED
  BY ONLY <1>3, <1>4, <1>5

-----------------------------------------------------------------------------
(* A request posts in pairs: what it has posted adds up to nothing, item by *)
(* item, or it lacks exactly the posting that comes next.                   *)
Even(t) == \A item \in Item : ItemSum(delta[t], item) = 0

Owes(t, c) ==
    \A item \in Item : ItemSum(delta[t], item) = IF c.loc[1] = item THEN -c.qty ELSE 0

Between(t) == Even(t) /\ Paired(todo[t])

Half(t) ==
    /\ todo[t] # <<>> /\ Head(todo[t]).dir = "in"
    /\ Owes(t, Head(todo[t])) /\ Paired(Tail(todo[t]))

Taking(t) ==
    /\ call[t].dir = "out" /\ Even(t)
    /\ todo[t] # <<>> /\ Opposite(call[t], Head(todo[t])) /\ Paired(Tail(todo[t]))

Bringing(t) == call[t].dir = "in" /\ Owes(t, call[t]) /\ Paired(todo[t])

InPairs(t) ==
    /\ pc[t] = "open" => Between(t) \/ Half(t)
    /\ pc[t] \in {"lock", "insert", "post"} => Taking(t) \/ Bringing(t)

ServedInPairs ==
    \A t \in Txn : req[t] # Null /\ req[t].op # "sell" => InPairs(t)

(* What TransferTypeOK says of one transaction.                             *)
RequestOK(t) ==
    /\ (req[t] = Null) <=> (pc[t] = "idle")
    /\ req[t] # Null => /\ req[t].op \in Ops /\ req[t].doc \in Doc \cup {Null}
                       /\ req[t].status \in Status /\ req[t].seen \in Row
                       /\ req[t].ask \in Asks(req[t].op)
    /\ todo[t] \in Seq(Posting)

Requests == ServedInPairs /\ \A t \in Txn : RequestOK(t)

Rows ==
    /\ transfer \in [Doc -> Row]
    /\ \A d \in Doc : Exists(d) => Live(transfer[d])

TInv == TypeOK /\ PInv /\ Rows /\ Requests /\ TransferConserves

(* The requests of the others go on where a step leaves them alone.         *)
Others(t) ==
    \A u \in Txn \ {t} : /\ req'[u] = req[u] /\ todo'[u] = todo[u] /\ pc'[u] = pc[u]
                         /\ call'[u] = call[u] /\ delta'[u] = delta[u]

LEMMA RequestsKept ==
  ASSUME Requests, NEW t \in Txn, Others(t), RequestOK(t)',
         req'[t] # Null /\ req'[t].op # "sell" => InPairs(t)'
  PROVE  Requests'
<1>1. ASSUME NEW u \in Txn \ {t} PROVE RequestOK(u)'
  BY DEF Requests, RequestOK, Others
<1>2. ASSUME NEW u \in Txn \ {t}, req'[u] # Null /\ req'[u].op # "sell" PROVE InPairs(u)'
  <2>1. InPairs(u)
    BY <1>2 DEF Requests, ServedInPairs, Others
  <2> QED
    BY <2>1 DEF Others, InPairs, Between, Half, Taking, Bringing, Even, Owes
<1> QED
  BY <1>1, <1>2 DEF Requests, ServedInPairs

(* A request begins with a plan in pairs.                                   *)
LEMMA ServeRequests ==
  ASSUME TInv, NEW t \in Txn, NEW op, op # "sell", NEW d \in Doc, NEW ask, NEW plan,
         Serve(t, op, d, ask, plan), ask \in Asks(op), plan \in Seq(Posting), Paired(plan)
  PROVE  Requests'
<1> DEFINE r == [op |-> op, doc |-> d, status |-> status[d], seen |-> transfer[d], ask |-> ask]
<1>1. /\ op \in Ops /\ Begin(t) /\ req' = [req EXCEPT ![t] = r]
      /\ todo' = [todo EXCEPT ![t] = plan]
  BY DEF Serve
<1>2. status[d] \in Status /\ transfer[d] \in Row
  BY DEF TInv, Rows, PInv, Shapes
<1>3. r \in Served
  BY <1>1, <1>2 DEF Served
<1>4. r.op = op /\ r.doc = d /\ r.status = status[d] /\ r.seen = transfer[d] /\ r.ask = ask
  OBVIOUS
<1>5. r # Null
  BY <1>3, NullAssumption
<1> HIDE DEF r
<1>6. req'[t] = r /\ todo'[t] = plan /\ pc'[t] = "open" /\ delta'[t] = NoDelta
  BY <1>1 DEF Begin, TInv, TypeOK, PInv, Shapes, Unstarted
<1>7. Others(t)
  BY <1>1 DEF Begin, TInv, TypeOK, PInv, Shapes, Others
<1>8. RequestOK(t)'
  BY <1>1, <1>2, <1>4, <1>5, <1>6 DEF RequestOK
<1>9. InPairs(t)'
  BY <1>6, ItemSumNone DEF InPairs, Between, Even
<1> QED
  BY <1>7, <1>8, <1>9, RequestsKept DEF TInv

(* A sale may post what it likes.                                           *)
LEMMA SaleRequests ==
  ASSUME TInv, NEW t \in Txn, NEW item \in Item, NEW p \in Place, NEW q \in Qty,
         StartSale(t, item, p, q)
  PROVE  Requests'
<1> DEFINE r == [op |-> "sell", doc |-> Null, status |-> "none", seen |-> NoRow, ask |-> <<>>]
           c == [loc |-> <<item, p>>, dir |-> "out", qty |-> q, negative |-> FALSE]
<1>1. "sell" \in Ops /\ Begin(t) /\ req' = [req EXCEPT ![t] = r] /\ todo' = [todo EXCEPT ![t] = <<c>>]
  BY DEF StartSale
<1>2. NoRow \in Row
  BY DEF NoRow, Row
<1>3. <<>> \in Asks("sell")
  BY DEF Asks
<1>4. r \in Served
  BY <1>1, <1>2, <1>3 DEF Served, Status
<1>5. r.op = "sell" /\ r.doc = Null /\ r.status = "none" /\ r.seen = NoRow /\ r.ask = <<>>
  OBVIOUS
<1>6. r # Null
  BY <1>4, NullAssumption
<1>7. <<c>> \in Seq(Posting)
  <2>1. <<item, p>> \in Locator /\ q \in Nat \ {0}
    BY LocatorAssumption, QtyAssumption
  <2>2. c \in Posting
    BY <2>1 DEF Posting
  <2> HIDE DEF c
  <2> QED
    BY <2>2
<1> HIDE DEF r, c
<1>8. req'[t] = r /\ todo'[t] = <<c>> /\ pc'[t] = "open"
  BY <1>1 DEF Begin, TInv, TypeOK, PInv, Shapes
<1>9. Others(t)
  BY <1>1 DEF Begin, TInv, TypeOK, PInv, Shapes, Others
<1>10. RequestOK(t)'
  BY <1>1, <1>2, <1>3, <1>5, <1>6, <1>7, <1>8 DEF RequestOK, Status
<1> QED
  BY <1>5, <1>8, <1>9, <1>10, RequestsKept DEF TInv

(* The next posting is called: the first of a pair, or the second.          *)
LEMMA PostRequests ==
  ASSUME TInv, NEW t \in Txn, PostNext(t)
  PROVE  Requests'
<1> DEFINE c == Head(todo[t])
<1>1. /\ todo[t] # <<>> /\ c \in Call /\ pc[t] = "open" /\ pc'[t] = "lock"
      /\ call'[t] = c /\ todo'[t] = Tail(todo[t]) /\ req' = req /\ delta' = delta
  BY DEF PostNext, Request, TInv, TypeOK, PInv, Shapes
<1>2. Others(t)
  BY DEF PostNext, Request, TInv, TypeOK, PInv, Shapes, Others
<1>3. RequestOK(t) /\ todo[t] \in Seq(Posting)
  BY DEF TInv, Requests, RequestOK
<1>4. Tail(todo[t]) \in Seq(Posting)
  BY <1>1, <1>3, TailParts
<1>5. RequestOK(t)'
  BY <1>1, <1>3, <1>4 DEF RequestOK
<1>6. ASSUME req[t] # Null /\ req[t].op # "sell" PROVE InPairs(t)'
  <2>1. Between(t) \/ Half(t)
    BY <1>1, <1>6 DEF TInv, Requests, ServedInPairs, InPairs
  <2>2. CASE Between(t)
    <3>1. Tail(todo[t]) # <<>> /\ Opposite(c, Head(Tail(todo[t]))) /\ Paired(Tail(Tail(todo[t])))
      BY <1>1, <1>3, <2>2, PairedParts DEF Between
    <3>2. Taking(t)'
      BY <1>1, <2>2, <3>1 DEF Taking, Between, Even, Opposite
    <3> QED
      BY <1>1, <3>2 DEF InPairs
  <2>3. CASE Half(t)
    <3>1. Bringing(t)'
      BY <1>1, <2>3 DEF Bringing, Half, Owes
    <3> QED
      BY <1>1, <3>1 DEF InPairs
  <2> QED
    BY <2>1, <2>2, <2>3
<1> QED
  BY <1>1, <1>2, <1>5, <1>6, RequestsKept DEF TInv

(* The movement is inserted: the request owes its counterpart, or is even.  *)
LEMMA LedgerRequests ==
  ASSUME TInv, NEW t \in Txn, LedgerStep(t)
  PROVE  Requests'
<1>1. RequestOK(t) /\ req' = req /\ todo' = todo
  BY DEF LedgerStep, TInv, Requests
<1>2. CASE InsertMovement(t)
  <2> DEFINE c == call[t]
  <2>1. /\ pc[t] = "post" /\ pc'[t] = "open" /\ c \in Call
        /\ delta'[t] = [delta[t] EXCEPT ![c.loc] = @ + Signed(c)]
    BY <1>2 DEF InsertMovement, TInv, TypeOK
  <2>2. Others(t)
    BY <1>1, <1>2 DEF InsertMovement, TInv, TypeOK, Others
  <2>3. RequestOK(t)'
    BY <1>1, <2>1 DEF RequestOK
  <2>4. ASSUME req[t] # Null /\ req[t].op # "sell" PROVE InPairs(t)'
    <3>1. Taking(t) \/ Bringing(t)
      BY <2>1, <2>4 DEF TInv, Requests, ServedInPairs, InPairs
    <3>2. delta[t] \in [Locator -> Int] /\ c.loc \in Locator /\ c.qty \in Nat /\ Signed(c) \in Int
      BY <2>1, CallParts DEF TInv, TypeOK
    <3>3. /\ delta'[t][c.loc] = delta[t][c.loc] + Signed(c)
          /\ \A k \in Locator \ {c.loc} : delta'[t][k] = delta[t][k]
      BY <2>1, <3>2
    <3>4. ASSUME NEW item \in Item
          PROVE  /\ ItemSum(delta[t], item) \in Int
                 /\ c.loc[1] = item =>
                       ItemSum(delta'[t], item) = ItemSum(delta[t], item) + Signed(c)
                 /\ c.loc[1] # item => ItemSum(delta'[t], item) = ItemSum(delta[t], item)
      <4> DEFINE f == delta[t]
                 g == delta'[t]
                 l == c.loc
                 v == Signed(c)
      <4>1. /\ f \in [Locator -> Int] /\ l \in Locator /\ v \in Int
            /\ g[l] = f[l] + v /\ \A k \in Locator \ {l} : g[k] = f[k]
        BY <3>2, <3>3
      <4> HIDE DEF f, g, l, v
      <4>2. /\ ItemSum(f, item) \in Int
            /\ l[1] = item => ItemSum(g, item) = ItemSum(f, item) + v
            /\ l[1] # item => ItemSum(g, item) = ItemSum(f, item)
        BY <4>1, ItemSumChange
      <4> QED
        BY <4>2 DEF f, g, l, v
    <3>5. CASE Taking(t)
      <4>1. /\ c.dir = "out" /\ Even(t) /\ todo[t] # <<>>
            /\ Opposite(c, Head(todo[t])) /\ Paired(Tail(todo[t]))
        BY <3>5 DEF Taking
      <4> HIDE DEF c
      <4>2. ASSUME NEW item \in Item
            PROVE  ItemSum(delta'[t], item)
                     = IF Head(todo[t]).loc[1] = item THEN -Head(todo[t]).qty ELSE 0
        BY <3>2, <3>4, <4>1 DEF Even, Opposite, Signed
      <4>3. Half(t)'
        BY <1>1, <4>1, <4>2 DEF Half, Owes, Opposite
      <4> QED
        BY <2>1, <4>3 DEF InPairs
    <3>6. CASE Bringing(t)
      <4>1. c.dir = "in" /\ Owes(t, c) /\ Paired(todo[t])
        BY <3>6 DEF Bringing
      <4> HIDE DEF c
      <4>2. ASSUME NEW item \in Item PROVE ItemSum(delta'[t], item) = 0
        BY <3>2, <3>4, <4>1 DEF Owes, Signed
      <4>3. Between(t)'
        BY <1>1, <4>1, <4>2 DEF Between, Even
      <4> QED
        BY <2>1, <4>3 DEF InPairs
    <3> QED
      BY <3>1, <3>5, <3>6
  <2> QED
    BY <1>1, <2>2, <2>3, <2>4, RequestsKept DEF TInv
<1>3. CASE LockLocator(t) \/ MissLocator(t) \/ InsertLocator(t)
  <2>1. /\ pc[t] \in {"lock", "insert", "post"} /\ pc'[t] \in {"lock", "insert", "post"}
        /\ delta' = delta /\ call' = call
    BY <1>3 DEF LockLocator, MissLocator, InsertLocator, TInv, TypeOK
  <2>2. Others(t)
    BY <1>1, <1>3 DEF LockLocator, MissLocator, InsertLocator, TInv, TypeOK, Others
  <2>3. RequestOK(t)'
    BY <1>1, <2>1 DEF RequestOK
  <2>4. ASSUME req[t] # Null /\ req[t].op # "sell" PROVE InPairs(t)'
    <3>1. Taking(t) \/ Bringing(t)
      BY <2>1, <2>4 DEF TInv, Requests, ServedInPairs, InPairs
    <3> QED
      BY <1>1, <2>1, <3>1 DEF InPairs, Taking, Bringing, Even, Owes
  <2> QED
    BY <1>1, <2>2, <2>3, <2>4, RequestsKept DEF TInv
<1> QED
  BY <1>2, <1>3 DEF LedgerStep

(* A request ends.                                                          *)
LEMMA EndRequests ==
  ASSUME TInv, NEW t \in Txn, Release(t), End(t)
  PROVE  Requests'
<1>1. req'[t] = Null /\ todo'[t] = <<>> /\ pc'[t] = "idle"
  BY DEF Release, End, TInv, TypeOK, PInv, Shapes
<1>2. Others(t)
  BY DEF Release, End, TInv, TypeOK, PInv, Shapes, Others
<1>3. RequestOK(t)'
  BY <1>1 DEF RequestOK
<1> QED
  BY <1>1, <1>2, <1>3, RequestsKept DEF TInv
-----------------------------------------------------------------------------
(* The request of each kind begins: what it was asked is of its kind, and   *)
(* its plan is in pairs.                                                    *)
LEMMA NoPlan == <<>> \in Seq(Posting) /\ Paired(<<>>)
<1>1. Len(<<>>) = 2 * 0 /\ \A i \in 1..0 : Opposite(<<>>[2 * i - 1], <<>>[2 * i])
  OBVIOUS
<1> QED
  BY <1>1 DEF Paired

LEMMA StartRequests ==
  ASSUME TInv, NEW t \in Txn, NEW d \in Doc, Start(t, d)
  PROVE  Requests'
<1>1. status[d] \in {"pending", "approved"} => Live(transfer[d])
  BY DEF TInv, Rows, Exists
<1>2. balance \in [Locator -> Int]
  BY DEF TInv, TypeOK
<1>3. CASE StartApprove(t, d)
  <2>1. Live(transfer[d]) /\ transfer[d].src \in Place /\ transfer[d].dst \in Place
    BY <1>1, <1>3 DEF StartApprove, Live
  <2>2. Moving(transfer[d]) \in Asks("approve") /\ Carries(Moving(transfer[d]))
    BY <2>1, MovingIn DEF Asks
  <2> DEFINE plan == Moves(Moving(transfer[d]), transfer[d].src, transfer[d].dst)
  <2>3. plan \in Seq(Posting) /\ Paired(plan)
    BY <2>1, <2>2, MovesPaired
  <2>4. Serve(t, "approve", d, Moving(transfer[d]), plan)
    BY <1>3 DEF StartApprove
  <2> HIDE DEF plan
  <2> QED
    BY <2>2, <2>3, <2>4, ServeRequests
<1>4. CASE StartAutoApprove(t, d)
  <2>1. Live(transfer[d]) /\ transfer[d].src \in Place /\ transfer[d].dst \in Place
    BY <1>1, <1>4 DEF StartAutoApprove, Live
  <2>2. Trimmed(transfer[d]) \in Seq(Line) /\ Trimmed(transfer[d]) # <<>>
    BY <1>2, <1>4, <2>1, TrimmedIn DEF StartAutoApprove
  <2>3. Trimmed(transfer[d]) \in Asks("auto") /\ Carries(Trimmed(transfer[d]))
    BY <2>2, LinesCarry DEF Asks
  <2> DEFINE plan == Moves(Trimmed(transfer[d]), transfer[d].src, transfer[d].dst)
  <2>4. plan \in Seq(Posting) /\ Paired(plan)
    BY <2>1, <2>3, MovesPaired
  <2>5. Serve(t, "auto", d, Trimmed(transfer[d]), plan)
    BY <1>4 DEF StartAutoApprove
  <2> HIDE DEF plan
  <2> QED
    BY <2>3, <2>4, <2>5, ServeRequests
<1>5. CASE StartCancel(t, d) \/ StartDelete(t, d) \/ StartReject(t, d)
  <2>1. PICK op \in {"cancel", "delete", "reject"} : Serve(t, op, d, <<>>, <<>>)
    BY <1>5 DEF StartCancel, StartDelete, StartReject
  <2>2. <<>> \in Asks(op)
    BY DEF Asks
  <2> QED
    BY <2>1, <2>2, NoPlan, ServeRequests
<1>6. ASSUME NEW r \in Revision, StartRevise(t, d, r) PROVE Requests'
  <2>1. Live(transfer[d])
    BY <1>1, <1>6 DEF StartRevise
  <2>2. Serve(t, "revise", d, r, RevisionPlan(transfer[d], r))
    BY <1>6 DEF StartRevise
  <2>3. r \in Asks("revise")
    BY DEF Asks
  <2> QED
    BY <2>1, <2>2, <2>3, RevisionPlanPaired, ServeRequests
<1>7. ASSUME NEW line \in Edit, StartAddLine(t, d, line) PROVE Requests'
  <2>1. Serve(t, "add_line", d, line, <<>>) /\ line \in Asks("add_line")
    BY <1>7 DEF StartAddLine, Asks
  <2> QED
    BY <2>1, NoPlan, ServeRequests
<1>8. ASSUME NEW id \in LineIds(transfer[d].lines)
      PROVE  /\ StartRemoveLine(t, d, id) => Requests'
             /\ \A line \in Edit : StartSetLine(t, d, id, line) => Requests'
  <2>1. id \in Nat
    <3>1. transfer[d].lines \in Seq(Line)
      BY DEF TInv, Rows, Row
    <3>2. \A i \in DOMAIN transfer[d].lines : transfer[d].lines[i] \in Line
      BY <3>1
    <3> QED
      BY <3>2 DEF LineIds, Line
  <2>2. ASSUME StartRemoveLine(t, d, id) PROVE Requests'
    <3>1. Serve(t, "remove_line", d, [id |-> id], <<>>) /\ [id |-> id] \in Asks("remove_line")
      BY <2>1, <2>2 DEF StartRemoveLine, Asks
    <3> QED
      BY <3>1, NoPlan, ServeRequests
  <2>3. ASSUME NEW line \in Edit, StartSetLine(t, d, id, line) PROVE Requests'
    <3>1. line.qty \in Nat \ {0}
      BY AskedAssumption DEF AskedLine
    <3>2. Serve(t, "set_line", d, [id |-> id, qty |-> line.qty], <<>>)
          /\ [id |-> id, qty |-> line.qty] \in Asks("set_line")
      BY <2>1, <2>3, <3>1 DEF StartSetLine, Asks
    <3> QED
      BY <3>2, NoPlan, ServeRequests
  <2> QED
    BY <2>2, <2>3
<1> QED
  BY <1>3, <1>4, <1>5, <1>6, <1>7, <1>8 DEF Start

-----------------------------------------------------------------------------
(* A request that commits had nothing left to post, so what it posted adds  *)
(* up to nothing; the transfer it writes still conserves.                   *)
LEMMA WriteConserves ==
  ASSUME TInv, NEW t \in Txn, NEW op, op # "sell", Ready(t, op), NEW st, NEW row,
         Write(t, st, row)
  PROVE  TransferConserves'
<1>1. /\ req[t] # Null /\ req[t].op # "sell" /\ todo[t] = <<>> /\ pc[t] = "open"
      /\ moved' = [moved EXCEPT ![req[t].doc] = [l \in Locator |-> @[l] + delta[t][l]]]
  BY DEF Ready, Write, Commit
<1>2. Even(t)
  BY <1>1 DEF TInv, Requests, ServedInPairs, InPairs, Between, Half
<1>3. req[t].doc \in Doc /\ moved \in [Doc -> [Locator -> Int]] /\ delta[t] \in [Locator -> Int]
  BY <1>1 DEF TInv, PInv, Shapes, AboutTransfers, TypeOK
<1>4. ASSUME NEW d \in Doc, NEW item \in Item PROVE ItemSum(moved'[d], item) = 0
  <2>1. ItemSum(moved[d], item) = 0 /\ ItemSum(delta[t], item) = 0
    BY <1>2 DEF TInv, TransferConserves, Even, ItemSum
  <2>2. CASE d # req[t].doc
    BY <1>1, <1>3, <2>1, <2>2
  <2>3. CASE d = req[t].doc
    <3>1. /\ moved[d] \in [Locator -> Int]
          /\ \A l \in Locator : moved'[d][l] = moved[d][l] + delta[t][l]
      BY <1>1, <1>3, <2>3
    <3>2. ItemSum(moved'[d], item) = ItemSum(moved[d], item) + ItemSum(delta[t], item)
      BY ZenonT(40), <1>3, <3>1, ItemSumPlus
    <3> QED
      BY <2>1, <3>2
  <2> QED
    BY <2>2, <2>3
<1> QED
  BY <1>4 DEF TransferConserves, ItemSum

LEMMA DropConserves ==
  ASSUME TInv, NEW t \in Txn, NEW st, NEW row, DropMovements(t, st, row)
  PROVE  TransferConserves'
<1>1. moved' = [moved EXCEPT ![req[t].doc] = NoDelta] /\ moved \in [Doc -> [Locator -> Int]]
  BY DEF DropMovements, TInv, PInv, Shapes
<1>2. ASSUME NEW d \in Doc, NEW item \in Item PROVE ItemSum(moved'[d], item) = 0
  <2>1. ItemSum(moved[d], item) = 0
    BY DEF TInv, TransferConserves, ItemSum
  <2>2. moved'[d] = moved[d] \/ moved'[d] = NoDelta
    BY <1>1
  <2> QED
    BY <2>1, <2>2, ItemSumNone
<1> QED
  BY <1>2 DEF TransferConserves, ItemSum

(* A row is written for the document of the request.                        *)
LEMMA RowWritten ==
  ASSUME TInv, NEW d \in Doc, NEW st, NEW row \in Row,
         st \notin {"none", "deleted"} => Live(row),
         status' = [status EXCEPT ![d] = st],
         transfer' = [transfer EXCEPT ![d] = row]
  PROVE  Rows'
<1>1. transfer' \in [Doc -> Row]
  BY DEF TInv, Rows
<1>2. ASSUME NEW e \in Doc, Exists(e)' PROVE Live(transfer'[e])
  <2>1. CASE e = d
    BY <1>2, <2>1 DEF Exists, TInv, Rows, PInv, Shapes
  <2>2. CASE e # d
    BY <1>2, <2>2 DEF Exists, TInv, Rows, PInv, Shapes
  <2> QED
    BY <2>1, <2>2
<1> QED
  BY <1>1, <1>2 DEF Rows
(* Lines of a row that are written: numbered, or chosen from those there.   *)
LEMMA NumberedIn ==
  ASSUME NEW s \in Seq(AskedLine), NEW from \in Nat
  PROVE  Numbered(s, from) \in Seq(Line) /\ Len(Numbered(s, from)) = Len(s)
<1>1. Len(s) \in Nat /\ DOMAIN s = 1..Len(s) /\ \A i \in 1..Len(s) : s[i] \in AskedLine
  OBVIOUS
<1>2. Numbered(s, from) = [i \in 1..Len(s) |-> [id |-> from + i - 1, item |-> s[i].item, qty |-> s[i].qty]]
  BY <1>1 DEF Numbered
<1>3. ASSUME NEW i \in 1..Len(s)
      PROVE  [id |-> from + i - 1, item |-> s[i].item, qty |-> s[i].qty] \in Line
  BY <1>1 DEF AskedLine, Line
<1>4. Numbered(s, from) \in [1..Len(s) -> Line]
  BY <1>2, <1>3
<1> QED
  BY <1>1, <1>4

(* The columns of a row, and of one some columns of which are replaced.     *)
LEMMA RowParts ==
  /\ \A row \in Row : /\ row.src \in Place \cup {Null} /\ row.dst \in Place \cup {Null}
                      /\ row.head \in Line \cup {Null} /\ row.lines \in Seq(Line)
                      /\ row.nextId \in Nat
  /\ \A src \in Place \cup {Null}, dst \in Place \cup {Null}, head \in Line \cup {Null},
        lines \in Seq(Line), n \in Nat :
        [src |-> src, dst |-> dst, head |-> head, lines |-> lines, nextId |-> n] \in Row
  /\ \A row \in Row :
        row = [src |-> row.src, dst |-> row.dst, head |-> row.head, lines |-> row.lines,
               nextId |-> row.nextId]
<1> DEFINE Lines == Line \cup {Null}
           P == Place \cup {Null}
           S == Seq(Line)
<1>1. Row = [src : P, dst : P, head : Lines, lines : S, nextId : Nat]
  BY DEF Row
<1> HIDE DEF Lines, P, S
<1>2. /\ \A row \in Row : /\ row.src \in P /\ row.dst \in P /\ row.head \in Lines
                          /\ row.lines \in S /\ row.nextId \in Nat
      /\ \A src \in P, dst \in P, head \in Lines, lines \in S, n \in Nat :
            [src |-> src, dst |-> dst, head |-> head, lines |-> lines, nextId |-> n] \in Row
      /\ \A row \in Row :
            row = [src |-> row.src, dst |-> row.dst, head |-> row.head, lines |-> row.lines,
                   nextId |-> row.nextId]
  BY <1>1
<1> QED
  BY <1>2 DEF Lines, P, S

LEMMA RowWithLines ==
  ASSUME NEW row \in Row, NEW lines \in Seq(Line)
  PROVE  /\ [row EXCEPT !.lines = lines] \in Row
         /\ Live(row) => Live([row EXCEPT !.lines = lines])
<1> DEFINE w == [row EXCEPT !.lines = lines]
           v == [src |-> row.src, dst |-> row.dst, head |-> row.head, lines |-> lines,
                 nextId |-> row.nextId]
<1>1. w = v
  BY RowParts
<1>2. v \in Row
  BY RowParts
<1>3. v.src = row.src /\ v.dst = row.dst /\ v.head = row.head
  OBVIOUS
<1> HIDE DEF v
<1> QED
  BY <1>1, <1>2, <1>3 DEF Live

LEMMA RowWithHead ==
  ASSUME NEW row \in Row, NEW head \in Line, NEW lines \in Seq(Line)
  PROVE  /\ [row EXCEPT !.head = head, !.lines = lines] \in Row
         /\ Live(row) => Live([row EXCEPT !.head = head, !.lines = lines])
<1> DEFINE w == [row EXCEPT !.head = head, !.lines = lines]
           v == [src |-> row.src, dst |-> row.dst, head |-> head, lines |-> lines,
                 nextId |-> row.nextId]
<1>1. w = v
  BY RowParts
<1>2. v \in Row
  BY RowParts
<1>3. v.src = row.src /\ v.dst = row.dst /\ v.head = head
  OBVIOUS
<1> HIDE DEF v
<1> QED
  BY <1>1, <1>2, <1>3 DEF Live

LEMMA RowWithMore ==
  ASSUME NEW row \in Row, NEW lines \in Seq(Line), NEW n \in Nat
  PROVE  /\ [row EXCEPT !.lines = lines, !.nextId = n] \in Row
         /\ Live(row) => Live([row EXCEPT !.lines = lines, !.nextId = n])
<1> DEFINE w == [row EXCEPT !.lines = lines, !.nextId = n]
           v == [src |-> row.src, dst |-> row.dst, head |-> row.head, lines |-> lines,
                 nextId |-> n]
<1>1. w = v
  BY RowParts
<1>2. v \in Row
  BY RowParts
<1>3. v.src = row.src /\ v.dst = row.dst /\ v.head = row.head
  OBVIOUS
<1> HIDE DEF v
<1> QED
  BY <1>1, <1>2, <1>3 DEF Live

LEMMA RowRewritten ==
  ASSUME NEW row \in Row, NEW src \in Place, NEW dst \in Place, NEW head \in Line,
         NEW lines \in Seq(Line), NEW n \in Nat
  PROVE  Live([row EXCEPT !.src = src, !.dst = dst, !.head = head, !.lines = lines,
                          !.nextId = n])
<1> DEFINE w == [row EXCEPT !.src = src, !.dst = dst, !.head = head, !.lines = lines,
                            !.nextId = n]
           Lines == Line \cup {Null}
           P == Place \cup {Null}
           S == Seq(Line)
<1>1. Row = [src : P, dst : P, head : Lines, lines : S, nextId : Nat]
  BY DEF Row
<1>2. src \in P /\ dst \in P /\ head \in Lines /\ lines \in S
  OBVIOUS
<1> HIDE DEF P, Lines, S
<1>3. w \in [src : P, dst : P, head : Lines, lines : S, nextId : Nat]
  BY <1>1, <1>2
<1>4. w.src = src /\ w.dst = dst /\ w.head = head
  BY <1>1
<1> HIDE DEF w
<1>5. Live(w)
  BY <1>1, <1>3, <1>4 DEF Live
<1> QED
  BY <1>5 DEF w

(* The request commits: the rows, its own end, and what it moved.           *)
LEMMA WriteInv ==
  ASSUME TInv, NEW t \in Txn, NEW op, op # "sell", Ready(t, op), NEW st, NEW row \in Row,
         st \notin {"none", "deleted"} => Live(row), Write(t, st, row)
  PROVE  Rows' /\ Requests' /\ TransferConserves'
<1>1. req[t].doc \in Doc
  BY DEF Ready, TInv, PInv, AboutTransfers
<1>2. /\ Release(t) /\ End(t)
      /\ status' = [status EXCEPT ![req[t].doc] = st]
      /\ transfer' = [transfer EXCEPT ![req[t].doc] = row]
  BY DEF Write, Commit
<1>3. Rows'
  BY <1>1, <1>2, RowWritten
<1> QED
  BY <1>2, <1>3, EndRequests, WriteConserves

LEMMA DropInv ==
  ASSUME TInv, NEW t \in Txn, NEW op, op # "sell", Ready(t, op), NEW st, NEW row \in Row,
         st \notin {"none", "deleted"} => Live(row), DropMovements(t, st, row)
  PROVE  Rows' /\ Requests' /\ TransferConserves'
<1>1. req[t].doc \in Doc
  BY DEF Ready, TInv, PInv, AboutTransfers
<1>2. /\ Release(t) /\ End(t)
      /\ status' = [status EXCEPT ![req[t].doc] = st]
      /\ transfer' = [transfer EXCEPT ![req[t].doc] = row]
  BY DEF DropMovements
<1>3. Rows'
  BY <1>1, <1>2, RowWritten
<1> QED
  BY <1>2, <1>3, EndRequests, DropConserves
(* What a request has read and its document, whenever the document exists.  *)
LEMMA ReadyParts ==
  ASSUME TInv, NEW t \in Txn, NEW op \in Ops, op # "sell", Ready(t, op)
  PROVE  /\ req[t].doc \in Doc /\ req[t].seen \in Row /\ req[t].ask \in Asks(op)
         /\ transfer[req[t].doc] \in Row
         /\ status[req[t].doc] \notin {"none", "deleted"} => Live(transfer[req[t].doc])
         /\ transfer[req[t].doc].lines \in Seq(Line) /\ transfer[req[t].doc].nextId \in Nat
<1>1. req[t].doc \in Doc
  BY DEF Ready, TInv, PInv, AboutTransfers
<1>2. req[t].seen \in Row /\ req[t].ask \in Asks(op)
  BY DEF Ready, TInv, Requests, RequestOK
<1>3. transfer[req[t].doc] \in Row /\ (Exists(req[t].doc) => Live(transfer[req[t].doc]))
  BY <1>1 DEF TInv, Rows
<1> QED
  BY <1>1, <1>2, <1>3, RowParts DEF Exists

(* The requests that leave the row as it is, or drop it.                    *)
LEMMA FinishPlain ==
  ASSUME TInv, NEW t \in Txn,
         FinishApprove(t) \/ FinishCancel(t) \/ FinishDelete(t) \/ FinishReject(t)
  PROVE  Rows' /\ Requests' /\ TransferConserves'
<1> DEFINE d == req[t].doc
<1>1. NoRow \in Row
  BY DEF NoRow, Row
<1>2. ASSUME NEW op, op \in {"approve", "cancel", "delete", "reject"}, Ready(t, op), RowsAlive(t)
      PROVE  op \in Ops /\ Live(transfer[d]) /\ transfer[d] \in Row
  <2>1. op \in Ops
    BY <1>2 DEF Ready, TInv, Requests, RequestOK
  <2> QED
    BY <1>2, <2>1, ReadyParts DEF RowsAlive, Exists
<1>3. CASE FinishApprove(t)
  <2>1. Ready(t, "approve") /\ RowsAlive(t) /\ Write(t, "approved", transfer[d])
    BY <1>3 DEF FinishApprove
  <2>2. Live(transfer[d]) /\ transfer[d] \in Row
    BY <1>2, <2>1
  <2> HIDE DEF d
  <2> QED
    BY <2>1, <2>2, WriteInv
<1>4. CASE FinishCancel(t)
  <2>1. Ready(t, "cancel") /\ RowsAlive(t) /\ DropMovements(t, "reversed", transfer[d])
    BY <1>4 DEF FinishCancel
  <2>2. Live(transfer[d]) /\ transfer[d] \in Row
    BY <1>2, <2>1
  <2> HIDE DEF d
  <2> QED
    BY <2>1, <2>2, DropInv
<1>5. CASE FinishDelete(t)
  <2>1. Ready(t, "delete") /\ (DropMovements(t, "deleted", NoRow) \/ Write(t, "deleted", NoRow))
    BY <1>5 DEF FinishDelete
  <2> QED
    BY <1>1, <2>1, WriteInv, DropInv
<1>6. CASE FinishReject(t)
  <2>1. Ready(t, "reject") /\ RowsAlive(t) /\ Write(t, "rejected", transfer[d])
    BY <1>6 DEF FinishReject
  <2>2. Live(transfer[d]) /\ transfer[d] \in Row
    BY <1>2, <2>1
  <2> HIDE DEF d
  <2> QED
    BY <2>1, <2>2, WriteInv
<1> QED
  BY <1>3, <1>4, <1>5, <1>6

(* The lines that remain are lines.                                         *)
LEMMA ChosenLines ==
  ASSUME NEW s \in Seq(Line), NEW S \in SUBSET (DOMAIN s)
  PROVE  Chosen(s, S) \in Seq(Line)
<1>1. Len(s) \in Nat /\ DOMAIN s = 1..Len(s) /\ \A i \in S : s[i] \in Line
  OBVIOUS
<1> QED
  BY <1>1, ChosenIn

(* Lines are added, changed and removed while a transfer is pending.        *)
LEMMA FinishLines ==
  ASSUME TInv, NEW t \in Txn, FinishAddLine(t) \/ FinishSetLine(t) \/ FinishRemoveLine(t)
  PROVE  Rows' /\ Requests' /\ TransferConserves'
<1> DEFINE d == req[t].doc
           row == transfer[d]
           st == status[d]
<1>1. ASSUME NEW op, op \in {"add_line", "set_line", "remove_line"}, Ready(t, op)
      PROVE  /\ req[t].ask \in Asks(op) /\ row \in Row /\ row.lines \in Seq(Line)
             /\ row.nextId \in Nat /\ (st \notin {"none", "deleted"} => Live(row))
  <2>1. op \in Ops
    BY <1>1 DEF Ready, TInv, Requests, RequestOK
  <2> QED
    BY <1>1, <2>1, ReadyParts
<1>2. ASSUME NEW op, op \in {"add_line", "set_line", "remove_line"}, Ready(t, op),
             NEW new \in Row, st \notin {"none", "deleted"} => Live(new), Write(t, st, new)
      PROVE  Rows' /\ Requests' /\ TransferConserves'
  <2> HIDE DEF st
  <2> QED
    BY <1>2, WriteInv
<1> HIDE DEF row, st
<1>3. CASE FinishAddLine(t)
  <2> DEFINE added == Numbered(<<req[t].ask>>, row.nextId)
             s == row.lines \o added
             n == row.nextId + 1
  <2>1. Ready(t, "add_line") /\ Write(t, st, [row EXCEPT !.lines = s, !.nextId = n])
    BY <1>3 DEF FinishAddLine, row, st
  <2>2. /\ req[t].ask \in Edit /\ row \in Row /\ row.lines \in Seq(Line)
        /\ row.nextId \in Nat /\ (st \notin {"none", "deleted"} => Live(row))
    BY <1>1, <2>1 DEF Asks
  <2>3. added \in Seq(Line)
    <3> DEFINE asked == <<req[t].ask>>
    <3>1. asked \in Seq(AskedLine)
      BY <2>2, AskedAssumption
    <3> HIDE DEF asked
    <3>2. Numbered(asked, row.nextId) \in Seq(Line)
      BY <2>2, <3>1, NumberedIn
    <3> QED
      BY <3>2 DEF asked
  <2> HIDE DEF added
  <2>4. s \in Seq(Line) /\ n \in Nat
    BY <2>2, <2>3
  <2> HIDE DEF s, n
  <2>5. /\ [row EXCEPT !.lines = s, !.nextId = n] \in Row
        /\ Live(row) => Live([row EXCEPT !.lines = s, !.nextId = n])
    BY <2>2, <2>4, RowWithMore
  <2> QED
    BY <1>2, <2>1, <2>2, <2>5
<1>4. CASE FinishSetLine(t)
  <2> DEFINE s == [i \in DOMAIN row.lines |->
                      IF row.lines[i].id = req[t].ask.id
                      THEN [row.lines[i] EXCEPT !.qty = req[t].ask.qty] ELSE row.lines[i]]
  <2>1. Ready(t, "set_line") /\ Write(t, st, [row EXCEPT !.lines = s])
    BY <1>4 DEF FinishSetLine, row, st
  <2>2. /\ req[t].ask \in Asks("set_line") /\ row \in Row /\ row.lines \in Seq(Line)
        /\ st \notin {"none", "deleted"} => Live(row)
    BY <1>1, <2>1
  <2>3. req[t].ask.qty \in Nat \ {0}
    BY <2>2 DEF Asks
  <2>4. /\ Len(row.lines) \in Nat /\ DOMAIN row.lines = 1..Len(row.lines)
        /\ \A i \in 1..Len(row.lines) : row.lines[i] \in Line
    BY <2>2
  <2>5. s \in [1..Len(row.lines) -> Line]
    <3>1. ASSUME NEW x \in Line, NEW q \in Nat \ {0} PROVE [x EXCEPT !.qty = q] \in Line
      BY DEF Line
    <3> QED
      BY <2>3, <2>4, <3>1
  <2> HIDE DEF s
  <2>6. s \in Seq(Line)
    BY <2>4, <2>5
  <2>7. [row EXCEPT !.lines = s] \in Row /\ (Live(row) => Live([row EXCEPT !.lines = s]))
    BY <2>2, <2>6, RowWithLines
  <2> QED
    BY <1>2, <2>1, <2>2, <2>7
<1>5. CASE FinishRemoveLine(t)
  <2> DEFINE S == {i \in DOMAIN row.lines : row.lines[i].id # req[t].ask.id}
             s == Chosen(row.lines, S)
  <2>1. Ready(t, "remove_line") /\ Write(t, st, [row EXCEPT !.lines = s])
    BY <1>5 DEF FinishRemoveLine, row, st, Where, Chosen
  <2>2. row \in Row /\ row.lines \in Seq(Line) /\ (st \notin {"none", "deleted"} => Live(row))
    BY <1>1, <2>1
  <2>3. s \in Seq(Line)
    <3>1. S \in SUBSET (DOMAIN row.lines)
      OBVIOUS
    <3> HIDE DEF S
    <3> QED
      BY <2>2, <3>1, ChosenLines
  <2> HIDE DEF s
  <2>4. [row EXCEPT !.lines = s] \in Row /\ (Live(row) => Live([row EXCEPT !.lines = s]))
    BY <2>2, <2>3, RowWithLines
  <2> QED
    BY <1>2, <2>1, <2>2, <2>4
<1> QED
  BY <1>3, <1>4, <1>5

(* An automatic approval cuts the lines down to what it gave.               *)
LEMMA FinishCut ==
  ASSUME TInv, NEW t \in Txn, FinishAutoApprove(t)
  PROVE  Rows' /\ Requests' /\ TransferConserves'
<1> DEFINE d == req[t].doc
           row == transfer[d]
           cut == req[t].ask
           gone == LineIds(req[t].seen.lines) \ LineIds(cut)
           given(line) == IF line.id \in LineIds(cut)
                          THEN cut[CHOOSE i \in DOMAIN cut : cut[i].id = line.id]
                          ELSE line
           all == [i \in DOMAIN row.lines |-> given(row.lines[i])]
           S == {i \in DOMAIN all : all[i].id \notin gone}
           s == Chosen(all, S)
           head == [id |-> 0, item |-> cut[1].item, qty |-> cut[1].qty]
<1>1. Ready(t, "auto") /\ RowsAlive(t) /\ "auto" \in Ops
  BY DEF FinishAutoApprove, Ready, TInv, Requests, RequestOK
<1>2. Write(t, "approved", [row EXCEPT !.head = head, !.lines = s])
  BY DEF FinishAutoApprove, Where, Chosen
<1>3. cut \in Seq(Line) \ {<<>>} /\ row \in Row /\ row.lines \in Seq(Line) /\ Live(row)
  BY <1>1, ReadyParts DEF RowsAlive, Exists, Asks
<1> HIDE DEF cut, row
<1>4. /\ Len(cut) \in Nat /\ Len(cut) > 0 /\ DOMAIN cut = 1..Len(cut)
      /\ \A i \in DOMAIN cut : cut[i] \in Line
  BY <1>3
<1>5. head \in Line
  <2>1. cut[1] \in Line
    BY <1>4
  <2> QED
    BY <2>1 DEF Line
<1>6. /\ Len(row.lines) \in Nat /\ DOMAIN row.lines = 1..Len(row.lines)
      /\ \A i \in 1..Len(row.lines) : row.lines[i] \in Line
  BY <1>3
<1>7. ASSUME NEW line \in Line PROVE given(line) \in Line
  <2>1. CASE line.id \in LineIds(cut)
    <3>1. \E i \in DOMAIN cut : cut[i].id = line.id
      BY <2>1 DEF LineIds
    <3>2. (CHOOSE i \in DOMAIN cut : cut[i].id = line.id) \in DOMAIN cut
      BY <3>1
    <3> QED
      BY <1>4, <2>1, <3>2
  <2>2. CASE line.id \notin LineIds(cut)
    BY <2>2
  <2> QED
    BY <2>1, <2>2
<1> HIDE DEF given, gone, head
<1>8. all \in [1..Len(row.lines) -> Line]
  BY <1>6, <1>7
<1> HIDE DEF all
<1>9. all \in Seq(Line)
  BY <1>6, <1>8
<1>10. s \in Seq(Line)
  <2>1. S \in SUBSET (DOMAIN all)
    OBVIOUS
  <2> HIDE DEF S
  <2> QED
    BY <1>9, <2>1, ChosenLines
<1> HIDE DEF s
<1>11. /\ [row EXCEPT !.head = head, !.lines = s] \in Row
       /\ Live([row EXCEPT !.head = head, !.lines = s])
  BY <1>3, <1>5, <1>10, RowWithHead
<1> QED
  BY <1>1, <1>2, <1>11, WriteInv

(* A revision replaces the lines it read by the merged new ones.            *)
LEMMA FinishRevised ==
  ASSUME TInv, NEW t \in Txn, FinishRevise(t)
  PROVE  Rows' /\ Requests' /\ TransferConserves'
<1> DEFINE d == req[t].doc
           row == transfer[d]
           seen == req[t].seen
           r == req[t].ask
           lines == Merged(r.lines)
           asked == [id |-> 0, item |-> r.lines[1].item, qty |-> QtyOf(r.lines, r.lines[1].item)]
           S == {i \in DOMAIN row.lines : row.lines[i].id \notin LineIds(seen.lines)}
           src == IF r.src = seen.src THEN row.src ELSE r.src
           dst == IF r.dst = seen.dst THEN row.dst ELSE r.dst
           head == IF asked = seen.head THEN row.head ELSE asked
           left == Chosen(row.lines, S)
           added == Numbered(lines, row.nextId)
           s == left \o added
           n == row.nextId + Len(lines)
<1>1. Ready(t, "revise") /\ RowsAlive(t) /\ "revise" \in Ops
  BY DEF FinishRevise, Ready, TInv, Requests, RequestOK
<1>2. Write(t, status[d], [row EXCEPT !.src = src, !.dst = dst, !.head = head, !.lines = s,
                                      !.nextId = n])
  BY DEF FinishRevise, Where, Chosen
<1>3. /\ r \in Revision /\ row \in Row /\ row.lines \in Seq(Line) /\ row.nextId \in Nat
      /\ Live(row)
  BY <1>1, ReadyParts DEF RowsAlive, Exists, Asks
<1> HIDE DEF r, row, seen
<1>4. r.lines \in Seq(AskedLine) /\ r.lines # <<>> /\ r.src \in Place /\ r.dst \in Place
  BY <1>3, AskedAssumption DEF AskedRow
<1>5. src \in Place /\ dst \in Place
  BY <1>3, <1>4 DEF Live
<1>6. head \in Line
  <2>1. /\ Carries(r.lines) /\ 1 \in DOMAIN r.lines /\ r.lines[1] \in AskedLine
    BY <1>4, LinesCarry
  <2>2. QtyOf(r.lines, r.lines[1].item) \in Nat /\ QtyOf(r.lines, r.lines[1].item) > 0
    BY <2>1, QtyParts
  <2>3. asked \in Line
    BY <2>1, <2>2 DEF AskedLine, Line
  <2> QED
    BY <1>3, <2>3 DEF Live
<1>7. lines \in Seq(AskedLine)
  BY <1>4, LinesCarry, MergedIn
<1> HIDE DEF lines, src, dst, head
<1>8. added \in Seq(Line) /\ n \in Nat
  BY <1>3, <1>7, NumberedIn
<1>9. left \in Seq(Line)
  <2>1. S \in SUBSET (DOMAIN row.lines)
    OBVIOUS
  <2> HIDE DEF S
  <2> QED
    BY <1>3, <2>1, ChosenLines
<1> HIDE DEF left, added, n
<1>10. s \in Seq(Line)
  BY <1>8, <1>9
<1> HIDE DEF s
<1> DEFINE new == [row EXCEPT !.src = src, !.dst = dst, !.head = head, !.lines = s,
                              !.nextId = n]
<1>11. Live(new)
  BY <1>3, <1>5, <1>6, <1>8, <1>10, RowRewritten
<1>12. new \in Row
  BY <1>11 DEF Live
<1> HIDE DEF new
<1> QED
  BY <1>1, <1>2, <1>11, <1>12, WriteInv DEF new
(* A transfer is created with its header line, and with lines or without.   *)
LEMMA CreateInv ==
  ASSUME TInv, NEW d \in Doc, NEW draft \in Draft, Create(d, draft)
  PROVE  Rows' /\ Requests' /\ TransferConserves'
<1> DEFINE head == [id |-> 0, item |-> draft.lines[1].item, qty |-> draft.lines[1].qty]
           lines == IF draft.headerOnly THEN <<>> ELSE Numbered(draft.lines, 1)
           n == IF draft.headerOnly THEN 1 ELSE Len(draft.lines) + 1
           row == [src |-> draft.src, dst |-> draft.dst, head |-> head, lines |-> lines,
                   nextId |-> n]
<1>1. /\ status' = [status EXCEPT ![d] = "pending"]
      /\ transfer' = [transfer EXCEPT ![d] = row]
      /\ UNCHANGED <<vars, moved, req, todo>>
  BY DEF Create
<1>2. /\ draft.src \in Place /\ draft.dst \in Place
      /\ draft.lines \in Seq(AskedLine) /\ draft.lines # <<>>
  <2> DEFINE asked == [src |-> draft.src, dst |-> draft.dst, lines |-> draft.lines]
  <2>1. asked \in AskedRow
    BY AskedAssumption
  <2>2. asked.src \in Place /\ asked.dst \in Place /\ asked.lines \in Seq(AskedLine) \ {<<>>}
    <3> HIDE DEF asked
    <3> QED
      BY <2>1 DEF AskedRow
  <2> QED
    BY <2>2
<1>3. head \in Line
  <2>1. draft.lines[1] \in AskedLine
    BY <1>2
  <2> QED
    BY <2>1 DEF AskedLine, Line
<1>4. lines \in Seq(Line) /\ n \in Nat
  <2>1. Numbered(draft.lines, 1) \in Seq(Line) /\ Len(draft.lines) \in Nat
    BY <1>2, NumberedIn
  <2> QED
    BY <2>1
<1> HIDE DEF head, lines, n
<1>5. Live(row)
  <2>1. row \in Row
    BY <1>2, <1>3, <1>4, RowParts
  <2> QED
    BY <1>2, <1>3, <2>1 DEF Live
<1> HIDE DEF row
<1>6. Rows'
  BY <1>1, <1>5, RowWritten DEF Live
<1>7. Requests'
  BY <1>1 DEF TInv, Requests, ServedInPairs, RequestOK, InPairs, Between, Half, Taking,
              Bringing, Even, Owes, vars
<1>8. TransferConserves'
  BY <1>1 DEF TInv, TransferConserves
<1> QED
  BY <1>6, <1>7, <1>8

(* The commit of a sale writes no transfer.                                 *)
LEMMA SaleInv ==
  ASSUME TInv, NEW t \in Txn, FinishSale(t) PROVE Rows' /\ Requests' /\ TransferConserves'
<1>1. Release(t) /\ End(t) /\ UNCHANGED docVars
  BY DEF FinishSale, Commit
<1>2. Rows' /\ TransferConserves'
  BY <1>1 DEF docVars, TInv, Rows, Exists, TransferConserves
<1> QED
  BY <1>1, <1>2, EndRequests

(* The invariant holds at the start, and every step keeps it.               *)
LEMMA TInvInit == TransferInit => TInv
<1> SUFFICES ASSUME TransferInit PROVE TInv
  OBVIOUS
<1>1. TypeOK
  BY OpeningAssumption DEF TransferInit, Init, TypeOK, NoDelta
<1>2. Rows
  <2>1. NoRow \in Row
    BY DEF NoRow, Row
  <2> QED
    BY <2>1 DEF TransferInit, Rows, Exists
<1>3. Requests
  BY DEF TransferInit, Init, Requests, ServedInPairs, RequestOK
<1>4. TransferConserves
  BY ItemSumNone DEF TransferInit, TransferConserves, ItemSum
<1> QED
  BY <1>1, <1>2, <1>3, <1>4, PInit DEF TInv

LEMMA TInvStep == TInv /\ [TransferNext]_transferVars => TInv'
<1> SUFFICES ASSUME TInv, [TransferNext]_transferVars PROVE TInv'
  OBVIOUS
<1>1. TypeOK' /\ PInv'
  BY PStep, TransferTypeStep DEF TInv
<1>2. CASE UNCHANGED transferVars
  BY <1>1, <1>2 DEF transferVars, vars, docVars, TInv, Rows, Exists, TransferConserves,
        Requests, ServedInPairs, RequestOK, InPairs, Between, Half, Taking, Bringing, Even, Owes
<1>3. ASSUME NEW t \in Txn, UNCHANGED docVars PROVE Rows' /\ TransferConserves'
  BY <1>3 DEF docVars, TInv, Rows, Exists, TransferConserves
<1>4. ASSUME NEW t \in Txn, NEW d \in Doc, Start(t, d) PROVE UNCHANGED docVars /\ Requests'
  BY <1>4, StartRequests
  DEF Start, StartApprove, StartAutoApprove, StartCancel, StartDelete, StartRevise,
      StartReject, StartAddLine, StartSetLine, StartRemoveLine, Serve
<1>5. ASSUME NEW t \in Txn, NEW item \in Item, NEW p \in Place, NEW q \in Qty,
             StartSale(t, item, p, q)
      PROVE  UNCHANGED docVars /\ Requests'
  BY <1>5, SaleRequests DEF StartSale
<1>6. ASSUME NEW t \in Txn, PostNext(t) PROVE UNCHANGED docVars /\ Requests'
  BY <1>6, PostRequests DEF PostNext
<1>7. ASSUME NEW t \in Txn, LedgerStep(t) PROVE UNCHANGED docVars /\ Requests'
  BY <1>7, LedgerRequests DEF LedgerStep
<1>8. ASSUME NEW t \in Txn, LedgerAbort(t) PROVE UNCHANGED docVars /\ Requests'
  <2>1. Release(t) /\ End(t) /\ UNCHANGED docVars
    BY <1>8 DEF LedgerAbort, LocatorTaken, NotEnough, Rollback, DeadlockVictim, Abort
  <2> QED
    BY <2>1, EndRequests
<1>9. ASSUME NEW t \in Txn, Finish(t) PROVE Rows' /\ Requests' /\ TransferConserves'
  BY <1>9, FinishPlain, FinishLines, FinishCut, FinishRevised, SaleInv DEF Finish
<1>10. ASSUME NEW d \in Doc, NEW draft \in Draft, Create(d, draft)
       PROVE  Rows' /\ Requests' /\ TransferConserves'
  BY <1>10, CreateInv
<1>11. (Rows' /\ Requests' /\ TransferConserves') \/ UNCHANGED transferVars
  BY <1>3, <1>4, <1>5, <1>6, <1>7, <1>8, <1>9, <1>10 DEF TransferNext
<1> QED
  BY <1>1, <1>2, <1>11 DEF TInv

-----------------------------------------------------------------------------
(* What places hold.  A commit adds to the on-hand what it adds to the      *)
(* movements of its transfer, and a drop takes off both the same.           *)
NoSales == "sell" \notin Ops

LEMMA ExplainedMove ==
  ASSUME TInv, OnHandIsExplained, NEW d \in Doc, NEW f \in [Locator -> Int],
         \A l \in Locator : balance'[l] = balance[l] + f[l],
         \A l \in Locator : moved'[d][l] = moved[d][l] + f[l],
         \A e \in Doc \ {d} : moved'[e] = moved[e]
  PROVE  OnHandIsExplained'
<1> SUFFICES ASSUME NEW l \in Locator
             PROVE  balance'[l] = Opening[l] + SumFunctionOnSet([e \in Doc |-> moved'[e][l]], Doc)
  BY DEF OnHandIsExplained
<1> DEFINE g == [e \in Doc |-> moved[e][l]]
           h == [e \in Doc |-> moved'[e][l]]
<1>1. balance[l] = Opening[l] + SumFunctionOnSet(g, Doc)
  BY DEF OnHandIsExplained
<1>2. /\ \A e \in Doc : g[e] \in Int
      /\ h[d] \in Int /\ h[d] = g[d] + f[l]
      /\ \A e \in Doc \ {d} : h[e] = g[e]
  BY DEF TInv, PInv, Shapes
<1> HIDE DEF g, h
<1>3. SumFunctionOnSet(h, Doc) = SumFunctionOnSet(g, Doc) + h[d] - g[d]
  BY <1>2, FiniteAssumption, SumChange
<1>4. SumFunctionOnSet(g, Doc) \in Int /\ Opening[l] \in Int /\ g[d] \in Int /\ f[l] \in Int
  BY <1>2, FiniteAssumption, SumInt, OpeningAssumption
<1>5. balance'[l] = balance[l] + f[l]
  OBVIOUS
<1>6. balance'[l] = Opening[l] + SumFunctionOnSet(h, Doc)
  BY <1>1, <1>2, <1>3, <1>4, <1>5
<1> QED
  BY <1>6 DEF h

LEMMA ExplainedStep ==
  ASSUME NoSales, TInv, OnHandIsExplained, [TransferNext]_transferVars
  PROVE  OnHandIsExplained'
<1>1. CASE UNCHANGED <<balance, moved>>
  BY <1>1 DEF OnHandIsExplained
<1>2. ASSUME NEW t \in Txn, NEW st, NEW row, req[t].doc \in Doc, Write(t, st, row)
      PROVE  OnHandIsExplained'
  <2> DEFINE d == req[t].doc
             f == delta[t]
  <2>1. /\ balance' = [l \in Locator |-> balance[l] + f[l]]
        /\ moved' = [moved EXCEPT ![d] = [l \in Locator |-> @[l] + f[l]]]
        /\ moved \in [Doc -> [Locator -> Int]] /\ f \in [Locator -> Int]
    BY <1>2 DEF Write, Commit, TInv, PInv, Shapes, TypeOK
  <2>2. d \in Doc
    BY <1>2
  <2> HIDE DEF d, f
  <2>3. /\ \A l \in Locator : balance'[l] = balance[l] + f[l]
        /\ \A l \in Locator : moved'[d][l] = moved[d][l] + f[l]
        /\ \A e \in Doc \ {d} : moved'[e] = moved[e]
    BY <2>1, <2>2
  <2> QED
    BY <2>1, <2>2, <2>3, ExplainedMove
<1>3. ASSUME NEW t \in Txn, NEW st, NEW row, req[t].doc \in Doc, DropMovements(t, st, row)
      PROVE  OnHandIsExplained'
  <2> DEFINE d == req[t].doc
             f == [l \in Locator |-> -moved[d][l]]
  <2>1. /\ balance' = [l \in Locator |-> balance[l] - moved[d][l]]
        /\ moved' = [moved EXCEPT ![d] = NoDelta]
        /\ moved \in [Doc -> [Locator -> Int]] /\ balance \in [Locator -> Int]
    BY <1>3 DEF DropMovements, TInv, PInv, Shapes, TypeOK
  <2>2. d \in Doc
    BY <1>3
  <2> HIDE DEF d
  <2>3. f \in [Locator -> Int]
    BY <2>1, <2>2
  <2>4. /\ \A l \in Locator : balance'[l] = balance[l] + f[l]
        /\ \A l \in Locator : moved'[d][l] = moved[d][l] + f[l]
        /\ \A e \in Doc \ {d} : moved'[e] = moved[e]
    BY <2>1, <2>2 DEF NoDelta
  <2> HIDE DEF f
  <2> QED
    BY <2>2, <2>3, <2>4, ExplainedMove
<1>4. ASSUME NEW t \in Txn, Finish(t) PROVE OnHandIsExplained'
  <2>1. req[t] # Null /\ req[t].op \in Ops
    BY <1>4
    DEF Finish, FinishApprove, FinishAutoApprove, FinishCancel, FinishDelete, FinishRevise,
        FinishReject, FinishAddLine, FinishSetLine, FinishRemoveLine, FinishSale, Ready,
        TInv, Requests, RequestOK
  <2>2. req[t].op # "sell" /\ req[t].doc \in Doc
    BY <2>1 DEF NoSales, TInv, PInv, AboutTransfers
  <2>3. ~ FinishSale(t)
    BY <2>2 DEF FinishSale, Ready
  <2>4. \E st, row : Write(t, st, row) \/ DropMovements(t, st, row)
    BY <1>4, <2>3
    DEF Finish, FinishApprove, FinishAutoApprove, FinishCancel, FinishDelete, FinishRevise,
        FinishReject, FinishAddLine, FinishSetLine, FinishRemoveLine
  <2> QED
    BY <1>2, <1>3, <2>2, <2>4
<1>5. UNCHANGED <<balance, moved>> \/ \E t \in Txn : Finish(t)
  BY DEF TransferNext, transferVars, vars, docVars, Create, Start, StartApprove,
         StartAutoApprove, StartCancel, StartDelete, StartRevise, StartReject, StartAddLine,
         StartSetLine, StartRemoveLine, StartSale, Serve, Begin, PostNext, Request, LedgerStep,
         LockLocator, MissLocator, InsertLocator, InsertMovement, LedgerAbort, LocatorTaken,
         NotEnough, Rollback, DeadlockVictim, Abort
<1> QED
  BY <1>1, <1>4, <1>5

LEMMA ExplainedInit == TransferInit => OnHandIsExplained
<1> SUFFICES ASSUME TransferInit, NEW l \in Locator
             PROVE  balance[l] = Opening[l] + SumFunctionOnSet([d \in Doc |-> moved[d][l]], Doc)
  BY DEF OnHandIsExplained
<1> DEFINE f == [d \in Doc |-> moved[d][l]]
<1>1. \A d \in Doc : f[d] = 0
  BY DEF TransferInit, NoDelta
<1>2. balance[l] \in Int /\ balance[l] = Opening[l]
  BY OpeningAssumption DEF TransferInit, Init
<1> HIDE DEF f
<1>3. SumFunctionOnSet(f, Doc) \in Int
  BY <1>1, FiniteAssumption, SumInt
<1>4. SumFunctionOnSet(f, Doc) = SumFunctionOnSet(f, Doc) + SumFunctionOnSet(f, Doc)
  BY <1>1, FiniteAssumption, SumPlus
<1>5. SumFunctionOnSet(f, Doc) = 0
  BY SMTT(30), <1>3, <1>4
<1>6. balance[l] = Opening[l] + SumFunctionOnSet(f, Doc)
  BY <1>2, <1>5
<1> QED
  BY <1>6 DEF f

-----------------------------------------------------------------------------
(* The invariant of all requests: the rows are typed and live, and what     *)
(* each request has posted and will post comes in pairs.                    *)
THEOREM TransferInvariant == TransferSpec => []TInv
BY TInvInit, TInvStep, PTL DEF TransferSpec

(* FR-024: what a transfer took from one place it put in another, item by   *)
(* item, in whatever order requests of all kinds approve, revise, cancel    *)
(* and delete it, and wherever they are rolled back.                        *)
THEOREM TransfersConserve == TransferSpec => []TransferConserves
<1>1. TInv => TransferConserves
  BY DEF TInv
<1> QED
  BY <1>1, TransferInvariant, PTL

(* SC-002: besides, the on-hand of every place is its opening and the       *)
(* movements of the transfers, as long as nothing else moves stock.         *)
THEOREM StockExplained ==
  ASSUME NoSales
  PROVE  TransferSpec => []StockIsExplained
<1>1. TInv => TransferTypeOK /\ TransferConserves
  BY DEF TInv, TransferTypeOK, PInv, Shapes, Rows, Requests, RequestOK
<1>2. TInv /\ OnHandIsExplained /\ [TransferNext]_transferVars => OnHandIsExplained'
  BY ExplainedStep
<1>3. TransferInit => TInv /\ OnHandIsExplained
  BY TInvInit, ExplainedInit
<1>4. TInv /\ OnHandIsExplained => StockIsExplained
  BY <1>1 DEF StockIsExplained
<1> QED
  BY <1>2, <1>3, <1>4, TInvStep, PTL DEF TransferSpec

-----------------------------------------------------------------------------
(* What plans add up to.  A sum over the calls of a plan is one over its    *)
(* positions, and the moves of lines bring to a place what the lines say.   *)
LEMMA PositionsFinite == \A n \in Nat : IsFiniteSet(1..n)
BY FS_Interval

(* A posting adds or takes a number.                                        *)
LEMMA SignedIn ==
  ASSUME NEW c \in Posting
  PROVE  Signed(c) \in Int
<1>1. c.qty \in Nat
  BY DEF Posting
<1> QED
  BY <1>1 DEF Signed

(* What the calls of a plan add up to at a locator, position by position.   *)
AtLocator(s, l) == [k \in 1..Len(s) |-> IF s[k].loc = l THEN Signed(s[k]) ELSE 0]

(* A sum over the calls at a locator is one over all positions.             *)
LEMMA SumAtLocator ==
  ASSUME NEW s \in Seq(Posting), NEW l
  PROVE  /\ Len(s) \in Nat /\ \A k \in 1..Len(s) : AtLocator(s, l)[k] \in Int
         /\ Sum(s, l) = SumFunctionOnSet(AtLocator(s, l), 1..Len(s))
         /\ Sum(s, l) \in Int
<1> DEFINE n == Len(s)
           f == [k \in DOMAIN s |-> Signed(s[k])]
           Here == {k \in DOMAIN s : s[k].loc = l}
           g == [x \in 1..n |-> IF x \in Here THEN f[x] ELSE 0]
<1>1. n \in Nat /\ DOMAIN s = 1..n /\ IsFiniteSet(1..n)
  BY PositionsFinite
<1>2. ASSUME NEW k \in 1..n PROVE Signed(s[k]) \in Int
  <2>1. s[k] \in Posting
    OBVIOUS
  <2> QED
    BY <2>1, SignedIn
<1>3. Here \in SUBSET (1..n) /\ \A x \in Here : f[x] \in Int
  BY <1>1, <1>2
<1>4. AtLocator(s, l) = g
  BY <1>1 DEF AtLocator
<1>5. \A k \in 1..n : AtLocator(s, l)[k] \in Int
  BY <1>2 DEF AtLocator
<1>6. Sum(s, l) = SumFunctionOnSet(f, Here)
  BY DEF Sum
<1> HIDE DEF n, f, Here
<1>7. SumFunctionOnSet(f, Here) = SumFunctionOnSet(g, 1..n)
  BY <1>1, <1>3, SumExtended
<1>8. SumFunctionOnSet(AtLocator(s, l), 1..n) \in Int
  BY <1>1, <1>5, SumInt
<1> QED
  BY <1>1, <1>4, <1>5, <1>6, <1>7, <1>8 DEF n

(* One plan after another.                                                  *)
LEMMA SumJoined ==
  ASSUME NEW s \in Seq(Posting), NEW u \in Seq(Posting), NEW l
  PROVE  Sum(s \o u, l) = Sum(s, l) + Sum(u, l)
<1> DEFINE n == Len(s)
           m == Len(u)
           f == AtLocator(s \o u, l)
           g == AtLocator(u, l)
           h == AtLocator(s, l)
<1>1. s \o u \in Seq(Posting) /\ Len(s \o u) = n + m /\ n \in Nat /\ m \in Nat
  OBVIOUS
<1>2. /\ Sum(s \o u, l) = SumFunctionOnSet(f, 1..(n + m)) /\ \A k \in 1..(n + m) : f[k] \in Int
      /\ Sum(s, l) = SumFunctionOnSet(h, 1..n)
      /\ Sum(u, l) = SumFunctionOnSet(g, 1..m)
  BY <1>1, SumAtLocator
<1>3. \A k \in 1..n : f[k] = h[k]
  <2>1. ASSUME NEW k \in 1..n PROVE (s \o u)[k] = s[k] /\ k \in 1..(n + m)
    BY <1>1
  <2> QED
    BY <1>1, <2>1 DEF AtLocator
<1>4. \A k \in 1..m : g[k] = f[n + k]
  <2>1. ASSUME NEW k \in 1..m PROVE (s \o u)[n + k] = u[k] /\ n + k \in 1..(n + m)
    BY <1>1
  <2> QED
    BY <1>1, <2>1 DEF AtLocator
<1>5. IsFiniteSet(1..n)
  BY <1>1, PositionsFinite
<1> HIDE DEF n, m, f, g, h
<1>6. SumFunctionOnSet(f, 1..(n + m)) = SumFunctionOnSet(f, 1..n) + SumFunctionOnSet(g, 1..m)
  <2>1. n \in Nat /\ m \in Nat
    BY <1>1
  <2>2. \A k \in 1..(n + m) : f[k] \in Int
    BY <1>2
  <2> QED
    BY ONLY <2>1, <2>2, <1>4, SumStretches, SMTT(90)
<1>7. SumFunctionOnSet(f, 1..n) = SumFunctionOnSet(h, 1..n)
  BY <1>3, <1>5, SumSame
<1> QED
  BY <1>2, <1>6, <1>7

(* The call at the head and the rest.                                       *)
LEMMA SumOne ==
  ASSUME NEW c \in Posting, NEW l
  PROVE  Sum(<<c>>, l) = IF c.loc = l THEN Signed(c) ELSE 0
<1> DEFINE f == AtLocator(<<c>>, l)
<1>1. <<c>> \in Seq(Posting) /\ Len(<<c>>) = 1 /\ <<c>>[1] = c
  OBVIOUS
<1>2. Sum(<<c>>, l) = SumFunctionOnSet(f, 1..1) /\ (\A k \in 1..1 : f[k] \in Int)
  <2> DEFINE s == <<c>>
  <2> HIDE DEF s
  <2>1. Sum(s, l) = SumFunctionOnSet(AtLocator(s, l), 1..1) /\ (\A k \in 1..1 : AtLocator(s, l)[k] \in Int)
    BY <1>1, SumAtLocator DEF s
  <2> QED
    BY <2>1 DEF s
<1>3. f[1] = IF c.loc = l THEN Signed(c) ELSE 0
  BY <1>1 DEF AtLocator
<1>4. IsFiniteSet(1..1) /\ 1 \in 1..1 /\ (1..1) \ {1} = {} /\ f[1] \in Int
  <2>1. (1..1) \ {1} = {} /\ 1 \in Int /\ 1 \in 1..1
    OBVIOUS
  <2> HIDE DEF f
  <2> QED
    BY <1>2, <2>1, FS_Interval
<1> HIDE DEF f
<1>5. SumFunctionOnSet(f, 1..1) = f[1] + SumFunctionOnSet(f, {})
  BY <1>2, <1>4, SumRemove
<1> QED
  BY <1>2, <1>3, <1>5, SumEmpty

(* The call at the head, and the rest of the plan.                          *)
LEMMA SumHead ==
  ASSUME NEW s \in Seq(Posting), s # <<>>, NEW l
  PROVE  Sum(s, l) = (IF Head(s).loc = l THEN Signed(Head(s)) ELSE 0) + Sum(Tail(s), l)
<1>1. Head(s) \in Posting /\ Tail(s) \in Seq(Posting)
  BY TailParts
<1>2. <<Head(s)>> \in Seq(Posting) /\ <<Head(s)>> \o Tail(s) = s
  BY <1>1
<1>3. Sum(<<Head(s)>> \o Tail(s), l) = Sum(<<Head(s)>>, l) + Sum(Tail(s), l)
  BY <1>1, <1>2, SumJoined
<1> QED
  BY <1>1, <1>2, <1>3, SumOne

(* No plan adds nothing.                                                    *)
LEMMA SumNone == ASSUME NEW l PROVE Sum(<<>>, l) = 0
<1>1. {k \in DOMAIN <<>> : <<>>[k].loc = l} = {}
  OBVIOUS
<1> QED
  BY <1>1, SumEmpty DEF Sum

(* Lines whose quantities may be differences.                               *)
Lined(s) ==
    /\ Len(s) \in Nat /\ DOMAIN s = 1..Len(s)
    /\ \A i \in 1..Len(s) : s[i].qty \in Int

(* What lines carry of an item, line by line.                               *)
ByLine(s, item) == [i \in 1..Len(s) |-> IF s[i].item = item THEN s[i].qty ELSE 0]

(* The quantity of an item is a sum over all lines.                         *)
LEMMA QtyByLine ==
  ASSUME NEW s, Lined(s), NEW item
  PROVE  /\ QtyOf(s, item) = SumFunctionOnSet(ByLine(s, item), 1..Len(s))
         /\ QtyOf(s, item) \in Int
         /\ \A i \in 1..Len(s) : ByLine(s, item)[i] \in Int
<1> DEFINE n == Len(s)
           f == [i \in DOMAIN s |-> s[i].qty]
           Here == {i \in DOMAIN s : s[i].item = item}
           g == [i \in 1..n |-> IF i \in Here THEN f[i] ELSE 0]
<1>1. n \in Nat /\ DOMAIN s = 1..n /\ IsFiniteSet(1..n) /\ \A i \in 1..n : s[i].qty \in Int
  BY PositionsFinite DEF Lined
<1>2. Here \in SUBSET (1..n) /\ \A i \in Here : f[i] \in Int
  BY <1>1
<1>3. ByLine(s, item) = g
  BY <1>1 DEF ByLine
<1>4. \A i \in 1..n : ByLine(s, item)[i] \in Int
  BY <1>1 DEF ByLine
<1>5. QtyOf(s, item) = SumFunctionOnSet(f, Here)
  BY DEF QtyOf
<1> HIDE DEF n, f, Here
<1>6. SumFunctionOnSet(f, Here) = SumFunctionOnSet(g, 1..n)
  BY <1>1, <1>2, SumExtended
<1>7. SumFunctionOnSet(ByLine(s, item), 1..n) \in Int
  BY <1>1, <1>4, SumInt
<1> QED
  BY <1>3, <1>4, <1>5, <1>6, <1>7 DEF n

(* Lines that carry are lined up.                                           *)
LEMMA CarriesLined == ASSUME NEW s, Carries(s) PROVE Lined(s)
BY DEF Carries, Lined

(* A plan takes a line out of one place and then into the other.            *)
LEMMA MovesAt ==
  ASSUME NEW s, Carries(s), NEW from, NEW to, NEW i \in 1..Len(s)
  PROVE  /\ 2 * i - 1 \in 1..(2 * Len(s)) /\ 2 * i \in 1..(2 * Len(s))
         /\ Moves(s, from, to)[2 * i - 1] = [loc |-> <<s[i].item, from>>, dir |-> "out",
                                             qty |-> s[i].qty, negative |-> FALSE]
         /\ Moves(s, from, to)[2 * i] = [loc |-> <<s[i].item, to>>, dir |-> "in",
                                         qty |-> s[i].qty, negative |-> FALSE]
<1> DEFINE n == Len(s)
           out(k) == [loc |-> <<s[k].item, from>>, dir |-> "out", qty |-> s[k].qty, negative |-> FALSE]
           in(k) == [loc |-> <<s[k].item, to>>, dir |-> "in", qty |-> s[k].qty, negative |-> FALSE]
<1>1. n \in Nat
  BY DEF Carries
<1>2. Moves(s, from, to) = [k \in 1..(2 * n) |->
                IF k % 2 = 1 THEN out((k + 1) \div 2) ELSE in((k + 1) \div 2)]
  BY DEF Moves, Move
<1> HIDE DEF out, in
<1>3. /\ 2 * i - 1 \in 1..(2 * n) /\ (2 * i - 1) % 2 = 1 /\ ((2 * i - 1) + 1) \div 2 = i
      /\ 2 * i \in 1..(2 * n) /\ (2 * i) % 2 # 1 /\ (2 * i + 1) \div 2 = i
  BY <1>1
<1>4. Moves(s, from, to)[2 * i - 1] = out(i) /\ Moves(s, from, to)[2 * i] = in(i)
  BY <1>2, <1>3
<1> QED
  BY <1>3, <1>4 DEF out, in

(* So the plan adds up to the flow of its lines.                            *)
LEMMA MovesFlow ==
  ASSUME NEW s, Carries(s), NEW from \in Place, NEW to \in Place, NEW l \in Locator
  PROVE  /\ Sum(Moves(s, from, to), l) = Flow(s, from, to, l)
         /\ Flow(s, from, to, l) \in Int
<1> DEFINE n == Len(s)
           b == ByLine(s, l[1])
           f == AtLocator(Moves(s, from, to), l)
           g == [i \in 1..n |-> (IF l[2] = to THEN b[i] ELSE 0) - (IF l[2] = from THEN b[i] ELSE 0)]
           q == QtyOf(s, l[1])
<1>1. n \in Nat /\ IsFiniteSet(1..n) /\ \A i \in 1..n : s[i].qty \in Int
  BY PositionsFinite DEF Carries
<1>2. q = SumFunctionOnSet(b, 1..n) /\ q \in Int /\ \A i \in 1..n : b[i] \in Int
  BY CarriesLined, QtyByLine
<1>3. Moves(s, from, to) \in Seq(Posting) /\ Len(Moves(s, from, to)) = 2 * n
  <2> DEFINE plan == Moves(s, from, to)
  <2>1. plan \in Seq(Posting)
    BY MovesPaired
  <2>2. DOMAIN plan = 1..(2 * n)
    BY DEF Moves
  <2> HIDE DEF plan
  <2>3. Len(plan) \in Nat /\ DOMAIN plan = 1..Len(plan)
    BY <2>1
  <2>4. Len(plan) = 2 * n
    BY <1>1, <2>2, <2>3
  <2> QED
    BY <2>1, <2>4 DEF plan
<1>4. Sum(Moves(s, from, to), l) = SumFunctionOnSet(f, 1..(2 * n)) /\ \A k \in 1..(2 * n) : f[k] \in Int
  BY <1>3, SumAtLocator
<1>5. ASSUME NEW i \in 1..n PROVE g[i] = f[2 * i - 1] + f[2 * i]
  <2>1. ASSUME NEW item, NEW p PROVE (<<item, p>> = l) <=> (l[1] = item /\ l[2] = p)
    BY LocatorAssumption
  <2>2. /\ f[2 * i - 1] = IF <<s[i].item, from>> = l THEN - s[i].qty ELSE 0
        /\ f[2 * i] = IF <<s[i].item, to>> = l THEN s[i].qty ELSE 0
    <3> DEFINE plan == Moves(s, from, to)
               out == [loc |-> <<s[i].item, from>>, dir |-> "out", qty |-> s[i].qty, negative |-> FALSE]
               in == [loc |-> <<s[i].item, to>>, dir |-> "in", qty |-> s[i].qty, negative |-> FALSE]
    <3>1. /\ 2 * i - 1 \in 1..Len(plan) /\ plan[2 * i - 1] = out
          /\ 2 * i \in 1..Len(plan) /\ plan[2 * i] = in
      BY <1>3, MovesAt
    <3>2. /\ out.loc = <<s[i].item, from>> /\ Signed(out) = - s[i].qty
          /\ in.loc = <<s[i].item, to>> /\ Signed(in) = s[i].qty
      BY DEF Signed
    <3>3. f = AtLocator(plan, l)
      OBVIOUS
    <3> HIDE DEF plan, out, in, f
    <3> QED
      BY <3>1, <3>2, <3>3 DEF AtLocator
  <2>3. b[i] = IF s[i].item = l[1] THEN s[i].qty ELSE 0
    BY DEF ByLine
  <2>4. g[i] = (IF l[2] = to THEN b[i] ELSE 0) - (IF l[2] = from THEN b[i] ELSE 0)
    OBVIOUS
  <2> HIDE DEF f, b, g
  <2> QED
    <3>1. s[i].qty \in Int
      BY <1>1
    <3>2. (<<s[i].item, from>> = l) <=> (l[1] = s[i].item /\ l[2] = from)
      BY <2>1
    <3>3. (<<s[i].item, to>> = l) <=> (l[1] = s[i].item /\ l[2] = to)
      BY <2>1
    <3> QED
      BY ONLY <3>1, <3>2, <3>3, <2>2, <2>3, <2>4
<1>6. \A i \in 1..n : g[i] = (IF l[2] = to THEN b[i] ELSE 0) - (IF l[2] = from THEN b[i] ELSE 0)
  OBVIOUS
<1>7. Flow(s, from, to, l) = (IF l[2] = to THEN q ELSE 0) - (IF l[2] = from THEN q ELSE 0)
  BY DEF Flow
<1> HIDE DEF n, b, f, g, q
<1>8. SumFunctionOnSet(f, 1..(2 * n)) = SumFunctionOnSet(g, 1..n)
  <2>1. n \in Nat
    BY <1>1
  <2>2. \A k \in 1..(2 * n) : f[k] \in Int
    BY <1>4
  <2>3. \A i \in 1..n : g[i] = f[2 * i - 1] + f[2 * i]
    BY <1>5
  <2> QED
    BY ONLY <2>1, <2>2, <2>3, SumPairs, SMTT(90)
<1>9. SumFunctionOnSet(g, 1..n) = (IF l[2] = to THEN q ELSE 0) - (IF l[2] = from THEN q ELSE 0)
  <2>1. CASE (l[2] = to) <=> (l[2] = from)
    <3>1. \A i \in 1..n : g[i] = 0 /\ g[i] \in Int
      BY <1>2, <1>6, <2>1
    <3>2. {} \in SUBSET (1..n) /\ \A i \in (1..n) \ {} : g[i] = 0
      BY <3>1
    <3>3. SumFunctionOnSet(g, 1..n) = SumFunctionOnSet(g, {})
      BY <1>1, <3>1, <3>2, SumSupport
    <3> QED
      BY <1>2, <2>1, <3>3, SumEmpty
  <2>2. CASE l[2] = to /\ l[2] # from
    <3>1. \A i \in 1..n : g[i] = b[i]
      BY <1>2, <1>6, <2>2
    <3>2. SumFunctionOnSet(g, 1..n) = SumFunctionOnSet(b, 1..n)
      BY <1>1, <3>1, SumSame
    <3> QED
      BY <1>2, <2>2, <3>2
  <2>3. CASE l[2] # to /\ l[2] = from
    <3>1. \A i \in 1..n : b[i] \in Int /\ g[i] = - b[i]
      BY <1>2, <1>6, <2>3
    <3>2. SumFunctionOnSet(g, 1..n) = - SumFunctionOnSet(b, 1..n)
      BY <1>1, <3>1, SumNegated
    <3> QED
      BY <1>2, <2>3, <3>2
  <2> QED
    BY <2>1, <2>2, <2>3
<1> QED
  BY <1>2, <1>4, <1>7, <1>8, <1>9

(* The ascending order of positions has every one of them, once.            *)
LEMMA AscendingOnto ==
  ASSUME NEW n \in Nat, NEW S \in SUBSET (1..n)
  PROVE  /\ \A i \in S : \E k \in 1..Cardinality(S) : Ascending(S)[k] = i
         /\ \A j, k \in 1..Cardinality(S) : Ascending(S)[j] = Ascending(S)[k] => j = k
<1> DEFINE a == Ascending(S)
           c == Cardinality(S)
           T == {a[k] : k \in 1..c}
<1>1. /\ IsFiniteSet(S) /\ c \in Nat /\ a \in [1..c -> S]
      /\ \A i, j \in 1..c : i < j => a[i] < a[j]
  BY AscendingIn
<1>2. \A j, k \in 1..c : a[j] = a[k] => j = k
  <2>1. ASSUME NEW j \in 1..c, NEW k \in 1..c, a[j] = a[k] PROVE j = k
    <3>1. a[j] \in Int /\ a[k] \in Int
      <4>1. a[j] \in S /\ a[k] \in S /\ \A i \in S : i \in Int
        BY <1>1
      <4> QED
        BY ONLY <4>1
    <3>2. ~ (j < k) /\ ~ (k < j)
      BY <1>1, <2>1, <3>1
    <3>3. j \in Int /\ k \in Int
      OBVIOUS
    <3> QED
      BY <3>2, <3>3
  <2> QED
    BY <2>1
<1> HIDE DEF a, c
<1>3. T \in SUBSET S /\ a \in Surjection(1..c, T) /\ a \in Injection(1..c, T)
  <2>1. T \in SUBSET S
    BY <1>1
  <2>2. a \in [1..c -> T]
    BY <1>1
  <2>3. \A y \in T : \E k \in 1..c : a[k] = y
    OBVIOUS
  <2> HIDE DEF T
  <2>4. a \in Surjection(1..c, T)
    BY <2>2, <2>3 DEF Surjection
  <2>5. a \in Injection(1..c, T)
    BY <1>2, <2>2 DEF Injection, IsInjective
  <2> QED
    BY <2>1, <2>4, <2>5
<1>4. IsFiniteSet(1..c) /\ Cardinality(1..c) = c
  BY <1>1, FS_Interval
<1> HIDE DEF T
<1>5. Cardinality(T) = c
  BY <1>3, <1>4, FS_Surjection
<1>6. S = T
  BY <1>1, <1>3, <1>5, FS_Subset DEF c
<1> QED
  BY <1>2, <1>6 DEF a, c, T

(* What a choice of positions consists of.                                  *)
LEMMA ChosenParts ==
  ASSUME NEW s, Len(s) \in Nat, DOMAIN s = 1..Len(s), NEW S \in SUBSET (DOMAIN s)
  PROVE  /\ Cardinality(S) \in Nat /\ Len(Chosen(s, S)) = Cardinality(S)
         /\ DOMAIN Chosen(s, S) = 1..Cardinality(S)
         /\ Ascending(S) \in [1..Cardinality(S) -> S]
         /\ \A k \in 1..Cardinality(S) : Chosen(s, S)[k] = s[Ascending(S)[k]]
<1> DEFINE a == Ascending(S)
           c == Cardinality(S)
           ch == Chosen(s, S)
<1>1. c \in Nat /\ a \in [1..c -> S]
  BY AscendingIn
<1>2. ch = [k \in DOMAIN a |-> s[a[k]]]
  BY DEF Chosen
<1> HIDE DEF a, c, ch
<1>3. ch = [k \in 1..c |-> s[a[k]]]
  BY <1>1, <1>2
<1>4. Len(ch) = c /\ DOMAIN ch = 1..c
  BY <1>1, <1>3
<1> QED
  BY <1>1, <1>3, <1>4 DEF a, c, ch

(* What is carried at chosen positions.                                     *)
LEMMA ChosenQty ==
  ASSUME NEW s, Lined(s), NEW S \in SUBSET (DOMAIN s), NEW item
  PROVE  /\ Lined(Chosen(s, S))
         /\ QtyOf(Chosen(s, S), item)
              = SumFunctionOnSet([i \in DOMAIN s |-> s[i].qty], {i \in S : s[i].item = item})
<1> DEFINE a == Ascending(S)
           c == Cardinality(S)
           ch == Chosen(s, S)
           f == [i \in DOMAIN s |-> s[i].qty]
           h == [k \in DOMAIN ch |-> ch[k].qty]
           K == {k \in DOMAIN ch : ch[k].item = item}
           I == {i \in S : s[i].item = item}
<1>1. Len(s) \in Nat /\ DOMAIN s = 1..Len(s) /\ \A i \in DOMAIN s : s[i].qty \in Int
  BY DEF Lined
<1>2. /\ c \in Nat /\ Len(ch) = c /\ DOMAIN ch = 1..c /\ a \in [1..c -> S]
      /\ \A k \in 1..c : ch[k] = s[a[k]]
  BY <1>1, ChosenParts
<1>3. /\ \A i \in S : \E k \in 1..c : a[k] = i
      /\ \A j, k \in 1..c : a[j] = a[k] => j = k
  BY <1>1, AscendingOnto
<1>4. QtyOf(ch, item) = SumFunctionOnSet(h, K)
  BY DEF QtyOf
<1> HIDE DEF a, c, ch
<1>5. \A k \in 1..c : a[k] \in S /\ a[k] \in DOMAIN s
  BY <1>2
<1>6. Lined(ch)
  BY <1>1, <1>2, <1>5 DEF Lined
<1>7. {a[k] : k \in K} = I
  BY <1>2, <1>3, <1>5
<1>8. IsFiniteSet(K) /\ \A j, k \in K : a[j] = a[k] => j = k
  <2>1. IsFiniteSet(1..c)
    BY <1>2, PositionsFinite
  <2>2. K \in SUBSET (1..c)
    BY <1>2
  <2> QED
    BY <1>3, <2>1, <2>2, FS_Subset
<1>9. \A k \in K : f[a[k]] \in Int /\ h[k] = f[a[k]]
  BY <1>1, <1>2, <1>5
<1> HIDE DEF f, h, K, I
<1>10. SumFunctionOnSet(f, {a[k] : k \in K}) = SumFunctionOnSet(h, K)
  BY <1>8, <1>9, SumMapped
<1> QED
  BY <1>4, <1>6, <1>7, <1>10 DEF ch, f, I

(* Nothing is carried of an item that has no line, and of an item that has  *)
(* one line, what the line says.                                            *)
LEMMA QtyAbsent ==
  ASSUME NEW s, NEW item, \A i \in DOMAIN s : s[i].item # item
  PROVE  QtyOf(s, item) = 0
<1>1. {i \in DOMAIN s : s[i].item = item} = {}
  OBVIOUS
<1> QED
  BY <1>1, SumEmpty DEF QtyOf

(* A sum over one position.                                                 *)
LEMMA SumAlone ==
  ASSUME NEW f, NEW x, f[x] \in Int
  PROVE  SumFunctionOnSet(f, {x}) = f[x]
<1>1. IsFiniteSet({x}) /\ x \in {x} /\ {x} \ {x} = {} /\ \A y \in {x} : f[y] \in Int
  BY FS_Singleton
<1>2. SumFunctionOnSet(f, {x}) = f[x] + SumFunctionOnSet(f, {x} \ {x})
  BY <1>1, SumRemove
<1> QED
  BY <1>1, <1>2, SumEmpty

(* The quantity of an item that has one line is that of the line.           *)
LEMMA QtySingle ==
  ASSUME NEW s, Lined(s), NEW k \in DOMAIN s,
         \A i \in DOMAIN s : s[i].item = s[k].item => i = k
  PROVE  QtyOf(s, s[k].item) = s[k].qty
<1> DEFINE f == [i \in DOMAIN s |-> s[i].qty]
<1>1. {i \in DOMAIN s : s[i].item = s[k].item} = {k}
  OBVIOUS
<1>2. f[k] = s[k].qty /\ f[k] \in Int
  BY DEF Lined
<1>3. QtyOf(s, s[k].item) = SumFunctionOnSet(f, {k})
  BY <1>1 DEF QtyOf
<1> HIDE DEF f
<1> QED
  BY <1>2, <1>3, SumAlone

(* Merging keeps what is carried of each item, in one line an item.         *)
LEMMA MergedParts ==
  ASSUME NEW s, Carries(s)
  PROVE  /\ Lined(Merged(s))
         /\ \A k \in DOMAIN Merged(s) : Merged(s)[k].qty = QtyOf(s, Merged(s)[k].item)
         /\ \A j, k \in DOMAIN Merged(s) : Merged(s)[j].item = Merged(s)[k].item => j = k
         /\ \A i \in DOMAIN s : \E k \in DOMAIN Merged(s) : Merged(s)[k].item = s[i].item
<1> DEFINE S == {i \in DOMAIN s : \A j \in 1..(i - 1) : s[j].item # s[i].item}
           a == Ascending(S)
           c == Cardinality(S)
           m == Merged(s)
<1>1. Len(s) \in Nat /\ DOMAIN s = 1..Len(s) /\ S \in SUBSET (1..Len(s))
  BY DEF Carries
<1>2. c \in Nat /\ a \in [1..c -> S]
  BY <1>1, AscendingIn
<1>3. /\ \A i \in S : \E k \in 1..c : a[k] = i
      /\ \A j, k \in 1..c : a[j] = a[k] => j = k
  BY <1>1, AscendingOnto
<1>4. m = [k \in DOMAIN a |-> [item |-> s[a[k]].item, qty |-> QtyOf(s, s[a[k]].item)]]
  BY DEF Merged
<1>5. m \in Seq(AskedLine)
  BY MergedIn
<1> HIDE DEF a, c, m
<1>6. DOMAIN m = 1..c /\ \A k \in 1..c : m[k].item = s[a[k]].item /\ m[k].qty = QtyOf(s, s[a[k]].item)
  BY <1>2, <1>4
<1>7. ASSUME NEW j \in 1..c, NEW k \in 1..c, m[j].item = m[k].item PROVE j = k
  <2>1. a[j] \in S /\ a[k] \in S /\ s[a[j]].item = s[a[k]].item
    BY <1>2, <1>6, <1>7
  <2>2. a[j] \in Nat /\ a[k] \in Nat /\ a[j] >= 1 /\ a[k] >= 1
    BY <1>1, <2>1
  <2>3. a[j] \notin 1..(a[k] - 1) /\ a[k] \notin 1..(a[j] - 1)
    BY <2>1
  <2>4. a[j] = a[k]
    BY <2>2, <2>3
  <2> QED
    BY <1>3, <2>4
<1>8. ASSUME NEW i \in DOMAIN s PROVE \E k \in 1..c : m[k].item = s[i].item
  <2> DEFINE T == {j \in DOMAIN s : s[j].item = s[i].item}
  <2>1. T \in SUBSET Nat /\ T # {}
    BY <1>1
  <2>2. PICK j \in T : \A h \in T : j =< h
    <3> HIDE DEF T
    <3> QED
      BY <2>1, LeastNat
  <2>3. j \in DOMAIN s /\ s[j].item = s[i].item /\ j \in 1..Len(s)
    BY <1>1, <2>2
  <2>4. ASSUME NEW h \in 1..(j - 1) PROVE s[h].item # s[j].item
    <3>1. h \in DOMAIN s /\ ~ (j =< h)
      BY <1>1, <2>3
    <3> QED
      BY <2>2, <2>3, <3>1
  <2>5. j \in S
    BY <2>3, <2>4
  <2>6. PICK k \in 1..c : a[k] = j
    BY <1>3, <2>5
  <2> QED
    BY <1>6, <2>3, <2>6
<1>9. Lined(m)
  BY <1>5, LinesCarry, CarriesLined
<1> QED
  BY <1>6, <1>7, <1>8, <1>9 DEF m

(* Merging the lines keeps the quantity of every item.                      *)
LEMMA MergedQty ==
  ASSUME NEW s, Carries(s), NEW item
  PROVE  QtyOf(Merged(s), item) = QtyOf(s, item)
<1> DEFINE m == Merged(s)
<1>1. /\ Lined(m) /\ \A k \in DOMAIN m : m[k].qty = QtyOf(s, m[k].item)
      /\ \A j, k \in DOMAIN m : m[j].item = m[k].item => j = k
      /\ \A i \in DOMAIN s : \E k \in DOMAIN m : m[k].item = s[i].item
  BY MergedParts
<1> HIDE DEF m
<1>2. CASE \E k \in DOMAIN m : m[k].item = item
  <2>1. PICK k \in DOMAIN m : m[k].item = item
    BY <1>2
  <2>2. QtyOf(m, m[k].item) = m[k].qty
    BY <1>1, QtySingle
  <2> QED
    BY <1>1, <2>1, <2>2 DEF m
<1>3. CASE ~ \E k \in DOMAIN m : m[k].item = item
  <2>1. (\A k \in DOMAIN m : m[k].item # item) /\ \A i \in DOMAIN s : s[i].item # item
    BY <1>1, <1>3
  <2>2. QtyOf(m, item) = 0 /\ QtyOf(s, item) = 0
    BY <2>1, QtyAbsent
  <2> QED
    BY <2>2 DEF m
<1> QED
  BY <1>2, <1>3

(* Lines turned round carry the opposite.                                   *)
LEMMA QtyNegated ==
  ASSUME NEW s, Lined(s), NEW u, DOMAIN u = DOMAIN s,
         \A i \in DOMAIN s : u[i].item = s[i].item /\ u[i].qty = - s[i].qty, NEW item
  PROVE  QtyOf(u, item) = - QtyOf(s, item)
<1> DEFINE f == [i \in DOMAIN s |-> s[i].qty]
           g == [i \in DOMAIN u |-> u[i].qty]
           I == {i \in DOMAIN s : s[i].item = item}
<1>1. {i \in DOMAIN u : u[i].item = item} = I
  OBVIOUS
<1>2. QtyOf(s, item) = SumFunctionOnSet(f, I) /\ QtyOf(u, item) = SumFunctionOnSet(g, I)
  BY <1>1 DEF QtyOf
<1>3. \A i \in I : f[i] \in Int /\ g[i] = - f[i]
  BY DEF Lined
<1>4. IsFiniteSet(I)
  <2>1. IsFiniteSet(DOMAIN s) /\ I \in SUBSET (DOMAIN s)
    BY PositionsFinite DEF Lined
  <2> HIDE DEF I
  <2> QED
    BY <2>1, FS_Subset
<1> HIDE DEF f, g, I
<1> QED
  BY <1>2, <1>3, <1>4, SumNegated

(* The differences, one line for each item of either side.                  *)
LEMMA DifferencesParts ==
  ASSUME NEW s \in Seq(AskedLine), NEW u \in Seq(AskedLine)
  PROVE  LET diff == Differences(s, u) IN
         /\ Lined(diff)
         /\ \A k \in DOMAIN diff : diff[k].qty = QtyOf(u, diff[k].item) - QtyOf(s, diff[k].item)
         /\ \A j, k \in DOMAIN diff : diff[j].item = diff[k].item => j = k
         /\ \A i \in DOMAIN s : \E k \in DOMAIN diff : diff[k].item = s[i].item
         /\ \A i \in DOMAIN u : \E k \in DOMAIN diff : diff[k].item = u[i].item
<1> DEFINE both == s \o u
           all == Merged(both)
           diff == Differences(s, u)
<1>1. both \in Seq(AskedLine) /\ Carries(both) /\ Carries(s) /\ Carries(u)
  <2>1. both \in Seq(AskedLine)
    OBVIOUS
  <2> HIDE DEF both
  <2> QED
    BY <2>1, LinesCarry
<1>2. /\ \A i \in DOMAIN s : i \in DOMAIN both /\ both[i] = s[i]
      /\ \A i \in DOMAIN u : Len(s) + i \in DOMAIN both /\ both[Len(s) + i] = u[i]
  OBVIOUS
<1>3. /\ all \in Seq(AskedLine)
      /\ \A j, k \in DOMAIN all : all[j].item = all[k].item => j = k
      /\ \A i \in DOMAIN both : \E k \in DOMAIN all : all[k].item = both[i].item
  <2> HIDE DEF both
  <2> QED
    BY <1>1, MergedIn, MergedParts
<1>4. diff = [k \in DOMAIN all |->
                [all[k] EXCEPT !.qty = QtyOf(u, all[k].item) - QtyOf(s, all[k].item)]]
  BY DEF Differences
<1> HIDE DEF both, all, diff
<1>5. /\ DOMAIN diff = DOMAIN all
      /\ \A k \in DOMAIN all : /\ diff[k].item = all[k].item
                               /\ diff[k].qty = QtyOf(u, all[k].item) - QtyOf(s, all[k].item)
  <2>1. DOMAIN diff = DOMAIN all
    BY <1>4
  <2>2. ASSUME NEW k \in DOMAIN all
        PROVE  /\ diff[k].item = all[k].item
               /\ diff[k].qty = QtyOf(u, all[k].item) - QtyOf(s, all[k].item)
    <3>1. all[k] \in AskedLine
      BY <1>3
    <3>2. diff[k] = [all[k] EXCEPT !.qty = QtyOf(u, all[k].item) - QtyOf(s, all[k].item)]
      BY <1>4
    <3> QED
      BY <3>1, <3>2 DEF AskedLine
  <2> QED
    BY <2>1, <2>2
<1>6. Lined(diff)
  <2> DEFINE Diff == [item : Item, qty : Int]
  <2>1. diff \in Seq(Diff)
    BY DifferencesIn DEF diff
  <2>2. Len(diff) \in Nat /\ DOMAIN diff = 1..Len(diff)
    <3> HIDE DEF Diff
    <3> QED
      BY <2>1
  <2>3. \A k \in 1..Len(diff) : diff[k].qty \in Int
    <3>1. \A k \in 1..Len(diff) : diff[k] \in Diff
      <4> HIDE DEF Diff
      <4> QED
        BY <2>1
    <3> QED
      BY <3>1
  <2> QED
    BY <2>2, <2>3 DEF Lined
<1>7. /\ \A j, k \in DOMAIN diff : diff[j].item = diff[k].item => j = k
      /\ \A i \in DOMAIN s : \E k \in DOMAIN diff : diff[k].item = s[i].item
      /\ \A i \in DOMAIN u : \E k \in DOMAIN diff : diff[k].item = u[i].item
  <2>1. \A j, k \in DOMAIN diff : diff[j].item = diff[k].item => j = k
    BY <1>3, <1>5
  <2>2. \A i \in DOMAIN both : \E k \in DOMAIN diff : diff[k].item = both[i].item
    BY <1>3, <1>5
  <2>3. ASSUME NEW i \in DOMAIN s PROVE \E k \in DOMAIN diff : diff[k].item = s[i].item
    BY <1>2, <2>2
  <2>4. ASSUME NEW i \in DOMAIN u PROVE \E k \in DOMAIN diff : diff[k].item = u[i].item
    <3>1. PICK k \in DOMAIN diff : diff[k].item = both[Len(s) + i].item
      BY <1>2, <2>2
    <3> QED
      BY <1>2, <3>1
  <2> QED
    BY <2>1, <2>3, <2>4
<1>8. \A k \in DOMAIN diff : diff[k].qty = QtyOf(u, diff[k].item) - QtyOf(s, diff[k].item)
  BY <1>5
<1> QED
  BY <1>6, <1>7, <1>8 DEF diff

(* What more is asked less what is given back is the difference.            *)
LEMMA MoreAndBack ==
  ASSUME NEW s \in Seq(AskedLine), NEW u \in Seq(AskedLine), NEW diff, diff = Differences(s, u),
         NEW more, more = Chosen(diff, {i \in DOMAIN diff : diff[i].qty > 0}),
         NEW less, less = Chosen(diff, {i \in DOMAIN diff : diff[i].qty < 0}),
         NEW item
  PROVE  QtyOf(more, item) + QtyOf(less, item) = QtyOf(u, item) - QtyOf(s, item)
<1> DEFINE f == [i \in DOMAIN diff |-> diff[i].qty]
           M == {i \in DOMAIN diff : diff[i].qty > 0}
           N == {i \in DOMAIN diff : diff[i].qty < 0}
<1>1. /\ Lined(diff)
      /\ \A k \in DOMAIN diff : diff[k].qty = QtyOf(u, diff[k].item) - QtyOf(s, diff[k].item)
      /\ \A j, k \in DOMAIN diff : diff[j].item = diff[k].item => j = k
      /\ \A i \in DOMAIN s : \E k \in DOMAIN diff : diff[k].item = s[i].item
      /\ \A i \in DOMAIN u : \E k \in DOMAIN diff : diff[k].item = u[i].item
  BY DifferencesParts
<1>2. /\ QtyOf(more, item) = SumFunctionOnSet(f, {i \in M : diff[i].item = item})
      /\ QtyOf(less, item) = SumFunctionOnSet(f, {i \in N : diff[i].item = item})
  <2>1. M \in SUBSET (DOMAIN diff) /\ N \in SUBSET (DOMAIN diff)
    OBVIOUS
  <2>2. more = Chosen(diff, M) /\ less = Chosen(diff, N)
    OBVIOUS
  <2>3. Lined(diff)
    BY <1>1
  <2> HIDE DEF M, N
  <2>4. /\ QtyOf(Chosen(diff, M), item) = SumFunctionOnSet(f, {i \in M : diff[i].item = item})
        /\ QtyOf(Chosen(diff, N), item) = SumFunctionOnSet(f, {i \in N : diff[i].item = item})
    BY ONLY <2>1, <2>3, ChosenQty
  <2> QED
    BY <2>2, <2>4
<1>3. CASE \E k \in DOMAIN diff : diff[k].item = item
  <2>1. PICK k \in DOMAIN diff : diff[k].item = item
    BY <1>3
  <2>2. f[k] = diff[k].qty /\ diff[k].qty \in Int
    BY <1>1 DEF Lined
  <2>3. \A i \in DOMAIN diff : diff[i].item = item => i = k
    BY <1>1, <2>1
  <2>4. /\ {i \in M : diff[i].item = item} = IF diff[k].qty > 0 THEN {k} ELSE {}
        /\ {i \in N : diff[i].item = item} = IF diff[k].qty < 0 THEN {k} ELSE {}
    BY <2>1, <2>3
  <2> HIDE DEF f, M, N
  <2>5. SumFunctionOnSet(f, {k}) = diff[k].qty /\ SumFunctionOnSet(f, {}) = 0
    BY <2>2, SumAlone, SumEmpty
  <2>6. /\ QtyOf(more, item) = IF diff[k].qty > 0 THEN diff[k].qty ELSE 0
        /\ QtyOf(less, item) = IF diff[k].qty < 0 THEN diff[k].qty ELSE 0
    BY <1>2, <2>4, <2>5
  <2>7. QtyOf(more, item) + QtyOf(less, item) = diff[k].qty
    BY <2>2, <2>6
  <2> QED
    BY <1>1, <2>1, <2>7
<1>4. CASE ~ \E k \in DOMAIN diff : diff[k].item = item
  <2>1. /\ {i \in M : diff[i].item = item} = {}
        /\ {i \in N : diff[i].item = item} = {}
        /\ \A i \in DOMAIN s : s[i].item # item
        /\ \A i \in DOMAIN u : u[i].item # item
    BY <1>1, <1>4
  <2>2. QtyOf(s, item) = 0 /\ QtyOf(u, item) = 0
    BY <2>1, QtyAbsent
  <2> HIDE DEF f, M, N
  <2>3. QtyOf(more, item) = 0 /\ QtyOf(less, item) = 0
    BY <1>2, <2>1, SumEmpty
  <2> QED
    BY <2>2, <2>3
<1> QED
  BY <1>3, <1>4

(* So a revision moves what the new lines say beyond what the old ones did. *)
LEMMA RevisionFlow ==
  ASSUME NEW row, Live(row), NEW r \in Revision, NEW l \in Locator
  PROVE  Sum(RevisionPlan(row, r), l) = Flow(r.lines, r.src, r.dst, l) - Asked(row, l)
<1> DEFINE old == Merged(Moving(row))
           new == Merged(r.lines)
           diff == Differences(old, new)
           more == Chosen(diff, {i \in DOMAIN diff : diff[i].qty > 0})
           less == Chosen(diff, {i \in DOMAIN diff : diff[i].qty < 0})
           back == [i \in DOMAIN less |-> [less[i] EXCEPT !.qty = -@]]
           qo == QtyOf(Moving(row), l[1])
           qn == QtyOf(r.lines, l[1])
           Diff == [item : Item, qty : Int]
<1>1. r.lines \in Seq(AskedLine) /\ r.src \in Place /\ r.dst \in Place /\ Carries(r.lines)
  BY AskedAssumption, LinesCarry DEF AskedRow
<1>2. Carries(Moving(row)) /\ row.src \in Place /\ row.dst \in Place
  BY MovingIn DEF Live
<1>3. old \in Seq(AskedLine) /\ new \in Seq(AskedLine) /\ Carries(old) /\ Carries(new)
  BY <1>1, <1>2, MergedIn, LinesCarry
<1>4. /\ QtyOf(old, l[1]) = qo /\ QtyOf(new, l[1]) = qn /\ qo \in Int /\ qn \in Int
  BY <1>1, <1>2, MergedQty, QtyParts
<1>5. RevisionPlan(row, r) =
         IF row.src = r.src /\ row.dst = r.dst
         THEN Moves(back, row.dst, row.src) \o Moves(more, row.src, row.dst)
         ELSE Moves(old, row.dst, row.src) \o Moves(new, r.src, r.dst)
  BY DEF RevisionPlan, Where, Chosen
<1>6. Carries(more) /\ Carries(back) /\ QtyOf(more, l[1]) - QtyOf(back, l[1]) = qn - qo
      /\ QtyOf(more, l[1]) \in Int /\ QtyOf(back, l[1]) \in Int
  <2> DEFINE M == {i \in DOMAIN diff : diff[i].qty > 0}
             N == {i \in DOMAIN diff : diff[i].qty < 0}
             Less == {x \in Diff : x.qty < 0}
  <2> HIDE DEF old, new
  <2>1. diff \in Seq(Diff) /\ Lined(diff)
    BY <1>3, DifferencesIn, DifferencesParts
  <2>2. QtyOf(more, l[1]) + QtyOf(less, l[1]) = QtyOf(new, l[1]) - QtyOf(old, l[1])
    <3>1. /\ more = Chosen(diff, {i \in DOMAIN diff : diff[i].qty > 0})
          /\ less = Chosen(diff, {i \in DOMAIN diff : diff[i].qty < 0})
          /\ diff = Differences(old, new)
      OBVIOUS
    <3> HIDE DEF more, less, diff
    <3> QED
      BY <1>3, <3>1, MoreAndBack
  <2> HIDE DEF diff
  <2>3. Len(diff) \in Nat /\ DOMAIN diff = 1..Len(diff) /\ \A i \in DOMAIN diff : diff[i] \in Diff
    <3> HIDE DEF Diff
    <3> QED
      BY <2>1
  <2>4. /\ M \in SUBSET (DOMAIN diff) /\ N \in SUBSET (DOMAIN diff)
        /\ \A i \in M : diff[i] \in AskedLine
        /\ \A i \in N : diff[i] \in Less
    BY <2>3 DEF AskedLine
  <2>5. more = Chosen(diff, M) /\ less = Chosen(diff, N)
    OBVIOUS
  <2> HIDE DEF M, N, more, less, Less
  <2>6. Carries(more)
    BY <2>3, <2>4, <2>5, ChosenIn, LinesCarry
  <2>7. less \in Seq(Less)
    BY <2>3, <2>4, <2>5, ChosenIn
  <2>8. Len(less) \in Nat /\ DOMAIN less = 1..Len(less) /\ \A i \in 1..Len(less) : less[i] \in Less
    BY <2>7
  <2>9. /\ back \in [1..Len(less) -> AskedLine]
        /\ \A i \in DOMAIN less : back[i].item = less[i].item /\ back[i].qty = - less[i].qty
    BY <2>8 DEF AskedLine, Less
  <2>10. DOMAIN back = DOMAIN less /\ back \in Seq(AskedLine)
    <3> HIDE DEF back
    <3> QED
      BY <2>8, <2>9
  <2>11. Lined(less)
    BY <2>1, <2>4, <2>5, ChosenQty
  <2> HIDE DEF back
  <2>12. QtyOf(back, l[1]) = - QtyOf(less, l[1])
    BY <2>9, <2>10, <2>11, QtyNegated
  <2>13. Carries(back) /\ QtyOf(back, l[1]) \in Int /\ QtyOf(more, l[1]) \in Int /\ QtyOf(less, l[1]) \in Int
    BY <2>6, <2>10, <2>11, LinesCarry, QtyParts, QtyByLine
  <2> QED
    BY <1>4, <2>2, <2>6, <2>12, <2>13
<1>7. Asked(row, l) = Flow(Moving(row), row.src, row.dst, l)
  BY DEF Asked
<1> HIDE DEF old, new, more, back
<1>8. CASE row.src = r.src /\ row.dst = r.dst
  <2> DEFINE there == Moves(back, row.dst, row.src)
             here == Moves(more, row.src, row.dst)
  <2>1. there \in Seq(Posting) /\ here \in Seq(Posting)
    BY <1>2, <1>6, MovesPaired
  <2>2. /\ Sum(there, l) = Flow(back, row.dst, row.src, l)
        /\ Sum(here, l) = Flow(more, row.src, row.dst, l)
    BY <1>2, <1>6, MovesFlow
  <2>3. RevisionPlan(row, r) = there \o here
    BY <1>5, <1>8
  <2> HIDE DEF there, here
  <2>4. Sum(RevisionPlan(row, r), l) = Sum(there, l) + Sum(here, l)
    BY <2>1, <2>3, SumJoined
  <2>5. Sum(RevisionPlan(row, r), l)
          = Flow(back, row.dst, row.src, l) + Flow(more, row.src, row.dst, l)
    BY <2>2, <2>4
  <2> QED
    BY <1>4, <1>6, <1>7, <1>8, <2>5 DEF Flow
<1>9. CASE ~ (row.src = r.src /\ row.dst = r.dst)
  <2> DEFINE there == Moves(old, row.dst, row.src)
             here == Moves(new, r.src, r.dst)
  <2>1. there \in Seq(Posting) /\ here \in Seq(Posting)
    BY <1>1, <1>2, <1>3, MovesPaired
  <2>2. /\ Sum(there, l) = Flow(old, row.dst, row.src, l)
        /\ Sum(here, l) = Flow(new, r.src, r.dst, l)
    BY <1>1, <1>2, <1>3, MovesFlow
  <2>3. RevisionPlan(row, r) = there \o here
    BY <1>5, <1>9
  <2> HIDE DEF there, here
  <2>4. Sum(RevisionPlan(row, r), l) = Sum(there, l) + Sum(here, l)
    BY <2>1, <2>3, SumJoined
  <2>5. Sum(RevisionPlan(row, r), l)
          = Flow(old, row.dst, row.src, l) + Flow(new, r.src, r.dst, l)
    BY <2>2, <2>4
  <2> QED
    BY <1>4, <1>7, <2>5 DEF Flow
<1> QED
  BY <1>8, <1>9

(* What the lines up to one carry.                                          *)
LEMMA QtyUpTo ==
  ASSUME NEW s \in Seq(Line), NEW item, NEW k \in 0..Len(s)
  PROVE  /\ QtyOf(SubSeq(s, 1, k), item) = SumFunctionOnSet(ByLine(s, item), 1..k)
         /\ SumFunctionOnSet(ByLine(s, item), 1..k) \in Nat
<1> DEFINE u == SubSeq(s, 1, k)
           f == ByLine(u, item)
           g == ByLine(s, item)
<1>1. u \in Seq(Line) /\ Len(u) = k /\ \A i \in 1..k : u[i] = s[i] /\ i \in 1..Len(s)
  OBVIOUS
<1>2. Carries(u) /\ QtyOf(u, item) \in Nat
  BY <1>1, LinesCarry, QtyParts
<1> HIDE DEF u
<1>3. QtyOf(u, item) = SumFunctionOnSet(f, 1..k)
  BY <1>1, <1>2, CarriesLined, QtyByLine
<1>4. (\A i \in 1..k : f[i] = g[i]) /\ IsFiniteSet(1..k)
  BY <1>1, PositionsFinite DEF ByLine
<1> HIDE DEF f, g
<1>5. SumFunctionOnSet(f, 1..k) = SumFunctionOnSet(g, 1..k)
  BY <1>4, SumSame
<1> QED
  BY <1>2, <1>3, <1>5 DEF u, g

(* The lines before it leave a line what they do not take of the on-hand,   *)
(* so an automatic approval gives of an item what is asked or what there is.*)
LEMMA TrimmedQty ==
  ASSUME NEW row, Live(row), balance \in [Locator -> Int], NEW item \in Item
  PROVE  QtyOf(Trimmed(row), item)
           = Smaller(QtyOf(Moving(row), item), Larger(balance[<<item, row.src>>], 0))
<1> DEFINE s == Moving(row)
           n == Len(s)
           have == Larger(balance[<<item, row.src>>], 0)
           given == [i \in DOMAIN s |-> [s[i] EXCEPT !.qty = Given(row, i)]]
           S == {i \in DOMAIN given : given[i].qty > 0}
           qv == ByLine(s, item)
           gv == [i \in 1..n |-> IF s[i].item = item THEN Given(row, i) ELSE 0]
           f == [i \in DOMAIN given |-> given[i].qty]
           I == {i \in S : given[i].item = item}
           P(k) == SumFunctionOnSet(qv, 1..k)
           G(k) == SumFunctionOnSet(gv, 1..k)
<1>1. /\ s \in Seq(Line) /\ n \in Nat /\ DOMAIN s = 1..n /\ Carries(s)
      /\ \A i \in 1..n : s[i] \in Line /\ s[i].item \in Item /\ s[i].qty \in Nat
  <2>1. s \in Seq(Line) /\ Carries(s)
    BY MovingIn
  <2> HIDE DEF s
  <2> QED
    BY <2>1 DEF Carries
<1>2. have \in Nat
  <2>1. <<item, row.src>> \in Locator
    BY LocatorAssumption DEF Live
  <2> QED
    BY <2>1 DEF Larger
<1>3. Trimmed(row) = Chosen(given, S)
  BY DEF Trimmed, Where, Chosen
<1>4. ASSUME NEW i \in 1..n
      PROVE  /\ Given(row, i) \in Nat
             /\ s[i].item = item => Given(row, i) = Larger(Smaller(s[i].qty, have - P(i - 1)), 0)
  <2> DEFINE h == Larger(balance[<<s[i].item, row.src>>], 0)
             b == QtyOf(SubSeq(s, 1, i - 1), s[i].item)
  <2>1. Given(row, i) = Larger(Smaller(s[i].qty, h - b), 0)
    BY DEF Given
  <2>2. i - 1 \in 0..n /\ s[i].item \in Item /\ s[i].qty \in Nat
    BY <1>1
  <2>3. b \in Nat /\ (s[i].item = item => b = P(i - 1))
    <3> HIDE DEF s
    <3> QED
      BY <1>1, <2>2, QtyUpTo
  <2>4. h \in Int
    <3>1. <<s[i].item, row.src>> \in Locator
      BY <2>2, LocatorAssumption DEF Live
    <3> QED
      BY <3>1 DEF Larger
  <2>5. s[i].item = item => h = have
    OBVIOUS
  <2> HIDE DEF h, b, s, have, P
  <2>6. Given(row, i) \in Nat
    BY <2>1, <2>2, <2>3, <2>4 DEF Larger, Smaller
  <2> QED
    BY <2>1, <2>3, <2>5, <2>6
<1> HIDE DEF s, n, have
<1>5. /\ given \in [1..n -> Line \cup [id : Nat, item : Item, qty : Nat]]
      /\ \A i \in 1..n : given[i].item = s[i].item /\ given[i].qty = Given(row, i)
  <2>1. ASSUME NEW i \in 1..n
        PROVE  /\ [s[i] EXCEPT !.qty = Given(row, i)] \in [id : Nat, item : Item, qty : Nat]
               /\ [s[i] EXCEPT !.qty = Given(row, i)].item = s[i].item
               /\ [s[i] EXCEPT !.qty = Given(row, i)].qty = Given(row, i)
    BY <1>1, <1>4 DEF Line
  <2> QED
    BY <1>1, <2>1
<1> HIDE DEF given
<1>6. Len(given) = n /\ DOMAIN given = 1..n /\ Lined(given)
  <2>1. Len(given) = n /\ DOMAIN given = 1..n
    BY <1>1, <1>5
  <2> QED
    BY <1>1, <1>4, <1>5, <2>1 DEF Lined
<1>7. QtyOf(Trimmed(row), item) = SumFunctionOnSet(f, I)
  <2>1. S \in SUBSET (DOMAIN given)
    OBVIOUS
  <2> HIDE DEF S
  <2> QED
    BY <1>3, <1>6, <2>1, ChosenQty
<1>8. SumFunctionOnSet(f, I) = G(n)
  <2>1. /\ IsFiniteSet(1..n) /\ I \in SUBSET (1..n) /\ \A i \in 1..n : gv[i] \in Int
        /\ \A i \in (1..n) \ I : gv[i] = 0
        /\ \A i \in I : f[i] = gv[i]
    <3>1. IsFiniteSet(1..n)
      BY <1>1, PositionsFinite
    <3>2. I \in SUBSET (1..n)
      BY <1>6
    <3>3. \A i \in 1..n : i \in I <=> (Given(row, i) > 0 /\ s[i].item = item)
      BY <1>5, <1>6
    <3>4. \A i \in 1..n : gv[i] \in Int /\ (i \notin I => gv[i] = 0)
      BY <1>4, <3>3
    <3>5. \A i \in 1..n : f[i] = Given(row, i)
      BY <1>5, <1>6
    <3> QED
      BY <3>1, <3>2, <3>3, <3>4, <3>5
  <2>2. IsFiniteSet(I)
    BY <2>1, FS_Subset
  <2> HIDE DEF f, I, gv
  <2>3. SumFunctionOnSet(f, I) = SumFunctionOnSet(gv, I)
    BY <2>1, <2>2, SumSame
  <2>4. SumFunctionOnSet(gv, 1..n) = SumFunctionOnSet(gv, I)
    BY <2>1, SumSupport
  <2> QED
    BY <2>3, <2>4
<1>9. ASSUME NEW k \in 0..n, k < n
      PROVE  /\ P(k + 1) = P(k) + qv[k + 1] /\ P(k) \in Nat /\ qv[k + 1] \in Nat
             /\ G(k + 1) = G(k) + gv[k + 1]
  <2>1. k + 1 \in 1..n /\ k \in Nat
    BY <1>1, <1>9
  <2>3. \A i \in 1..(k + 1) : qv[i] \in Int /\ gv[i] \in Int /\ qv[k + 1] \in Nat
    <3>1. \A i \in 1..(k + 1) : i \in 1..n
      BY <1>1, <2>1
    <3> QED
      BY <1>1, <1>4, <2>1, <3>1 DEF ByLine, n
  <2>4. P(k) \in Nat
    BY <1>1, QtyUpTo DEF n
  <2>5. qv[k + 1] \in Nat
    <3>1. k + 1 \in 1..(k + 1)
      BY <2>1
    <3> QED
      BY <2>3, <3>1
  <2> HIDE DEF qv, gv
  <2>6. /\ SumFunctionOnSet(qv, 1..(k + 1)) = SumFunctionOnSet(qv, 1..k) + qv[k + 1]
        /\ SumFunctionOnSet(gv, 1..(k + 1)) = SumFunctionOnSet(gv, 1..k) + gv[k + 1]
    BY <2>1, <2>3, SumNext
  <2> QED
    BY <2>1, <2>4, <2>5, <2>6
<1> DEFINE Good == {k \in 0..n : G(k) = Smaller(P(k), have)}
<1>10. 0 \in Good
  <2>1. 1..0 = {} /\ 0 \in 0..n
    BY <1>1
  <2>2. P(0) = 0 /\ G(0) = 0
    <3> HIDE DEF qv, gv
    <3> QED
      BY <2>1, SumEmpty
  <2> HIDE DEF P, G
  <2> QED
    BY <1>2, <2>1, <2>2 DEF Smaller
<1>11. ASSUME NEW k \in 0..n, k \in Good, k < n PROVE k + 1 \in Good
  <2>1. k + 1 \in 1..n /\ k + 1 \in 0..n /\ (k + 1) - 1 = k
    BY <1>1, <1>11
  <2>2. /\ gv[k + 1] = IF s[k + 1].item = item THEN Given(row, k + 1) ELSE 0
        /\ qv[k + 1] = IF s[k + 1].item = item THEN s[k + 1].qty ELSE 0
    BY <2>1 DEF ByLine, n
  <2>3. /\ s[k + 1].qty \in Nat
        /\ s[k + 1].item = item =>
              Given(row, k + 1) = Larger(Smaller(s[k + 1].qty, have - P(k)), 0)
    BY <1>1, <1>4, <2>1
  <2>4. /\ P(k + 1) = P(k) + qv[k + 1] /\ P(k) \in Nat
        /\ G(k + 1) = G(k) + gv[k + 1] /\ G(k) = Smaller(P(k), have)
    BY <1>9, <1>11
  <2> HIDE DEF P, G, qv, gv
  <2>5. G(k + 1) = Smaller(P(k + 1), have)
    BY <1>2, <2>2, <2>3, <2>4 DEF Smaller, Larger
  <2> QED
    BY <2>1, <2>5
<1>12. n \in Good
  <2> HIDE DEF Good
  <2> QED
    BY <1>1, <1>10, <1>11, UpTo
<1>13. P(n) = QtyOf(s, item)
  BY <1>1, CarriesLined, QtyByLine DEF n
<1>14. G(n) = Smaller(P(n), have)
  BY <1>12
<1> HIDE DEF P, G
<1> QED
  BY <1>7, <1>8, <1>13, <1>14 DEF s, have

-----------------------------------------------------------------------------
(* One request at a time.  What a request has read is then still what the   *)
(* rows say when it commits, and what it has posted and has yet to post is  *)
(* what its transfer lacks.                                                 *)
OneServed == \A t, u \in Txn : t = u \/ req[t] = Null \/ req[u] = Null

(* A request about a transfer is being served.                              *)
Serving(t) == req[t] # Null /\ req[t].op # "sell"

(* The requests that edit the lines.                                        *)
Edits == {"add_line", "set_line", "remove_line"}

(* Trimmed for any on-hand.                                                 *)
GivenOf(hand, row, i) ==
    LET line == Moving(row)[i]
        have == Larger(hand[<<line.item, row.src>>], 0)
        before == QtyOf(SubSeq(Moving(row), 1, i - 1), line.item)
    IN  Larger(Smaller(line.qty, have - before), 0)

(* The lines cut down to what is given, and those that are left.            *)
CutDown(hand, row) ==
    [i \in DOMAIN Moving(row) |-> [Moving(row)[i] EXCEPT !.qty = GivenOf(hand, row, i)]]

TrimmedTo(hand, row) ==
    Chosen(CutDown(hand, row), {i \in DOMAIN CutDown(hand, row) : CutDown(hand, row)[i].qty > 0})

(* Trimmed is this for the balance.                                         *)
LEMMA TrimmedIs == ASSUME NEW row PROVE Trimmed(row) = TrimmedTo(balance, row)
BY DEF Trimmed, Given, Where, TrimmedTo, CutDown, GivenOf, Chosen

(* What a request has read is what the rows say now.                        *)
ReadNow(t) ==
    LET d == req[t].doc
        seen == req[t].seen
        op == req[t].op
    IN
    /\ d \in Doc /\ seen = transfer[d] /\ req[t].status = status[d] /\ Exists(d)
    /\ op \in {"approve", "auto", "reject"} \cup Edits => status[d] = "pending"
    /\ op \in {"cancel", "revise"} => status[d] = "approved"
    /\ op = "approve" => req[t].ask = Moving(seen)
    /\ op = "auto" => req[t].ask = TrimmedTo(balance, seen)

(* What a request is to add to the movements of its transfer.               *)
Wanted(r, l) ==
    IF r.op \in {"approve", "auto"} THEN Flow(r.ask, r.seen.src, r.seen.dst, l)
    ELSE IF r.op = "revise" THEN Flow(r.ask.lines, r.ask.src, r.ask.dst, l) - Asked(r.seen, l)
    ELSE 0

(* The movement being posted.                                               *)
Coming(t, l) ==
    IF pc[t] \in {"lock", "insert", "post"} /\ call[t].loc = l THEN Signed(call[t]) ELSE 0

(* What is posted, being posted and yet to be posted is all that is wanted. *)
OnItsWay(t) ==
    \A l \in Locator : delta[t][l] + Coming(t, l) + Sum(todo[t], l) = Wanted(req[t], l)

(* The lines of a transfer have ids of their own.                           *)
OwnIds(row) ==
    /\ \A i, j \in DOMAIN row.lines : row.lines[i].id = row.lines[j].id => i = j
    /\ \A i \in DOMAIN row.lines : row.lines[i].id < row.nextId

(* The invariant of requests served one at a time.                          *)
ReadsNow == \A t \in Txn : Serving(t) => ReadNow(t)
MovesWanted == \A t \in Txn : Serving(t) => OnItsWay(t)
LinesApart == \A d \in Doc : OwnIds(transfer[d])

AInv == OneServed /\ ReadsNow /\ MovesWanted /\ LinesApart /\ MovedAsApproved

-----------------------------------------------------------------------------
(* Lines that say the same carry the same.                                  *)
LEMMA QtySame ==
  ASSUME NEW s, Lined(s), NEW u, Lined(u), Len(s) = Len(u),
         \A i \in 1..Len(s) : s[i].item = u[i].item /\ s[i].qty = u[i].qty, NEW item
  PROVE  QtyOf(s, item) = QtyOf(u, item)
<1>1. ByLine(s, item) = ByLine(u, item)
  BY DEF ByLine
<1> QED
  BY <1>1, QtyByLine

(* Lines that carry the same bring the same.                                *)
LEMMA FlowSame ==
  ASSUME NEW s, NEW u, NEW l, QtyOf(s, l[1]) = QtyOf(u, l[1]), NEW from, NEW to
  PROVE  Flow(s, from, to, l) = Flow(u, from, to, l)
BY DEF Flow

(* Nothing is chosen from no positions.                                     *)
LEMMA ChosenNone == ASSUME NEW s PROVE Chosen(s, {}) = <<>>
<1>1. Ascending({}) \in [1..0 -> {}] /\ {} \in SUBSET (1..0)
  <2>1. {} \in SUBSET (1..0) /\ Cardinality({}) = 0
    BY FS_EmptySet
  <2> QED
    BY <2>1, AscendingIn
<1>2. DOMAIN Ascending({}) = 1..0
  BY <1>1
<1>3. Chosen(s, {}) = [k \in 1..0 |-> s[Ascending({})[k]]]
  BY <1>2 DEF Chosen
<1> QED
  BY <1>3

(* Ids stay apart in what remains of the lines.                             *)
LEMMA OwnIdsChosen ==
  ASSUME NEW s, Len(s) \in Nat, DOMAIN s = 1..Len(s), NEW S \in SUBSET (DOMAIN s), NEW n,
         \A i, j \in DOMAIN s : s[i].id = s[j].id => i = j,
         \A i \in DOMAIN s : s[i].id < n
  PROVE  LET ch == Chosen(s, S) IN
         /\ \A j, k \in DOMAIN ch : ch[j].id = ch[k].id => j = k
         /\ \A k \in DOMAIN ch : ch[k].id < n
<1> DEFINE a == Ascending(S)
           c == Cardinality(S)
           ch == Chosen(s, S)
<1>1. /\ c \in Nat /\ DOMAIN ch = 1..c /\ a \in [1..c -> S]
      /\ \A k \in 1..c : ch[k] = s[a[k]]
  BY ChosenParts
<1>2. \A j, k \in 1..c : a[j] = a[k] => j = k
  BY AscendingOnto
<1> HIDE DEF a, c, ch
<1>3. \A k \in 1..c : a[k] \in DOMAIN s
  BY <1>1
<1> QED
  BY <1>1, <1>2, <1>3 DEF ch

(* Numbering gives ids of their own, and changes nothing else.              *)
LEMMA NumberedParts ==
  ASSUME NEW s \in Seq(AskedLine), NEW from \in Nat
  PROVE  LET u == Numbered(s, from) IN
         /\ Len(u) = Len(s) /\ Len(s) \in Nat /\ DOMAIN u = 1..Len(s) /\ Lined(u)
         /\ \A i \in 1..Len(s) : /\ u[i].item = s[i].item /\ u[i].qty = s[i].qty
                                 /\ u[i].id = from + i - 1
         /\ \A i, j \in DOMAIN u : u[i].id = u[j].id => i = j
         /\ \A i \in DOMAIN u : from =< u[i].id /\ u[i].id < from + Len(s)
         /\ \A item : QtyOf(u, item) = QtyOf(s, item)
<1> DEFINE u == Numbered(s, from)
<1>1. Len(s) \in Nat /\ DOMAIN s = 1..Len(s) /\ Lined(s)
  BY LinesCarry, CarriesLined
<1>2. u = [i \in DOMAIN s |-> [id |-> from + i - 1, item |-> s[i].item, qty |-> s[i].qty]]
  BY DEF Numbered
<1> HIDE DEF u
<1>3. Len(u) = Len(s) /\ DOMAIN u = 1..Len(s)
  BY <1>1, <1>2
<1>4. \A i \in 1..Len(s) : /\ u[i].item = s[i].item /\ u[i].qty = s[i].qty
                           /\ u[i].id = from + i - 1
  BY <1>1, <1>2
<1>5. Lined(u)
  BY <1>1, <1>3, <1>4 DEF Lined
<1>6. \A i, j \in DOMAIN u : u[i].id = u[j].id => i = j
  BY <1>1, <1>3, <1>4
<1>7. \A i \in DOMAIN u : from =< u[i].id /\ u[i].id < from + Len(s)
  BY <1>1, <1>3, <1>4
<1>8. ASSUME NEW item PROVE QtyOf(u, item) = QtyOf(s, item)
  BY <1>1, <1>3, <1>4, <1>5, QtySame
<1> QED
  BY <1>1, <1>3, <1>4, <1>5, <1>6, <1>7, <1>8 DEF u

-----------------------------------------------------------------------------
(* A step that writes no document and no on-hand keeps the invariant if it  *)
(* does for the request it serves.                                          *)
LEMMA KeptAlone ==
  ASSUME AInv, OneServed', NEW t \in Txn, UNCHANGED docVars, balance' = balance, Others(t),
         Serving(t)' => ReadNow(t)' /\ OnItsWay(t)'
  PROVE  AInv'
<1>1. status' = status /\ transfer' = transfer /\ moved' = moved
  BY DEF docVars
<1>2. ASSUME NEW u \in Txn \ {t}, Serving(u)' PROVE ReadNow(u)' /\ OnItsWay(u)'
  <2>1. /\ req'[u] = req[u] /\ todo'[u] = todo[u] /\ pc'[u] = pc[u]
        /\ call'[u] = call[u] /\ delta'[u] = delta[u]
    BY DEF Others
  <2>2. Serving(u) /\ ReadNow(u) /\ OnItsWay(u)
    BY <1>2, <2>1 DEF AInv, ReadsNow, MovesWanted, Serving
  <2>3. ReadNow(u)'
    BY <1>1, <2>1, <2>2 DEF ReadNow, Exists
  <2>4. OnItsWay(u)'
    BY <2>1, <2>2 DEF OnItsWay, Coming
  <2> QED
    BY <2>3, <2>4
<1>3. ReadsNow' /\ MovesWanted'
  BY <1>2 DEF ReadsNow, MovesWanted
<1>4. LinesApart' /\ MovedAsApproved'
  BY <1>1 DEF AInv, LinesApart, MovedAsApproved
<1> QED
  BY <1>3, <1>4 DEF AInv

(* A request about a transfer begins: its plan is all it is to add.         *)
LEMMA ServeAlone ==
  ASSUME TInv, AInv, OneServed', NEW t \in Txn, NEW op, op # "sell", NEW d \in Doc, NEW ask,
         NEW plan, Serve(t, op, d, ask, plan), Exists(d),
         op \in {"approve", "auto", "reject"} \cup Edits => status[d] = "pending",
         op \in {"cancel", "revise"} => status[d] = "approved",
         op = "approve" => ask = Moving(transfer[d]),
         op = "auto" => ask = TrimmedTo(balance, transfer[d]),
         plan \in Seq(Posting),
         \A l \in Locator : Sum(plan, l) =
            IF op \in {"approve", "auto"} THEN Flow(ask, transfer[d].src, transfer[d].dst, l)
            ELSE IF op = "revise" THEN Flow(ask.lines, ask.src, ask.dst, l) - Asked(transfer[d], l)
            ELSE 0
  PROVE  AInv'
<1> DEFINE r == [op |-> op, doc |-> d, status |-> status[d], seen |-> transfer[d], ask |-> ask]
<1>1. /\ Begin(t) /\ req' = [req EXCEPT ![t] = r] /\ todo' = [todo EXCEPT ![t] = plan]
      /\ UNCHANGED docVars
  BY DEF Serve
<1>2. r.op = op /\ r.doc = d /\ r.status = status[d] /\ r.seen = transfer[d] /\ r.ask = ask
  OBVIOUS
<1> HIDE DEF r
<1>3. req'[t] = r /\ todo'[t] = plan /\ pc'[t] = "open" /\ delta'[t] = NoDelta /\ balance' = balance
  BY <1>1 DEF Begin, TInv, TypeOK, PInv, Shapes, Unstarted
<1>4. Others(t)
  BY <1>1 DEF Begin, TInv, TypeOK, PInv, Shapes, Others
<1>5. status' = status /\ transfer' = transfer
  BY <1>1 DEF docVars
<1>6. ReadNow(t)'
  BY <1>2, <1>3, <1>5 DEF ReadNow, Exists
<1>7. OnItsWay(t)'
  <2>1. ASSUME NEW l \in Locator
        PROVE  delta'[t][l] = 0 /\ Coming(t, l)' = 0 /\ Sum(plan, l) \in Int
    <3>1. Sum(plan, l) \in Int
      BY SumAtLocator
    <3> QED
      BY <1>3, <3>1 DEF NoDelta, Coming
  <2>2. ASSUME NEW l \in Locator PROVE Sum(plan, l) = Wanted(r, l)
    BY <1>2 DEF Wanted
  <2> QED
    BY <1>3, <2>1, <2>2 DEF OnItsWay
<1> QED
  BY <1>1, <1>3, <1>4, <1>6, <1>7, KeptAlone

(* The request of each kind begins.                                         *)
LEMMA StartAlone ==
  ASSUME TInv, AInv, OneServed', NEW t \in Txn, NEW d \in Doc, Start(t, d)
  PROVE  AInv'
<1>1. status[d] \in {"pending", "approved"} => Exists(d) /\ Live(transfer[d])
  BY DEF TInv, Rows, Exists
<1>2. balance \in [Locator -> Int]
  BY DEF TInv, TypeOK
<1>3. CASE StartApprove(t, d)
  <2>1. /\ status[d] = "pending" /\ Exists(d) /\ Live(transfer[d])
        /\ transfer[d].src \in Place /\ transfer[d].dst \in Place
    BY <1>1, <1>3 DEF StartApprove, Live
  <2> DEFINE s == Moving(transfer[d])
             plan == Moves(s, transfer[d].src, transfer[d].dst)
  <2>2. Carries(s)
    BY <2>1, MovingIn
  <2>3. Serve(t, "approve", d, s, plan)
    BY <1>3 DEF StartApprove
  <2> HIDE DEF s
  <2>4. plan \in Seq(Posting)
    BY <2>1, <2>2, MovesPaired
  <2>5. ASSUME NEW l \in Locator
        PROVE  Sum(plan, l) = Flow(s, transfer[d].src, transfer[d].dst, l)
    BY <2>1, <2>2, MovesFlow
  <2> HIDE DEF plan
  <2>6. s = Moving(transfer[d])
    BY DEF s
  <2> QED
    BY <2>1, <2>3, <2>4, <2>5, <2>6, ServeAlone DEF Edits
<1>4. CASE StartAutoApprove(t, d)
  <2>1. /\ status[d] = "pending" /\ Exists(d) /\ Live(transfer[d])
        /\ transfer[d].src \in Place /\ transfer[d].dst \in Place
    BY <1>1, <1>4 DEF StartAutoApprove, Live
  <2> DEFINE s == Trimmed(transfer[d])
             plan == Moves(s, transfer[d].src, transfer[d].dst)
  <2>2. Carries(s)
    BY <1>2, <2>1, TrimmedIn, LinesCarry
  <2>3. Serve(t, "auto", d, s, plan)
    BY <1>4 DEF StartAutoApprove
  <2>4. s = TrimmedTo(balance, transfer[d])
    BY TrimmedIs
  <2> HIDE DEF s
  <2>5. plan \in Seq(Posting)
    BY <2>1, <2>2, MovesPaired
  <2>6. ASSUME NEW l \in Locator
        PROVE  Sum(plan, l) = Flow(s, transfer[d].src, transfer[d].dst, l)
    BY <2>1, <2>2, MovesFlow
  <2> HIDE DEF plan
  <2> QED
    BY <2>1, <2>3, <2>4, <2>5, <2>6, ServeAlone DEF Edits
<1>5. ASSUME NEW op \in {"cancel", "delete", "reject"} \cup Edits, NEW ask,
             Serve(t, op, d, ask, <<>>), Exists(d),
             op \in {"reject"} \cup Edits => status[d] = "pending",
             op = "cancel" => status[d] = "approved"
      PROVE  AInv'
  <2>1. <<>> \in Seq(Posting) /\ \A l \in Locator : Sum(<<>>, l) = 0
    BY SumNone
  <2>2. op \notin {"sell", "approve", "auto", "revise"}
    BY <1>5 DEF Edits
  <2>3. /\ op \in {"approve", "auto", "reject"} \cup Edits => status[d] = "pending"
        /\ op \in {"cancel", "revise"} => status[d] = "approved"
    BY <1>5, <2>2
  <2> DEFINE plan == <<>>
  <2>4. Serve(t, op, d, ask, plan) /\ plan \in Seq(Posting) /\ \A l \in Locator : Sum(plan, l) = 0
    BY <1>5, <2>1
  <2> HIDE DEF plan
  <2> QED
    BY <1>5, <2>2, <2>3, <2>4, ServeAlone
<1>6. CASE StartCancel(t, d) \/ StartDelete(t, d) \/ StartReject(t, d)
  <2>1. PICK op \in {"cancel", "delete", "reject"} :
           /\ Serve(t, op, d, <<>>, <<>>) /\ Exists(d)
           /\ op = "reject" => status[d] = "pending"
           /\ op = "cancel" => status[d] = "approved"
    BY <1>1, <1>6 DEF StartCancel, StartDelete, StartReject
  <2>2. op \in {"cancel", "delete", "reject"} \cup Edits /\ op \notin Edits
    BY DEF Edits
  <2> QED
    BY <1>5, <2>1, <2>2
<1>7. ASSUME NEW r \in Revision, StartRevise(t, d, r) PROVE AInv'
  <2>1. status[d] = "approved" /\ Exists(d) /\ Live(transfer[d])
    BY <1>1, <1>7 DEF StartRevise
  <2> DEFINE plan == RevisionPlan(transfer[d], r)
  <2>2. Serve(t, "revise", d, r, plan)
    BY <1>7 DEF StartRevise
  <2>3. plan \in Seq(Posting)
    BY <2>1, RevisionPlanPaired
  <2>4. ASSUME NEW l \in Locator
        PROVE  Sum(plan, l) = Flow(r.lines, r.src, r.dst, l) - Asked(transfer[d], l)
    BY <2>1, RevisionFlow
  <2> HIDE DEF plan
  <2> QED
    BY <2>1, <2>2, <2>3, <2>4, ServeAlone DEF Edits
<1>8. ASSUME NEW line \in Edit, StartAddLine(t, d, line) PROVE AInv'
  BY <1>1, <1>5, <1>8 DEF StartAddLine, Edits
<1>9. ASSUME NEW id,
             StartRemoveLine(t, d, id) \/ \E line \in Edit : StartSetLine(t, d, id, line)
      PROVE  AInv'
  BY <1>1, <1>5, <1>9 DEF StartRemoveLine, StartSetLine, Edits
<1> QED
  BY <1>3, <1>4, <1>6, <1>7, <1>8, <1>9 DEF Start

(* A sale is about no transfer.                                             *)
LEMMA StartSaleAlone ==
  ASSUME TInv, AInv, OneServed', NEW t \in Txn, NEW item \in Item, NEW p \in Place,
         NEW q \in Qty, StartSale(t, item, p, q)
  PROVE  AInv'
<1> DEFINE r == [op |-> "sell", doc |-> Null, status |-> "none", seen |-> NoRow, ask |-> <<>>]
<1>1. Begin(t) /\ req' = [req EXCEPT ![t] = r] /\ r.op = "sell" /\ UNCHANGED docVars
  BY DEF StartSale
<1> HIDE DEF r
<1>2. req'[t] = r /\ balance' = balance
  BY <1>1 DEF Begin, TInv, PInv, Shapes
<1>3. Others(t)
  BY <1>1 DEF StartSale, Begin, TInv, TypeOK, PInv, Shapes, Others
<1>4. ~ Serving(t)'
  BY <1>1, <1>2 DEF Serving
<1> QED
  BY <1>1, <1>2, <1>3, <1>4, KeptAlone

-----------------------------------------------------------------------------
(* The next posting is on its way once it is called.                        *)
LEMMA PostAlone ==
  ASSUME TInv, AInv, OneServed', NEW t \in Txn, PostNext(t)
  PROVE  AInv'
<1> DEFINE c == Head(todo[t])
<1>1. /\ todo[t] # <<>> /\ c \in Call /\ pc[t] = "open" /\ pc'[t] = "lock"
      /\ call'[t] = c /\ todo'[t] = Tail(todo[t]) /\ req' = req /\ delta' = delta
      /\ balance' = balance /\ UNCHANGED docVars
  BY DEF PostNext, Request, TInv, TypeOK, PInv, Shapes
<1>2. Others(t)
  BY DEF PostNext, Request, TInv, TypeOK, PInv, Shapes, Others
<1>3. todo[t] \in Seq(Posting) /\ delta[t] \in [Locator -> Int]
  BY DEF TInv, TypeOK, Requests, RequestOK
<1>4. ASSUME Serving(t)' PROVE ReadNow(t)' /\ OnItsWay(t)'
  <2>1. ReadNow(t) /\ OnItsWay(t)
    BY <1>1, <1>4 DEF AInv, ReadsNow, MovesWanted, Serving
  <2>2. ReadNow(t)'
    BY <1>1, <2>1 DEF ReadNow, Exists, docVars
  <2>3. ASSUME NEW l \in Locator
        PROVE  delta'[t][l] + Coming(t, l)' + Sum(todo'[t], l) = Wanted(req'[t], l)
    <3>1. delta[t][l] + Coming(t, l) + Sum(todo[t], l) = Wanted(req[t], l)
      BY <2>1 DEF OnItsWay
    <3>2. Coming(t, l) = 0
      BY <1>1 DEF Coming
    <3>3. Coming(t, l)' = IF c.loc = l THEN Signed(c) ELSE 0
      BY <1>1 DEF Coming
    <3>4. Sum(todo[t], l) = (IF c.loc = l THEN Signed(c) ELSE 0) + Sum(Tail(todo[t]), l)
      BY <1>1, <1>3, SumHead
    <3>5. Sum(Tail(todo[t]), l) \in Int /\ Signed(c) \in Int /\ delta[t][l] \in Int
      <4>1. Tail(todo[t]) \in Seq(Posting)
        BY <1>1, <1>3, TailParts
      <4> QED
        BY <1>1, <1>3, <4>1, SumAtLocator, CallParts
    <3>6. todo'[t] = Tail(todo[t]) /\ req'[t] = req[t] /\ delta'[t][l] = delta[t][l]
      BY <1>1
    <3> HIDE DEF c
    <3> QED
      BY <3>1, <3>2, <3>3, <3>4, <3>5, <3>6
  <2>4. OnItsWay(t)'
    BY <2>3 DEF OnItsWay
  <2> QED
    BY <2>2, <2>4
<1> QED
  BY <1>1, <1>2, <1>4, KeptAlone

(* A movement that is inserted is no longer on its way.                     *)
LEMMA LedgerAlone ==
  ASSUME TInv, AInv, OneServed', NEW t \in Txn, LedgerStep(t)
  PROVE  AInv'
<1>1. req' = req /\ todo' = todo /\ UNCHANGED docVars /\ delta[t] \in [Locator -> Int]
      /\ todo[t] \in Seq(Posting)
  BY DEF LedgerStep, TInv, TypeOK, Requests, RequestOK
<1>2. balance' = balance
  BY DEF LedgerStep, LockLocator, MissLocator, InsertLocator, InsertMovement
<1>3. Others(t)
  BY <1>1 DEF LedgerStep, LockLocator, MissLocator, InsertLocator, InsertMovement, TInv, TypeOK,
              Others
<1>4. ASSUME NEW l \in Locator
      PROVE  delta'[t][l] + Coming(t, l)' = delta[t][l] + Coming(t, l)
  <2>1. CASE InsertMovement(t)
    <3> DEFINE c == call[t]
    <3>1. /\ pc[t] = "post" /\ pc'[t] = "open" /\ c \in Call
          /\ delta'[t] = [delta[t] EXCEPT ![c.loc] = @ + Signed(c)]
      BY <2>1 DEF InsertMovement, TInv, TypeOK
    <3>2. c.loc \in Locator /\ Signed(c) \in Int
      BY <3>1, CallParts
    <3>3. Coming(t, l) = (IF c.loc = l THEN Signed(c) ELSE 0) /\ Coming(t, l)' = 0
      BY <3>1 DEF Coming
    <3> HIDE DEF c
    <3>4. delta'[t][l] = delta[t][l] + (IF c.loc = l THEN Signed(c) ELSE 0)
      BY <1>1, <3>1, <3>2
    <3>5. delta[t][l] \in Int
      BY <1>1
    <3> QED
      BY <3>2, <3>3, <3>4, <3>5
  <2>2. CASE LockLocator(t) \/ MissLocator(t) \/ InsertLocator(t)
    <3>1. /\ pc[t] \in {"lock", "insert", "post"} /\ pc'[t] \in {"lock", "insert", "post"}
          /\ delta' = delta /\ call' = call
      BY <2>2 DEF LockLocator, MissLocator, InsertLocator, TInv, TypeOK
    <3>2. Coming(t, l)' = Coming(t, l)
      BY <3>1 DEF Coming
    <3> QED
      BY <3>1, <3>2
  <2> QED
    BY <2>1, <2>2 DEF LedgerStep
<1>5. ASSUME Serving(t)' PROVE ReadNow(t)' /\ OnItsWay(t)'
  <2>1. ReadNow(t) /\ OnItsWay(t)
    BY <1>1, <1>5 DEF AInv, ReadsNow, MovesWanted, Serving
  <2>2. ReadNow(t)'
    BY <1>1, <1>2, <2>1 DEF ReadNow, Exists, docVars
  <2>3. OnItsWay(t)'
    BY <1>1, <1>4, <2>1 DEF OnItsWay
  <2> QED
    BY <2>2, <2>3
<1> QED
  BY <1>1, <1>2, <1>3, <1>5, KeptAlone

(* A request that is refused serves nothing any more.                       *)
LEMMA AbortAlone ==
  ASSUME TInv, AInv, OneServed', NEW t \in Txn, LedgerAbort(t)
  PROVE  AInv'
<1>1. Release(t) /\ End(t) /\ UNCHANGED docVars /\ balance' = balance
  BY DEF LedgerAbort, LocatorTaken, NotEnough, Rollback, DeadlockVictim, Abort
<1>2. req'[t] = Null
  BY <1>1 DEF End, TInv, PInv, Shapes
<1>3. Others(t)
  BY <1>1 DEF Release, End, TInv, TypeOK, PInv, Shapes, Others
<1>4. ~ Serving(t)'
  BY <1>2 DEF Serving
<1> QED
  BY <1>1, <1>3, <1>4, KeptAlone

-----------------------------------------------------------------------------
(* A request that commits has read what the rows still say, and posted all  *)
(* it was to add.                                                           *)
LEMMA ReadyAlone ==
  ASSUME TInv, AInv, NEW t \in Txn, NEW op, op # "sell", Ready(t, op), pc[t] = "open"
  PROVE  /\ req[t].op = op /\ op \in Ops /\ ReadNow(t)
         /\ \A l \in Locator : delta[t][l] = Wanted(req[t], l) /\ delta[t][l] \in Int
<1>1. req[t] # Null /\ req[t].op = op /\ todo[t] = <<>>
  BY DEF Ready
<1>2. Serving(t) /\ op \in Ops
  BY <1>1 DEF Serving, TInv, Requests, RequestOK
<1>3. ReadNow(t) /\ OnItsWay(t)
  BY <1>2 DEF AInv, ReadsNow, MovesWanted
<1>4. ASSUME NEW l \in Locator PROVE delta[t][l] = Wanted(req[t], l) /\ delta[t][l] \in Int
  <2>1. Coming(t, l) = 0 /\ Sum(todo[t], l) = 0
    BY <1>1, SumNone DEF Coming
  <2>2. delta[t][l] \in Int
    BY DEF TInv, TypeOK
  <2> QED
    BY <1>3, <2>1, <2>2 DEF OnItsWay
<1> QED
  BY <1>1, <1>2, <1>3, <1>4

(* No request is left when one has ended.                                   *)
LEMMA NoneServed ==
  ASSUME TInv, OneServed, NEW t \in Txn, req[t] # Null, End(t)
  PROVE  OneServed' /\ ReadsNow' /\ MovesWanted'
<1>1. ASSUME NEW u \in Txn PROVE req'[u] = Null
  BY DEF End, OneServed, TInv, PInv, Shapes
<1> QED
  BY <1>1 DEF OneServed, ReadsNow, MovesWanted, Serving

(* The document is written: its movements are as approved if the request    *)
(* added what the row written asks for beyond the row read.                 *)
LEMMA WriteAlone ==
  ASSUME TInv, AInv, NEW t \in Txn, NEW op, op # "sell", Ready(t, op), NEW st, NEW row,
         Write(t, st, row), OwnIds(row),
         \A l \in Locator :
            (IF status[req[t].doc] = "approved" THEN Asked(req[t].seen, l) ELSE 0) + Wanted(req[t], l)
               = IF st = "approved" THEN Asked(row, l) ELSE 0
  PROVE  AInv'
<1> DEFINE d == req[t].doc
<1>1. /\ pc[t] = "open" /\ req[t] # Null /\ End(t)
      /\ status' = [status EXCEPT ![d] = st]
      /\ transfer' = [transfer EXCEPT ![d] = row]
      /\ moved' = [moved EXCEPT ![d] = [l \in Locator |-> @[l] + delta[t][l]]]
  BY DEF Ready, Write, Commit
<1>2. /\ d \in Doc /\ req[t].seen = transfer[d]
      /\ \A l \in Locator : delta[t][l] = Wanted(req[t], l) /\ delta[t][l] \in Int
  BY <1>1, ReadyAlone DEF ReadNow
<1>3. /\ status \in [Doc -> Status] /\ moved \in [Doc -> [Locator -> Int]]
      /\ transfer \in [Doc -> Row]
  BY DEF TInv, PInv, Shapes, Rows
<1>4. OneServed' /\ ReadsNow' /\ MovesWanted'
  BY <1>1, NoneServed DEF AInv
<1>5. LinesApart'
  BY <1>1, <1>3 DEF AInv, LinesApart
<1>6. moved[d] = IF status[d] = "approved" THEN [l \in Locator |-> Asked(transfer[d], l)] ELSE NoDelta
  BY <1>2 DEF AInv, MovedAsApproved
<1>7. ASSUME NEW l \in Locator
      PROVE  moved[d][l] + delta[t][l] = IF st = "approved" THEN Asked(row, l) ELSE 0
  <2>1. moved[d][l] = IF status[d] = "approved" THEN Asked(req[t].seen, l) ELSE 0
    BY <1>2, <1>6 DEF NoDelta
  <2> QED
    BY <1>2, <2>1
<1>8. moved'[d] = [l \in Locator |-> moved[d][l] + delta[t][l]]
  BY <1>1, <1>2, <1>3
<1>9. moved'[d] = IF st = "approved" THEN [l \in Locator |-> Asked(row, l)] ELSE NoDelta
  <2>1. CASE st = "approved"
    BY <1>7, <1>8, <2>1
  <2>2. CASE st # "approved"
    BY <1>7, <1>8, <2>2 DEF NoDelta
  <2> QED
    BY <2>1, <2>2
<1>10. status'[d] = st /\ transfer'[d] = row
  BY <1>1, <1>2, <1>3
<1>11. ASSUME NEW e \in Doc, e # d
       PROVE  moved'[e] = moved[e] /\ status'[e] = status[e] /\ transfer'[e] = transfer[e]
  BY <1>1, <1>3, <1>11
<1> HIDE DEF d
<1>12. MovedAsApproved'
  <2>1. ASSUME NEW e \in Doc
        PROVE  moved'[e] = IF status'[e] = "approved"
                           THEN [l \in Locator |-> Asked(transfer'[e], l)] ELSE NoDelta
    <3>1. CASE e = d
      BY <1>9, <1>10, <3>1
    <3>2. CASE e # d
      <4>1. moved[e] = IF status[e] = "approved"
                       THEN [l \in Locator |-> Asked(transfer[e], l)] ELSE NoDelta
        BY DEF AInv, MovedAsApproved
      <4> QED
        BY <1>11, <3>2, <4>1
    <3> QED
      BY <3>1, <3>2
  <2>2. NoDelta' = NoDelta
    BY DEF NoDelta
  <2> QED
    BY <2>1, <2>2 DEF MovedAsApproved
<1> QED
  BY <1>4, <1>5, <1>12 DEF AInv

(* The movements are dropped, and the transfer is approved no more.         *)
LEMMA DropAlone ==
  ASSUME TInv, AInv, NEW t \in Txn, NEW op, op # "sell", Ready(t, op), NEW st,
         st # "approved", NEW row, DropMovements(t, st, row), OwnIds(row)
  PROVE  AInv'
<1> DEFINE d == req[t].doc
<1>1. /\ req[t] # Null /\ End(t)
      /\ status' = [status EXCEPT ![d] = st]
      /\ transfer' = [transfer EXCEPT ![d] = row]
      /\ moved' = [moved EXCEPT ![d] = NoDelta]
  BY DEF Ready, DropMovements
<1>2. /\ status \in [Doc -> Status] /\ moved \in [Doc -> [Locator -> Int]]
      /\ transfer \in [Doc -> Row]
  BY DEF TInv, PInv, Shapes, Rows
<1>3. OneServed' /\ ReadsNow' /\ MovesWanted'
  BY <1>1, NoneServed DEF AInv
<1>4. LinesApart'
  BY <1>1, <1>2 DEF AInv, LinesApart
<1> HIDE DEF d
<1>5. ASSUME NEW e \in Doc
      PROVE  moved'[e] = IF status'[e] = "approved"
                         THEN [l \in Locator |-> Asked(transfer'[e], l)] ELSE NoDelta
  <2>1. CASE e = d
    BY <1>1, <1>2, <2>1
  <2>2. CASE e # d
    <3>1. moved[e] = IF status[e] = "approved"
                     THEN [l \in Locator |-> Asked(transfer[e], l)] ELSE NoDelta
      BY DEF AInv, MovedAsApproved
    <3> QED
      BY <1>1, <1>2, <2>2, <3>1
  <2> QED
    BY <2>1, <2>2
<1>6. MovedAsApproved'
  <2>1. NoDelta' = NoDelta
    BY DEF NoDelta
  <2> QED
    BY <1>5, <2>1 DEF MovedAsApproved
<1> QED
  BY <1>3, <1>4, <1>6 DEF AInv

(* The requests that leave the row as it is, or drop it.                    *)
LEMMA PlainAlone ==
  ASSUME TInv, AInv, NEW t \in Txn,
         FinishApprove(t) \/ FinishCancel(t) \/ FinishDelete(t) \/ FinishReject(t)
  PROVE  AInv'
<1> DEFINE d == req[t].doc
<1>1. d \in Doc => OwnIds(transfer[d])
  BY DEF AInv, LinesApart
<1>2. OwnIds(NoRow)
  BY DEF OwnIds, NoRow
<1>3. CASE FinishApprove(t)
  <2>1. Ready(t, "approve") /\ Write(t, "approved", transfer[d]) /\ pc[t] = "open"
    BY <1>3 DEF FinishApprove, Write, Commit
  <2>2. req[t].op = "approve" /\ ReadNow(t)
    BY <2>1, ReadyAlone
  <2>3. /\ d \in Doc /\ req[t].seen = transfer[d] /\ status[d] = "pending"
        /\ req[t].ask = Moving(req[t].seen)
    BY <2>2 DEF ReadNow
  <2>4. ASSUME NEW l \in Locator PROVE Wanted(req[t], l) = Asked(transfer[d], l) /\ Asked(transfer[d], l) \in Int
    <3>1. Wanted(req[t], l) = Asked(transfer[d], l)
      BY <2>2, <2>3 DEF Wanted, Asked
    <3> QED
      BY <2>1, <3>1, ReadyAlone
  <2> HIDE DEF d
  <2>5. ASSUME NEW l \in Locator
        PROVE  (IF status[req[t].doc] = "approved" THEN Asked(req[t].seen, l) ELSE 0) + Wanted(req[t], l)
                 = IF "approved" = "approved" THEN Asked(transfer[d], l) ELSE 0
    BY <2>3, <2>4 DEF d
  <2> QED
    BY <1>1, <2>1, <2>3, <2>5, WriteAlone
<1>4. CASE FinishCancel(t)
  <2>1. Ready(t, "cancel") /\ DropMovements(t, "reversed", transfer[d]) /\ pc[t] = "open"
    BY <1>4 DEF FinishCancel, DropMovements
  <2>2. d \in Doc
    BY <2>1, ReadyAlone DEF ReadNow
  <2> HIDE DEF d
  <2> QED
    BY <1>1, <2>1, <2>2, DropAlone
<1>5. ASSUME NEW op \in {"delete", "reject"}, Ready(t, op), pc[t] = "open", status[d] # "approved",
             NEW st, st # "approved", NEW row, OwnIds(row), Write(t, st, row)
      PROVE  AInv'
  <2>1. req[t].op = op
    BY <1>5, ReadyAlone
  <2>2. \A l \in Locator : Wanted(req[t], l) = 0
    BY <2>1 DEF Wanted
  <2>3. \A l \in Locator :
           (IF status[req[t].doc] = "approved" THEN Asked(req[t].seen, l) ELSE 0) + Wanted(req[t], l)
              = IF st = "approved" THEN Asked(row, l) ELSE 0
    BY <1>5, <2>2
  <2> QED
    BY <1>5, <2>3, WriteAlone
<1>6. CASE FinishDelete(t)
  <2>1. Ready(t, "delete") /\ pc[t] = "open"
    BY <1>6 DEF FinishDelete, DropMovements, Write, Commit
  <2>2. req[t].status = status[d]
    BY <2>1, ReadyAlone DEF ReadNow
  <2>3. CASE DropMovements(t, "deleted", NoRow)
    BY <1>2, <2>1, <2>3, DropAlone
  <2>4. CASE req[t].status # "approved" /\ Write(t, "deleted", NoRow)
    BY <1>2, <1>5, <2>1, <2>2, <2>4
  <2> QED
    BY <1>6, <2>3, <2>4 DEF FinishDelete
<1>7. CASE FinishReject(t)
  <2>1. Ready(t, "reject") /\ Write(t, "rejected", transfer[d]) /\ pc[t] = "open"
    BY <1>7 DEF FinishReject, Write, Commit
  <2>2. d \in Doc /\ status[d] = "pending"
    BY <2>1, ReadyAlone DEF ReadNow
  <2> QED
    BY <1>1, <1>5, <2>1, <2>2
<1> QED
  BY <1>3, <1>4, <1>6, <1>7

(* One sequence after another.                                              *)
LEMMA JoinedParts ==
  ASSUME NEW X, NEW s \in Seq(X), NEW u \in Seq(X)
  PROVE  /\ Len(s) \in Nat /\ Len(u) \in Nat /\ DOMAIN (s \o u) = 1..(Len(s) + Len(u))
         /\ \A i \in 1..Len(s) : (s \o u)[i] = s[i]
         /\ \A i \in 1..Len(u) : (s \o u)[Len(s) + i] = u[i]
<1>1. s \o u \in Seq(X) /\ Len(s \o u) = Len(s) + Len(u) /\ Len(s) \in Nat /\ Len(u) \in Nat
  OBVIOUS
<1>2. DOMAIN (s \o u) = 1..(Len(s) + Len(u))
  BY <1>1
<1>3. /\ \A i \in 1..Len(s) : (s \o u)[i] = s[i]
      /\ \A i \in 1..Len(u) : (s \o u)[Len(s) + i] = u[i]
  OBVIOUS
<1> QED
  BY <1>1, <1>2, <1>3

(* Lines change only while the transfer is pending, and keep ids of their   *)
(* own.                                                                     *)
LEMMA LinesAlone ==
  ASSUME TInv, AInv, NEW t \in Txn, FinishAddLine(t) \/ FinishSetLine(t) \/ FinishRemoveLine(t)
  PROVE  AInv'
<1> DEFINE d == req[t].doc
           row == transfer[d]
<1>1. ASSUME NEW op \in Edits, Ready(t, op), pc[t] = "open"
      PROVE  /\ req[t].ask \in Asks(op) /\ row \in Row /\ row.lines \in Seq(Line)
             /\ row.nextId \in Nat /\ OwnIds(row) /\ status[d] = "pending"
             /\ Len(row.lines) \in Nat /\ DOMAIN row.lines = 1..Len(row.lines)
  <2>1. op # "sell"
    BY DEF Edits
  <2>2. op \in Ops /\ status[d] = "pending" /\ d \in Doc
    BY <1>1, <2>1, ReadyAlone DEF ReadNow
  <2>3. OwnIds(row)
    BY <2>2 DEF AInv, LinesApart
  <2>4. req[t].ask \in Asks(op) /\ row \in Row /\ row.lines \in Seq(Line) /\ row.nextId \in Nat
    BY <1>1, <2>1, <2>2, ReadyParts
  <2>5. Len(row.lines) \in Nat /\ DOMAIN row.lines = 1..Len(row.lines)
    BY <2>4
  <2> QED
    BY <2>2, <2>3, <2>4, <2>5
<1>2. ASSUME NEW op \in Edits, Ready(t, op), pc[t] = "open", NEW new, OwnIds(new),
             Write(t, status[d], new)
      PROVE  AInv'
  <2>1. op \notin {"sell", "approve", "auto", "revise"}
    BY DEF Edits
  <2>2. req[t].op = op /\ status[d] = "pending"
    BY <1>1, <1>2, <2>1, ReadyAlone
  <2>3. \A l \in Locator : Wanted(req[t], l) = 0
    BY <2>1, <2>2 DEF Wanted
  <2>4. \A l \in Locator :
           (IF status[req[t].doc] = "approved" THEN Asked(req[t].seen, l) ELSE 0) + Wanted(req[t], l)
              = IF status[d] = "approved" THEN Asked(new, l) ELSE 0
    BY <2>2, <2>3
  <2> QED
    BY <1>2, <2>1, <2>4, WriteAlone
<1>3. CASE FinishAddLine(t)
  <2> DEFINE asked == <<req[t].ask>>
             added == Numbered(asked, row.nextId)
             s == row.lines \o added
             n == row.nextId + 1
             new == [row EXCEPT !.lines = s, !.nextId = n]
  <2>1. Ready(t, "add_line") /\ Write(t, status[d], new) /\ pc[t] = "open"
    BY <1>3 DEF FinishAddLine, Write, Commit
  <2>2. /\ req[t].ask \in Edit /\ row \in Row /\ row.lines \in Seq(Line)
        /\ row.nextId \in Nat /\ OwnIds(row)
        /\ Len(row.lines) \in Nat /\ DOMAIN row.lines = 1..Len(row.lines)
    BY <1>1, <2>1 DEF Asks, Edits
  <2> HIDE DEF d, row
  <2>3. asked \in Seq(AskedLine) /\ Len(asked) = 1
    BY <2>2, AskedAssumption
  <2> HIDE DEF asked
  <2>4. /\ Len(added) = 1 /\ DOMAIN added = 1..1 /\ added[1].id = row.nextId
        /\ added \in Seq(Line)
    <3>1. asked \in Seq(AskedLine) /\ row.nextId \in Nat
      BY <2>2, <2>3
    <3>2. added \in Seq(Line)
      BY <3>1, NumberedIn
    <3>3. /\ Len(added) = Len(asked) /\ DOMAIN added = 1..Len(asked)
          /\ \A i \in 1..Len(asked) : added[i].id = row.nextId + i - 1
      BY <3>1, NumberedParts
    <3> HIDE DEF added
    <3> QED
      BY <2>3, <3>1, <3>2, <3>3
  <2> HIDE DEF added
  <2>5. /\ DOMAIN s = 1..(Len(row.lines) + 1) /\ s[Len(row.lines) + 1] = added[1]
        /\ \A i \in 1..Len(row.lines) : s[i] = row.lines[i]
    <3> DEFINE old == row.lines
    <3>1. old \in Seq(Line) /\ added \in Seq(Line)
      BY <2>2, <2>4
    <3> DEFINE m == Len(added)
    <3> HIDE DEF old
    <3>2. /\ Len(old) \in Nat /\ DOMAIN (old \o added) = 1..(Len(old) + m)
          /\ \A i \in 1..Len(old) : (old \o added)[i] = old[i]
          /\ \A i \in 1..m : (old \o added)[Len(old) + i] = added[i]
      BY ONLY <3>1, JoinedParts
    <3>3. m = 1 /\ 1 \in 1..1
      BY <2>4
    <3> HIDE DEF m
    <3> QED
      BY <3>2, <3>3 DEF old
  <2>6. s \in Seq(Line) /\ n \in Nat
    BY <2>2, <2>4
  <2>7. new.lines = s /\ new.nextId = n
    <3> HIDE DEF s, n
    <3> QED
      BY <2>2, RowParts
  <2>8. \A i \in DOMAIN row.lines : row.lines[i].id \in Nat
    <3>1. \A i \in DOMAIN row.lines : row.lines[i] \in Line
      BY <2>2
    <3> QED
      BY <3>1 DEF Line
  <2> HIDE DEF s, new
  <2>9. OwnIds(new)
    <3> DEFINE m == Len(row.lines)
    <3>1. /\ \A i, j \in 1..m : row.lines[i].id = row.lines[j].id => i = j
          /\ \A i \in 1..m : row.lines[i].id < row.nextId /\ row.lines[i].id \in Nat
      BY <2>2, <2>8 DEF OwnIds
    <3>2. /\ DOMAIN s = 1..(m + 1) /\ m \in Nat /\ s[m + 1].id = row.nextId
          /\ \A i \in 1..m : s[i].id = row.lines[i].id
      BY <2>2, <2>4, <2>5
    <3> HIDE DEF m
    <3>3. \A i \in 1..(m + 1) : i \in 1..m \/ i = m + 1
      BY <3>2
    <3>4. \A i \in 1..(m + 1) : s[i].id < row.nextId + 1
      BY <2>2, <3>1, <3>2, <3>3
    <3>5. \A i, j \in 1..(m + 1) : s[i].id = s[j].id => i = j
      BY <2>2, <3>1, <3>2, <3>3
    <3> QED
      BY <2>7, <3>2, <3>4, <3>5 DEF OwnIds
  <2> QED
    BY <1>2, <2>1, <2>9 DEF Edits, d
<1>4. CASE FinishSetLine(t)
  <2> DEFINE s == [i \in DOMAIN row.lines |->
                      IF row.lines[i].id = req[t].ask.id
                      THEN [row.lines[i] EXCEPT !.qty = req[t].ask.qty] ELSE row.lines[i]]
             new == [row EXCEPT !.lines = s]
  <2>1. Ready(t, "set_line") /\ Write(t, status[d], new) /\ pc[t] = "open"
    BY <1>4 DEF FinishSetLine, Write, Commit
  <2>2. row \in Row /\ row.lines \in Seq(Line) /\ OwnIds(row)
    BY <1>1, <2>1 DEF Edits
  <2>3. DOMAIN s = DOMAIN row.lines /\ \A i \in DOMAIN row.lines : s[i].id = row.lines[i].id
    <3>1. \A i \in DOMAIN row.lines : row.lines[i] \in Line
      BY <2>2
    <3>2. ASSUME NEW x \in Line, NEW q PROVE [x EXCEPT !.qty = q].id = x.id
      BY DEF Line
    <3> QED
      BY <3>1, <3>2
  <2> HIDE DEF s
  <2>4. new.lines = s /\ new.nextId = row.nextId
    BY <2>2, RowParts
  <2> HIDE DEF new
  <2>5. OwnIds(new)
    BY <2>2, <2>3, <2>4 DEF OwnIds
  <2> QED
    BY <1>2, <2>1, <2>5 DEF Edits
<1>5. CASE FinishRemoveLine(t)
  <2> DEFINE S == {i \in DOMAIN row.lines : row.lines[i].id # req[t].ask.id}
             s == Chosen(row.lines, S)
             new == [row EXCEPT !.lines = s]
  <2>1. Ready(t, "remove_line") /\ Write(t, status[d], new) /\ pc[t] = "open"
    BY <1>5 DEF FinishRemoveLine, Write, Commit, Where, Chosen
  <2>2. /\ row \in Row /\ row.lines \in Seq(Line) /\ OwnIds(row)
        /\ Len(row.lines) \in Nat /\ DOMAIN row.lines = 1..Len(row.lines)
    BY <1>1, <2>1 DEF Edits
  <2>3. S \in SUBSET (DOMAIN row.lines)
    OBVIOUS
  <2> HIDE DEF S
  <2>4. /\ \A j, k \in DOMAIN s : s[j].id = s[k].id => j = k
        /\ \A k \in DOMAIN s : s[k].id < row.nextId
    BY <2>2, <2>3, OwnIdsChosen DEF OwnIds
  <2> HIDE DEF s
  <2>5. new.lines = s /\ new.nextId = row.nextId
    BY <2>2, RowParts
  <2> HIDE DEF new
  <2>6. OwnIds(new)
    BY <2>4, <2>5 DEF OwnIds
  <2> QED
    BY <1>2, <2>1, <2>6 DEF Edits
<1> QED
  BY <1>3, <1>4, <1>5

-----------------------------------------------------------------------------
(* The same elements at the same positions.                                 *)
LEMMA ChosenSame ==
  ASSUME NEW n \in Nat, NEW S \in SUBSET (1..n), NEW s, NEW u, \A i \in S : s[i] = u[i]
  PROVE  Chosen(s, S) = Chosen(u, S)
<1>1. Ascending(S) \in [1..Cardinality(S) -> S]
  BY AscendingIn
<1>2. \A k \in DOMAIN Ascending(S) : Ascending(S)[k] \in S
  BY <1>1
<1> QED
  BY <1>2 DEF Chosen

(* A line cut down keeps its id and its item.                               *)
LEMMA CutDownParts ==
  ASSUME NEW row, Live(row), NEW hand
  PROVE  /\ DOMAIN CutDown(hand, row) = 1..Len(Moving(row))
         /\ Len(CutDown(hand, row)) = Len(Moving(row)) /\ Len(Moving(row)) \in Nat
         /\ \A i \in 1..Len(Moving(row)) : CutDown(hand, row)[i].id = Moving(row)[i].id
<1> DEFINE s == Moving(row)
           w == CutDown(hand, row)
<1>1. s \in Seq(Line)
  BY MovingIn
<1>2. w = [i \in DOMAIN s |-> [s[i] EXCEPT !.qty = GivenOf(hand, row, i)]]
  BY DEF CutDown
<1> HIDE DEF s, w
<1>3. Len(s) \in Nat /\ DOMAIN s = 1..Len(s) /\ \A i \in 1..Len(s) : s[i] \in Line
  BY <1>1
<1>4. DOMAIN w = 1..Len(s) /\ Len(w) = Len(s)
  BY <1>2, <1>3
<1>5. ASSUME NEW x \in Line, NEW q PROVE [x EXCEPT !.qty = q].id = x.id
  BY DEF Line
<1>6. \A i \in 1..Len(s) : w[i].id = s[i].id
  BY <1>2, <1>3, <1>5
<1> QED
  BY <1>3, <1>4, <1>6 DEF s, w

(* A header that is cut down is one line.                                   *)
LEMMA TrimmedHeader ==
  ASSUME NEW row, Live(row), row.lines = <<>>, NEW hand, TrimmedTo(hand, row) # <<>>
  PROVE  Len(TrimmedTo(hand, row)) = 1
<1> DEFINE w == CutDown(hand, row)
           S == {i \in DOMAIN w : w[i].qty > 0}
<1>1. Len(Moving(row)) = 1
  BY DEF Moving
<1>2. DOMAIN w = 1..1 /\ Len(w) = 1
  BY <1>1, CutDownParts
<1>3. TrimmedTo(hand, row) = Chosen(w, S)
  BY DEF TrimmedTo
<1>4. /\ S \in SUBSET (DOMAIN w) /\ S \in SUBSET (1..1) /\ 1..1 = {1}
      /\ Len(w) \in Nat /\ DOMAIN w = 1..Len(w)
  BY <1>2
<1> HIDE DEF w, S
<1>5. S # {}
  BY <1>3, ChosenNone
<1>6. S = {1}
  BY <1>4, <1>5
<1>7. Cardinality(S) = 1
  BY <1>6, FS_Singleton
<1>8. Len(Chosen(w, S)) = Cardinality(S)
  BY <1>4, ChosenParts
<1> QED
  BY <1>3, <1>7, <1>8

(* The lines of a transfer with those cut down in their place, and the      *)
(* positions of these.                                                      *)
PutBack(row, cut, all, T) ==
    /\ DOMAIN all = DOMAIN row.lines
    /\ \A i \in DOMAIN row.lines :
          /\ row.lines[i].id \notin LineIds(cut) => all[i] = row.lines[i]
          /\ row.lines[i].id \in LineIds(cut) =>
                \E k \in DOMAIN cut : cut[k].id = row.lines[i].id /\ all[i] = cut[k]
    /\ T = {i \in DOMAIN all : all[i].id \notin LineIds(row.lines) \ LineIds(cut)}

(* The lines an automatic approval writes are the lines it gave.            *)
LEMMA CutLines ==
  ASSUME NEW row, Live(row), row.lines # <<>>, OwnIds(row), NEW hand, NEW cut,
         cut = TrimmedTo(hand, row), NEW all, NEW T, PutBack(row, cut, all, T)
  PROVE  Chosen(all, T) = cut
<1> DEFINE s == row.lines
           n == Len(s)
           w == CutDown(hand, row)
           S == {i \in DOMAIN w : w[i].qty > 0}
           a == Ascending(S)
           c == Cardinality(S)
           gone == LineIds(s) \ LineIds(cut)
<1>0. /\ DOMAIN all = DOMAIN s /\ T = {i \in DOMAIN all : all[i].id \notin gone}
      /\ \A i \in DOMAIN s :
            /\ s[i].id \notin LineIds(cut) => all[i] = s[i]
            /\ s[i].id \in LineIds(cut) =>
                  \E k \in DOMAIN cut : cut[k].id = s[i].id /\ all[i] = cut[k]
  BY DEF PutBack
<1>1. Moving(row) = s
  BY DEF Moving
<1>2. DOMAIN w = 1..n /\ Len(w) = n /\ n \in Nat /\ \A i \in 1..n : w[i].id = s[i].id
  BY <1>1, CutDownParts
<1>3. s \in Seq(Line)
  BY <1>1, MovingIn
<1>4. DOMAIN s = 1..n /\ \A i, j \in 1..n : s[i].id = s[j].id => i = j
  BY <1>3 DEF OwnIds
<1>5. cut = Chosen(w, S)
  BY DEF TrimmedTo
<1>6. /\ S \in SUBSET (1..n) /\ S \in SUBSET (DOMAIN w)
      /\ Len(w) \in Nat /\ DOMAIN w = 1..Len(w)
  BY <1>2
<1> HIDE DEF s, w, S
<1>7. /\ DOMAIN cut = 1..c /\ a \in [1..c -> S]
      /\ \A k \in 1..c : cut[k] = w[a[k]]
  BY <1>5, <1>6, ChosenParts
<1>8. \A i \in S : \E k \in 1..c : a[k] = i
  BY <1>2, <1>6, AscendingOnto
<1> HIDE DEF a, c, n
<1>9. \A k \in DOMAIN cut : a[k] \in S /\ cut[k] = w[a[k]] /\ cut[k].id = s[a[k]].id
  BY ONLY <1>2, <1>6, <1>7
<1>10. ASSUME NEW i \in 1..n PROVE s[i].id \in LineIds(cut) <=> i \in S
  <2>1. ASSUME i \in S PROVE s[i].id \in LineIds(cut)
    <3>1. PICK k \in DOMAIN cut : a[k] = i
      BY <1>7, <1>8, <2>1
    <3> QED
      BY <1>9, <3>1 DEF LineIds
  <2>2. ASSUME s[i].id \in LineIds(cut) PROVE i \in S
    <3>1. PICK k \in DOMAIN cut : cut[k].id = s[i].id
      BY <2>2 DEF LineIds
    <3>2. a[k] \in S /\ s[a[k]].id = s[i].id
      BY <1>9, <3>1
    <3> QED
      BY <1>4, <1>6, <3>2
  <2> QED
    BY <2>1, <2>2
<1>11. ASSUME NEW i \in S PROVE all[i] = w[i]
  <2>1. i \in 1..n /\ s[i].id \in LineIds(cut)
    BY <1>6, <1>10
  <2>2. PICK k \in DOMAIN cut : cut[k].id = s[i].id /\ all[i] = cut[k]
    BY <1>0, <1>4, <2>1
  <2>3. a[k] \in 1..n /\ s[a[k]].id = s[i].id
    BY <1>6, <1>9, <2>2
  <2>4. a[k] = i
    BY <1>4, <2>1, <2>3
  <2> QED
    BY <1>9, <2>2, <2>4
<1>12. T = S
  <2>1. ASSUME NEW i \in 1..n, i \notin S PROVE all[i].id \in gone
    <3>1. s[i].id \notin LineIds(cut) /\ s[i].id \in LineIds(s)
      BY <1>4, <1>10, <2>1 DEF LineIds
    <3>2. all[i] = s[i]
      BY <1>0, <1>4, <3>1
    <3> QED
      BY <3>1, <3>2
  <2>2. ASSUME NEW i \in S PROVE all[i].id \notin gone
    <3>1. all[i].id = s[i].id /\ s[i].id \in LineIds(cut)
      BY <1>2, <1>6, <1>10, <1>11
    <3> QED
      BY <3>1
  <2>3. DOMAIN all = 1..n
    BY <1>0, <1>4
  <2> QED
    BY <1>0, <1>6, <2>1, <2>2, <2>3
<1>13. Chosen(all, S) = Chosen(w, S)
  BY ONLY <1>2, <1>6, <1>11, ChosenSame
<1> QED
  BY <1>5, <1>12, <1>13

(* What is chosen of the trimmed lines keeps ids of its own.                *)
LEMMA TrimmedApart ==
  ASSUME NEW row, Live(row), row.lines # <<>>, OwnIds(row), NEW hand
  PROVE  LET cut == TrimmedTo(hand, row) IN
         /\ \A j, k \in DOMAIN cut : cut[j].id = cut[k].id => j = k
         /\ \A k \in DOMAIN cut : cut[k].id < row.nextId
<1> DEFINE w == CutDown(hand, row)
           S == {i \in DOMAIN w : w[i].qty > 0}
           cut == TrimmedTo(hand, row)
<1>1. Moving(row) = row.lines
  BY DEF Moving
<1>2. /\ DOMAIN w = 1..Len(row.lines) /\ Len(w) = Len(row.lines) /\ Len(row.lines) \in Nat
      /\ \A i \in 1..Len(row.lines) : w[i].id = row.lines[i].id
  BY <1>1, CutDownParts
<1>3. row.lines \in Seq(Line)
  BY <1>1, MovingIn
<1>4. DOMAIN row.lines = 1..Len(row.lines)
  BY <1>3
<1>5. cut = Chosen(w, S) /\ S \in SUBSET (DOMAIN w)
  BY DEF TrimmedTo
<1>6. /\ \A i, j \in DOMAIN w : w[i].id = w[j].id => i = j
      /\ \A i \in DOMAIN w : w[i].id < row.nextId
  BY <1>2, <1>4 DEF OwnIds
<1> HIDE DEF w, S, cut
<1>7. /\ \A j, k \in DOMAIN Chosen(w, S) : Chosen(w, S)[j].id = Chosen(w, S)[k].id => j = k
      /\ \A k \in DOMAIN Chosen(w, S) : Chosen(w, S)[k].id < row.nextId
  BY <1>2, <1>5, <1>6, OwnIdsChosen
<1> QED
  BY <1>5, <1>7 DEF cut

-----------------------------------------------------------------------------
(* An automatic approval has moved the lines it leaves on the transfer.     *)
LEMMA CutAlone ==
  ASSUME TInv, AInv, NEW t \in Txn, FinishAutoApprove(t)
  PROVE  AInv'
<1> DEFINE d == req[t].doc
           row == transfer[d]
           cut == req[t].ask
           gone == LineIds(req[t].seen.lines) \ LineIds(cut)
           given(line) == IF line.id \in LineIds(cut)
                          THEN cut[CHOOSE i \in DOMAIN cut : cut[i].id = line.id]
                          ELSE line
           all == [i \in DOMAIN row.lines |-> given(row.lines[i])]
           S == {i \in DOMAIN all : all[i].id \notin gone}
           s == Chosen(all, S)
           head == [id |-> 0, item |-> cut[1].item, qty |-> cut[1].qty]
           new == [row EXCEPT !.head = head, !.lines = s]
<1>1. Ready(t, "auto") /\ RowsAlive(t) /\ pc[t] = "open"
  BY DEF FinishAutoApprove, Write, Commit
<1>2. Write(t, "approved", new)
  BY DEF FinishAutoApprove, Where, Chosen
<1>3. /\ req[t].op = "auto" /\ d \in Doc /\ req[t].seen = row /\ status[d] = "pending"
      /\ cut = TrimmedTo(balance, row) /\ "auto" \in Ops
  BY <1>1, ReadyAlone DEF ReadNow
<1>4. cut \in Seq(Line) \ {<<>>} /\ row \in Row /\ Live(row)
  BY <1>1, <1>3, ReadyParts DEF RowsAlive, Exists, Asks
<1>5. OwnIds(row)
  BY <1>3 DEF AInv, LinesApart
<1>6. /\ \A l \in Locator : Wanted(req[t], l) = Flow(cut, row.src, row.dst, l)
      /\ \A l \in Locator : Wanted(req[t], l) \in Int
  <2>1. \A l \in Locator : Wanted(req[t], l) = Flow(cut, row.src, row.dst, l)
    BY <1>3 DEF Wanted
  <2>2. ASSUME NEW l \in Locator PROVE Wanted(req[t], l) \in Int
    BY <1>1, ReadyAlone
  <2> QED
    BY <2>1, <2>2
<1>7. ASSUME NEW i \in DOMAIN row.lines
      PROVE  /\ row.lines[i].id \notin LineIds(cut) => all[i] = row.lines[i]
             /\ row.lines[i].id \in LineIds(cut) =>
                   \E k \in DOMAIN cut : cut[k].id = row.lines[i].id /\ all[i] = cut[k]
  <2>1. ASSUME row.lines[i].id \in LineIds(cut)
        PROVE  \E k \in DOMAIN cut : cut[k].id = row.lines[i].id /\ all[i] = cut[k]
    <3> DEFINE k == CHOOSE k \in DOMAIN cut : cut[k].id = row.lines[i].id
    <3>1. \E j \in DOMAIN cut : cut[j].id = row.lines[i].id
      BY <2>1 DEF LineIds
    <3>2. k \in DOMAIN cut /\ cut[k].id = row.lines[i].id
      BY <3>1
    <3>3. all[i] = cut[k]
      BY <2>1
    <3> HIDE DEF k
    <3> QED
      BY <3>2, <3>3
  <2> QED
    BY <2>1
<1>8. DOMAIN all = DOMAIN row.lines /\ gone = LineIds(row.lines) \ LineIds(cut)
  BY <1>3
<1> HIDE DEF d, row, cut, gone, given, all, head
<1>9. new.lines = s /\ new.head = head /\ new.src = row.src /\ new.dst = row.dst
      /\ new.nextId = row.nextId
  <2> HIDE DEF s
  <2> QED
    BY <1>4, RowParts
<1>10. /\ \A item : QtyOf(Moving(new), item) = QtyOf(cut, item)
       /\ OwnIds(new)
  <2>1. CASE row.lines = <<>>
    <3>1. DOMAIN all = 1..0 /\ S = {}
      BY <1>8, <2>1
    <3>2. s = <<>>
      BY <3>1, ChosenNone
    <3>3. Moving(new) = <<head>>
      BY <1>9, <3>2 DEF Moving
    <3>4. Len(cut) = 1
      BY <1>3, <1>4, <2>1, TrimmedHeader
    <3>5. Lined(cut) /\ cut[1] \in Line
      BY <1>4, <3>4, LinesCarry, CarriesLined
    <3>6. head.item = cut[1].item /\ head.qty = cut[1].qty /\ head.qty \in Int
      BY <3>5 DEF head, Line
    <3>7. Lined(<<head>>) /\ Len(<<head>>) = 1 /\ <<head>>[1] = head
      <4>1. Len(<<head>>) = 1 /\ DOMAIN <<head>> = 1..1 /\ <<head>>[1] = head
        OBVIOUS
      <4> QED
        BY <3>6, <4>1 DEF Lined
    <3>8. ASSUME NEW item PROVE QtyOf(<<head>>, item) = QtyOf(cut, item)
      <4> DEFINE u == <<head>>
      <4>1. Lined(u) /\ Len(u) = Len(cut) /\ \A i \in 1..Len(u) : u[i].item = cut[i].item /\ u[i].qty = cut[i].qty
        BY <3>4, <3>6, <3>7
      <4> HIDE DEF u
      <4>2. QtyOf(u, item) = QtyOf(cut, item)
        BY <3>5, <4>1, QtySame
      <4> QED
        BY <4>2 DEF u
    <3>9. OwnIds(new)
      <4>1. DOMAIN new.lines = {}
        BY <1>9, <3>2
      <4> QED
        BY <4>1 DEF OwnIds
    <3> QED
      BY <3>3, <3>8, <3>9
  <2>2. CASE row.lines # <<>>
    <3>1. s = cut
      <4>1. Live(row) /\ OwnIds(row) /\ row.lines # <<>> /\ cut = TrimmedTo(balance, row)
        BY <1>3, <1>4, <1>5, <2>2
      <4>2. S = {i \in DOMAIN all : all[i].id \notin LineIds(row.lines) \ LineIds(cut)}
        BY <1>8
      <4> HIDE DEF S
      <4>3. PutBack(row, cut, all, S)
        BY <1>7, <1>8, <4>2 DEF PutBack
      <4>4. Chosen(all, S) = cut
        BY <4>1, <4>3, CutLines
      <4> QED
        BY <4>4
    <3>2. Moving(new) = cut
      BY <1>4, <1>9, <3>1 DEF Moving
    <3>3. /\ \A j, k \in DOMAIN cut : cut[j].id = cut[k].id => j = k
          /\ \A k \in DOMAIN cut : cut[k].id < row.nextId
      BY <1>3, <1>4, <1>5, <2>2, TrimmedApart
    <3>4. OwnIds(new)
      BY <1>9, <3>1, <3>3 DEF OwnIds
    <3> QED
      BY <3>2, <3>4
  <2> QED
    BY <2>1, <2>2
<1>11. ASSUME NEW l \in Locator
       PROVE  (IF status[req[t].doc] = "approved" THEN Asked(req[t].seen, l) ELSE 0) + Wanted(req[t], l)
                = Asked(new, l)
  <2> HIDE DEF new
  <2>1. Asked(new, l) = Flow(Moving(new), row.src, row.dst, l)
    BY <1>9 DEF Asked
  <2>2. Flow(Moving(new), row.src, row.dst, l) = Flow(cut, row.src, row.dst, l)
    BY <1>10 DEF Flow
  <2>3. status[req[t].doc] # "approved"
    BY <1>3 DEF d
  <2> QED
    BY <1>6, <2>1, <2>2, <2>3
<1> HIDE DEF new
<1> QED
  BY <1>1, <1>2, <1>10, <1>11, WriteAlone

(* A revision has moved what the new lines ask for beyond the old.          *)
LEMMA RevisedAlone ==
  ASSUME TInv, AInv, NEW t \in Txn, FinishRevise(t)
  PROVE  AInv'
<1> DEFINE d == req[t].doc
           row == transfer[d]
           seen == req[t].seen
           r == req[t].ask
           lines == Merged(r.lines)
           asked == [id |-> 0, item |-> r.lines[1].item, qty |-> QtyOf(r.lines, r.lines[1].item)]
           S == {i \in DOMAIN row.lines : row.lines[i].id \notin LineIds(seen.lines)}
           src == IF r.src = seen.src THEN row.src ELSE r.src
           dst == IF r.dst = seen.dst THEN row.dst ELSE r.dst
           head == IF asked = seen.head THEN row.head ELSE asked
           left == Chosen(row.lines, S)
           added == Numbered(lines, row.nextId)
           n == row.nextId + Len(lines)
           new == [row EXCEPT !.src = src, !.dst = dst, !.head = head, !.lines = left \o added,
                              !.nextId = n]
<1>1. Ready(t, "revise") /\ RowsAlive(t) /\ pc[t] = "open"
  BY DEF FinishRevise, Write, Commit
<1>2. Write(t, status[d], new)
  BY DEF FinishRevise, Where, Chosen
<1>3. /\ req[t].op = "revise" /\ d \in Doc /\ seen = row /\ status[d] = "approved"
      /\ "revise" \in Ops
  BY <1>1, ReadyAlone DEF ReadNow
<1>4. /\ r \in Revision /\ row \in Row /\ row.nextId \in Nat /\ Live(row)
  BY <1>1, <1>3, ReadyParts DEF RowsAlive, Exists, Asks
<1>5. r.lines \in Seq(AskedLine) /\ r.lines # <<>> /\ r.src \in Place /\ r.dst \in Place
  BY <1>4, AskedAssumption DEF AskedRow
<1>6. src = r.src /\ dst = r.dst
  BY <1>3
<1>7. ASSUME NEW l \in Locator
      PROVE  /\ Wanted(req[t], l) = Flow(r.lines, r.src, r.dst, l) - Asked(row, l)
             /\ Flow(r.lines, r.src, r.dst, l) \in Int /\ Asked(row, l) \in Int
  <2>1. Wanted(req[t], l) = Flow(r.lines, r.src, r.dst, l) - Asked(row, l)
    BY <1>3 DEF Wanted
  <2>2. Flow(r.lines, r.src, r.dst, l) \in Int
    BY <1>5, LinesCarry, MovesFlow
  <2>3. Asked(row, l) \in Int
    <3>1. Carries(Moving(row)) /\ row.src \in Place /\ row.dst \in Place
      BY <1>4, MovingIn DEF Live
    <3> QED
      BY <3>1, MovesFlow DEF Asked
  <2> QED
    BY <2>1, <2>2, <2>3
<1>8. S = {}
  BY <1>3 DEF LineIds
<1>9. left = <<>>
  BY <1>8, ChosenNone
<1>10. lines \in Seq(AskedLine) /\ \A item : QtyOf(lines, item) = QtyOf(r.lines, item)
  BY <1>5, LinesCarry, MergedIn, MergedQty
<1>11. Len(lines) \in Nat /\ Len(lines) > 0
  <2>1. 1 \in DOMAIN r.lines /\ Carries(r.lines)
    BY <1>5, LinesCarry
  <2>2. \E k \in DOMAIN lines : lines[k].item = r.lines[1].item
    BY <2>1, MergedParts
  <2> HIDE DEF lines
  <2>3. Len(lines) \in Nat /\ DOMAIN lines = 1..Len(lines)
    BY <1>10
  <2> QED
    BY <2>2, <2>3
<1> HIDE DEF lines
<1>12. /\ added \in Seq(Line) /\ Len(added) = Len(lines)
       /\ \A i, j \in DOMAIN added : added[i].id = added[j].id => i = j
       /\ \A i \in DOMAIN added : added[i].id < n
       /\ \A item : QtyOf(added, item) = QtyOf(lines, item)
  <2>1. added \in Seq(Line) /\ Len(added) = Len(lines)
    BY <1>4, <1>10, NumberedIn
  <2>2. /\ \A i, j \in DOMAIN added : added[i].id = added[j].id => i = j
        /\ \A i \in DOMAIN added : row.nextId =< added[i].id /\ added[i].id < row.nextId + Len(lines)
        /\ \A item : QtyOf(added, item) = QtyOf(lines, item)
    BY <1>4, <1>10, NumberedParts
  <2> QED
    BY <2>1, <2>2
<1> HIDE DEF d, row, seen, r, src, dst, head, left, added, n
<1>13. left \o added = added
  BY <1>9, <1>12
<1>14. new.src = src /\ new.dst = dst /\ new.lines = added /\ new.nextId = n
  <2> DEFINE v == [src |-> row.src, dst |-> row.dst, head |-> row.head, lines |-> row.lines,
                   nextId |-> row.nextId]
  <2>1. row = v
    BY <1>4, RowParts
  <2> QED
    BY <1>13, <2>1
<1> HIDE DEF new
<1>15. Moving(new) = added
  <2>1. added # <<>>
    BY <1>11, <1>12
  <2> QED
    BY <1>14, <2>1 DEF Moving
<1>16. OwnIds(new)
  BY <1>12, <1>14 DEF OwnIds
<1>17. ASSUME NEW l \in Locator
       PROVE  (IF status[req[t].doc] = "approved" THEN Asked(req[t].seen, l) ELSE 0) + Wanted(req[t], l)
                = IF status[d] = "approved" THEN Asked(new, l) ELSE 0
  <2>1. QtyOf(added, l[1]) = QtyOf(r.lines, l[1])
    BY <1>10, <1>12
  <2>2. Asked(new, l) = Flow(r.lines, r.src, r.dst, l)
    BY <1>6, <1>14, <1>15, <2>1, FlowSame DEF Asked
  <2>3. req[t].doc = d /\ req[t].seen = row
    BY <1>3 DEF d, seen
  <2> QED
    BY <1>3, <1>7, <2>2, <2>3
<1> QED
  BY <1>1, <1>2, <1>16, <1>17, WriteAlone

(* The commit of a sale writes no transfer.                                 *)
LEMMA SaleAlone ==
  ASSUME TInv, AInv, NEW t \in Txn, FinishSale(t) PROVE AInv'
<1>1. req[t] # Null /\ End(t) /\ UNCHANGED docVars
  BY DEF FinishSale, Ready
<1>2. OneServed' /\ ReadsNow' /\ MovesWanted'
  BY <1>1, NoneServed DEF AInv
<1>3. LinesApart' /\ MovedAsApproved'
  BY <1>1 DEF docVars, AInv, LinesApart, MovedAsApproved
<1> QED
  BY <1>2, <1>3 DEF AInv

(* A transfer is created with ids of its own; the requests are about others.*)
LEMMA CreateAlone ==
  ASSUME TInv, AInv, NEW d \in Doc, NEW draft \in Draft, Create(d, draft)
  PROVE  AInv'
<1> DEFINE head == [id |-> 0, item |-> draft.lines[1].item, qty |-> draft.lines[1].qty]
           lines == IF draft.headerOnly THEN <<>> ELSE Numbered(draft.lines, 1)
           n == IF draft.headerOnly THEN 1 ELSE Len(draft.lines) + 1
           row == [src |-> draft.src, dst |-> draft.dst, head |-> head, lines |-> lines,
                   nextId |-> n]
<1>1. /\ status[d] = "none" /\ status' = [status EXCEPT ![d] = "pending"]
      /\ transfer' = [transfer EXCEPT ![d] = row]
      /\ UNCHANGED <<vars, moved, req, todo>>
  BY DEF Create
<1>2. draft.lines \in Seq(AskedLine)
  <2> DEFINE asked == [src |-> draft.src, dst |-> draft.dst, lines |-> draft.lines]
  <2>1. asked \in AskedRow
    BY AskedAssumption
  <2>2. asked.lines \in Seq(AskedLine)
    <3> HIDE DEF asked
    <3> QED
      BY <2>1 DEF AskedRow
  <2> QED
    BY <2>2
<1>3. row.lines = lines /\ row.nextId = n
  OBVIOUS
<1> HIDE DEF row
<1>4. OwnIds(row)
  <2>1. CASE draft.headerOnly
    BY <1>3, <2>1 DEF OwnIds
  <2>2. CASE ~ draft.headerOnly
    <3> DEFINE u == Numbered(draft.lines, 1)
    <3>1. /\ \A i, j \in DOMAIN u : u[i].id = u[j].id => i = j
          /\ \A i \in DOMAIN u : u[i].id < 1 + Len(draft.lines)
      BY <1>2, NumberedParts
    <3>2. row.lines = u /\ row.nextId = Len(draft.lines) + 1 /\ Len(draft.lines) \in Nat
      BY <1>2, <1>3, <2>2
    <3> HIDE DEF u
    <3> QED
      BY <3>1, <3>2 DEF OwnIds
  <2> QED
    BY <2>1, <2>2
<1> HIDE DEF head, lines, n
<1>5. /\ status \in [Doc -> Status] /\ transfer \in [Doc -> Row]
      /\ balance' = balance /\ moved' = moved /\ req' = req /\ todo' = todo
      /\ delta' = delta /\ call' = call /\ pc' = pc
  BY <1>1 DEF TInv, PInv, Shapes, Rows, vars
<1>6. ASSUME NEW t \in Txn, Serving(t)' PROVE ReadNow(t)' /\ OnItsWay(t)'
  <2>1. Serving(t) /\ ReadNow(t) /\ OnItsWay(t)
    BY <1>5, <1>6 DEF Serving, AInv, ReadsNow, MovesWanted
  <2>2. req[t].doc # d /\ req[t].doc \in Doc
    BY <1>1, <2>1 DEF ReadNow, Exists
  <2>3. status'[req[t].doc] = status[req[t].doc] /\ transfer'[req[t].doc] = transfer[req[t].doc]
    BY <1>1, <1>5, <2>2
  <2>4. ReadNow(t)'
    BY <1>5, <2>1, <2>3 DEF ReadNow, Exists
  <2>5. OnItsWay(t)'
    BY <1>5, <2>1 DEF OnItsWay, Coming
  <2> QED
    BY <2>4, <2>5
<1>7. OneServed' /\ ReadsNow' /\ MovesWanted'
  BY <1>5, <1>6 DEF AInv, OneServed, ReadsNow, MovesWanted
<1>8. LinesApart'
  BY <1>1, <1>4, <1>5 DEF AInv, LinesApart
<1>9. MovedAsApproved'
  <2>1. ASSUME NEW e \in Doc
        PROVE  moved'[e] = IF status'[e] = "approved"
                           THEN [l \in Locator |-> Asked(transfer'[e], l)] ELSE NoDelta
    <3>1. moved[e] = IF status[e] = "approved"
                     THEN [l \in Locator |-> Asked(transfer[e], l)] ELSE NoDelta
      BY DEF AInv, MovedAsApproved
    <3>2. CASE e = d
      BY <1>1, <1>5, <3>1, <3>2
    <3>3. CASE e # d
      BY <1>1, <1>5, <3>1, <3>3
    <3> QED
      BY <3>2, <3>3
  <2>2. NoDelta' = NoDelta
    BY DEF NoDelta
  <2> QED
    BY <2>1, <2>2 DEF MovedAsApproved
<1> QED
  BY <1>7, <1>8, <1>9 DEF AInv

-----------------------------------------------------------------------------
(* The invariant holds at the start, and every step keeps it.               *)
LEMMA AInvInit == TransferInit => AInv
<1> SUFFICES ASSUME TransferInit PROVE AInv
  OBVIOUS
<1>1. OwnIds(NoRow)
  BY DEF OwnIds, NoRow
<1> QED
  BY <1>1 DEF TransferInit, AInv, OneServed, ReadsNow, MovesWanted, Serving, LinesApart,
              MovedAsApproved

LEMMA AInvStep ==
  ASSUME TInv, AInv, [TransferNext /\ AloneStep]_transferVars
  PROVE  AInv'
<1>1. CASE UNCHANGED transferVars
  <2>1. /\ UNCHANGED docVars /\ req' = req /\ todo' = todo /\ balance' = balance
        /\ delta' = delta /\ call' = call /\ pc' = pc
    BY <1>1 DEF transferVars, vars
  <2>2. OneServed' /\ LinesApart' /\ MovedAsApproved'
    BY <2>1 DEF docVars, AInv, OneServed, LinesApart, MovedAsApproved
  <2>3. ASSUME NEW t \in Txn, Serving(t)' PROVE ReadNow(t)' /\ OnItsWay(t)'
    <3>1. Serving(t) /\ ReadNow(t) /\ OnItsWay(t)
      BY <2>1, <2>3 DEF Serving, AInv, ReadsNow, MovesWanted
    <3>2. ReadNow(t)'
      BY <2>1, <3>1 DEF docVars, ReadNow, Exists
    <3>3. OnItsWay(t)'
      BY <2>1, <3>1 DEF OnItsWay, Coming
    <3> QED
      BY <3>2, <3>3
  <2> QED
    BY <2>2, <2>3 DEF AInv, ReadsNow, MovesWanted
<1>2. ASSUME TransferNext, AloneStep PROVE AInv'
  <2>1. OneServed'
    BY <1>2 DEF AloneStep, OneServed
  <2>2. ASSUME NEW t \in Txn, NEW d \in Doc, Start(t, d) PROVE AInv'
    BY <2>1, <2>2, StartAlone
  <2>3. ASSUME NEW t \in Txn, NEW item \in Item, NEW p \in Place, NEW q \in Qty,
               StartSale(t, item, p, q)
        PROVE  AInv'
    BY <2>1, <2>3, StartSaleAlone
  <2>4. ASSUME NEW t \in Txn, PostNext(t) \/ LedgerStep(t) \/ LedgerAbort(t) PROVE AInv'
    BY <2>1, <2>4, PostAlone, LedgerAlone, AbortAlone
  <2>5. ASSUME NEW t \in Txn, Finish(t) PROVE AInv'
    BY <2>5, PlainAlone, LinesAlone, CutAlone, RevisedAlone, SaleAlone DEF Finish
  <2>6. ASSUME NEW d \in Doc, NEW draft \in Draft, Create(d, draft) PROVE AInv'
    BY <2>6, CreateAlone
  <2> QED
    BY <1>2, <2>2, <2>3, <2>4, <2>5, <2>6 DEF TransferNext
<1> QED
  BY <1>1, <1>2

(* While one request at a time is served, an approved transfer has moved    *)
(* exactly its lines, and any other nothing: through chains of revisions of *)
(* the lines and of the places (transfer_service.py: approve, revise,       *)
(* _plan_revision, cancel, delete), for any drafts and revisions.           *)
THEOREM MovedWhenAlone == AloneSpec => []MovedAsApproved
<1>1. TransferInit => TInv /\ AInv
  BY TInvInit, AInvInit
<1>2. TInv /\ AInv /\ [TransferNext /\ AloneStep]_transferVars => TInv' /\ AInv'
  BY TInvStep, AInvStep
<1>3. AInv => MovedAsApproved
  BY DEF AInv
<1> QED
  BY <1>1, <1>2, <1>3, PTL DEF AloneSpec

(* The same in the world "alone" of the instances, which the run checks.    *)
AloneInv == TInv /\ (world = "alone" => AInv)

(* Every step of the instances keeps it.                                    *)
LEMMA AloneStepMC == AloneInv /\ [MCNext]_<<world, transferVars>> => AloneInv'
<1> SUFFICES ASSUME AloneInv, [MCNext]_<<world, transferVars>> PROVE AloneInv'
  OBVIOUS
<1>1. world' = world /\ [TransferNext]_transferVars
  BY DEF MCNext
<1>2. world = "alone" => [TransferNext /\ AloneStep]_transferVars
  BY DEF MCNext
<1>3. TInv'
  BY <1>1, TInvStep DEF AloneInv
<1>4. world = "alone" => AInv'
  BY <1>2, AInvStep DEF AloneInv
<1> QED
  BY <1>1, <1>3, <1>4 DEF AloneInv

(* What the run checks of the world "alone", whatever the drafts, the       *)
(* revisions and the rest of the instance: an approved transfer has moved   *)
(* its lines.                                                               *)
THEOREM MovedAlone == MCSpec => []MovedAsApprovedAlone
<1>1. MCInit => AloneInv
  BY TInvInit, AInvInit DEF MCInit, AloneInv
<1>2. AloneInv => MovedAsApprovedAlone
  BY DEF AloneInv, AInv, MovedAsApprovedAlone
<1> QED
  BY <1>1, <1>2, AloneStepMC, PTL DEF MCSpec

(* An automatic approval has moved what was asked or what there is.         *)
LEMMA GivesAlone == TInv /\ AInv => AutoApprovalGives
<1> SUFFICES ASSUME TInv, AInv, NEW t \in Txn, FinishAutoApprove(t),
                    req[t].seen.src # req[t].seen.dst, NEW item \in Item
             PROVE  moved'[req[t].doc][<<item, req[t].seen.dst>>]
                      = Smaller(QtyOf(Moving(req[t].seen), item),
                                Larger(balance[<<item, req[t].seen.src>>], 0))
  BY DEF AutoApprovalGives
<1> DEFINE d == req[t].doc
           seen == req[t].seen
           l == <<item, seen.dst>>
<1>1. /\ Ready(t, "auto") /\ RowsAlive(t) /\ pc[t] = "open"
      /\ moved' = [moved EXCEPT ![d] = [k \in Locator |-> @[k] + delta[t][k]]]
  BY DEF FinishAutoApprove, Write, Commit
<1>2. /\ req[t].op = "auto" /\ d \in Doc /\ seen = transfer[d] /\ status[d] = "pending"
      /\ req[t].ask = TrimmedTo(balance, seen) /\ "auto" \in Ops
  BY <1>1, ReadyAlone DEF ReadNow
<1>3. Live(seen) /\ seen.dst \in Place
  BY <1>1, <1>2, ReadyParts DEF RowsAlive, Exists, Live
<1>4. l \in Locator
  BY <1>3, LocatorAssumption
<1>5. delta[t][l] = Flow(req[t].ask, seen.src, seen.dst, l) /\ delta[t][l] \in Int
  <2>1. Wanted(req[t], l) = Flow(req[t].ask, seen.src, seen.dst, l)
    BY <1>2 DEF Wanted
  <2> HIDE DEF l
  <2> QED
    BY <1>1, <1>4, <2>1, ReadyAlone
<1>6. moved[d] = NoDelta
  BY <1>2 DEF AInv, MovedAsApproved
<1>7. moved'[d][l] = delta[t][l]
  <2>1. moved \in [Doc -> [Locator -> Int]]
    BY DEF TInv, PInv, Shapes
  <2> HIDE DEF l, d
  <2>2. moved'[d][l] = moved[d][l] + delta[t][l]
    BY <1>1, <1>2, <1>4, <2>1
  <2> QED
    BY <1>4, <1>5, <1>6, <2>2 DEF NoDelta
<1>8. QtyOf(req[t].ask, item)
        = Smaller(QtyOf(Moving(seen), item), Larger(balance[<<item, seen.src>>], 0))
  <2>1. balance \in [Locator -> Int]
    BY DEF TInv, TypeOK
  <2>2. req[t].ask = Trimmed(seen)
    BY <1>2, TrimmedIs
  <2> QED
    BY <1>3, <2>1, <2>2, TrimmedQty
<1>9. Flow(req[t].ask, seen.src, seen.dst, l) = QtyOf(req[t].ask, item)
  <2>1. l[1] = item /\ l[2] = seen.dst
    OBVIOUS
  <2>2. QtyOf(req[t].ask, item) \in Int
    BY <1>1, <1>2, ReadyParts, LinesCarry, CarriesLined, QtyByLine DEF Asks
  <2> HIDE DEF l
  <2> QED
    BY <2>1, <2>2 DEF Flow
<1> QED
  BY <1>5, <1>7, <1>8, <1>9

(* While one request at a time is served, an automatic approval moves of    *)
(* each item what was asked or what the source held, whichever is less      *)
(* (transfer_service.py: approve_available).                                *)
THEOREM GivenWhenAlone == AloneSpec => [][AutoApprovalGives]_transferVars
<1>1. TransferInit => TInv /\ AInv
  BY TInvInit, AInvInit
<1>2. TInv /\ AInv /\ [TransferNext /\ AloneStep]_transferVars => TInv' /\ AInv'
  BY TInvStep, AInvStep
<1> QED
  BY <1>1, <1>2, GivesAlone, PTL DEF AloneSpec

(* The same of the world "alone" that the run checks.                       *)
THEOREM GivenAlone == MCSpec => AutoApprovalAlone
<1>1. MCInit => AloneInv
  BY TInvInit, AInvInit DEF MCInit, AloneInv
<1>2. AloneInv => (world = "alone" => AutoApprovalGives)
  BY GivesAlone DEF AloneInv
<1> QED
  BY <1>1, <1>2, AloneStepMC, PTL DEF MCSpec, AutoApprovalAlone
=============================================================================
