----------------------------- MODULE Inspections -----------------------------
(***************************************************************************)
(* Visits to customers, the stock they use up and the points they cost a   *)
(* merchant (src/backend/src/services/inspection_service.py,               *)
(* points_service.py, api/inspections.py, api/warehouses.py).              *)
(*                                                                         *)
(* A visit takes its items from the custody of the representative, and its *)
(* points from the merchant.  Rejecting it gives both back, accepting it   *)
(* takes both again, from the custody the representative then has.         *)
(*                                                                         *)
(* A request is one transaction, taken at one instant.                     *)
(***************************************************************************)
EXTENDS Integers, FiniteSets, FiniteSetsExt, NullValue

CONSTANTS
    Visit,          \* client_uuid, by which a visit sent twice is known
    Visitor, Merchant, Custody,
    Part, Loose,    \* items kept in stock, and those only written down
    Basket,         \* what a visit may use: quantities by item
    Filled,         \* of each part, what a custody has at first
    MaxTurns        \* bound on the times a visit is deducted

(* Rows of the tables.                                                      *)
OutRow == [visit : Visit, item : Part, turn : 1 .. MaxTurns, place : Custody, n : Nat]
VisitRow == [rep : Visitor, lines : Basket, merchant : Merchant \cup {Null},
             status : {"accepted", "rejected"}, moved : SUBSET OutRow]
PointRow == [visit : Visit, kind : {"inspection", "inspection_reverse"}, nth : Nat,
             customer : Merchant, delta : Int]

ASSUME InspectionAssumption ==
    /\ IsFiniteSet(Visit)
    /\ \A lines \in Basket : IsFiniteSet(DOMAIN lines) /\ lines \in [DOMAIN lines -> Nat]
    /\ Filled \in Nat /\ MaxTurns \in Nat
ASSUME InspectionNull == Null \notin Merchant \cup VisitRow

VARIABLES
    visit,          \* rows of inspection with their lines
    outs,           \* their movements out of stock
    undone,         \* the movements that have been reversed
    points,         \* rows of point_record
    custody         \* who holds each custody, and whether it is in use

inspectionVars == <<visit, outs, undone, points, custody>>

Places(r) == {c \in Custody : custody[c].rep = r /\ custody[c].active}

(* What movements W took of an item out of a custody.                       *)
TakenBy(W, i, c) ==
    SumFunctionOnSet([w \in W |-> w.n], {w \in W : w.item = i /\ w.place = c})

StockOf(i, c) == Filled - TakenBy(outs \ undone, i, c)

PartsOf(lines) == DOMAIN lines \cap Part

(* Every part of lines out of custody c, in the visit's turn t.             *)
OutOf(v, lines, c, t) ==
    {[visit |-> v, item |-> i, turn |-> t, place |-> c, n |-> lines[i]] : i \in PartsOf(lines)}

Enough(lines, c) == \A i \in PartsOf(lines) : lines[i] =< StockOf(i, c)

PointsFor(lines) == SumFunctionOnSet(lines, DOMAIN lines)

-----------------------------------------------------------------------------
Point(v, kind, k, customer, delta) ==
    [visit |-> v, kind |-> kind, nth |-> k, customer |-> customer, delta |-> delta]

CountOf(v, kind) == Cardinality({p \in points : p.visit = v /\ p.kind = kind})

(* Wrong on purpose: a deduction that was given back is still seen.         *)
HasAnyDeduction(v) == CountOf(v, "inspection") > 0

HasLiveDeduction(v) == CountOf(v, "inspection") > CountOf(v, "inspection_reverse")

(* The points of visit v, whose row is r and was not rejected.              *)
Synced(v, r) ==
    IF PointsFor(r.lines) = 0 \/ r.merchant = Null \/ HasLiveDeduction(v) THEN points
    ELSE points \cup {Point(v, "inspection", CountOf(v, "inspection"),
                            r.merchant, - PointsFor(r.lines))}

GivenBack(v) ==
    IF ~ HasLiveDeduction(v) THEN points
    ELSE LET newest == CHOOSE p \in points :
                /\ p.visit = v /\ p.kind = "inspection"
                /\ \A q \in points : q.visit = v /\ q.kind = "inspection" => q.nth =< p.nth
         IN  points \cup {Point(v, "inspection_reverse", CountOf(v, "inspection_reverse"),
                                newest.customer, - newest.delta)}

-----------------------------------------------------------------------------
Turn(v) ==
    LET turns == {w.turn : w \in {u \in outs : u.visit = v}}
    IN  IF turns = {} THEN 1 ELSE Max(turns) + 1

(* The bound on what one visit moves.                                       *)
MayTurn(v) == Turn(v) =< MaxTurns /\ CountOf(v, "inspection") < MaxTurns

(* A visit that was sent before is answered with its row.                   *)
CreateVisit(v, r, lines, merchant) ==
    /\ visit[v] = Null
    /\ MayTurn(v)
    /\ LET row(moved) == [rep |-> r, lines |-> lines, merchant |-> merchant,
                          status |-> "accepted", moved |-> moved]
       IN
       \/ \E c \in Places(r) :
            /\ Enough(lines, c)
            /\ outs' = outs \cup OutOf(v, lines, c, Turn(v))
            /\ visit' = [visit EXCEPT ![v] = row(OutOf(v, lines, c, Turn(v)))]
       \/ /\ Places(r) = {}
          /\ outs' = outs
          /\ visit' = [visit EXCEPT ![v] = row({})]
    /\ points' = Synced(v, visit'[v])
    /\ UNCHANGED <<undone, custody>>

(* A movement is reversed once; a second reversal refuses the request.      *)
ReturnStock(v) ==
    /\ visit[v].moved \cap undone = {}
    /\ undone' = undone \cup visit[v].moved

RejectVisit(v) ==
    /\ visit[v] # Null /\ visit[v].status # "rejected"
    /\ ReturnStock(v)
    /\ points' = GivenBack(v)
    /\ visit' = [visit EXCEPT ![v].status = "rejected"]
    /\ UNCHANGED <<outs, custody>>

(* Without a custody, what was returned stays where it is.                  *)
AcceptVisit(v) ==
    /\ visit[v] # Null /\ visit[v].status # "accepted"
    /\ MayTurn(v)
    /\ LET lines == [i \in {w.item : w \in visit[v].moved} |-> visit[v].lines[i]]
       IN
       \/ \E c \in Places(visit[v].rep) :
            /\ Enough(lines, c)
            /\ outs' = outs \cup OutOf(v, lines, c, Turn(v))
            /\ visit' = [visit EXCEPT ![v].status = "accepted",
                                      ![v].moved = OutOf(v, lines, c, Turn(v))]
       \/ /\ Places(visit[v].rep) = {}
          /\ outs' = outs
          /\ visit' = [visit EXCEPT ![v].status = "accepted"]
    /\ points' = Synced(v, visit'[v])
    /\ UNCHANGED <<undone, custody>>

DeleteVisit(v) ==
    /\ visit[v] # Null
    /\ IF visit[v].status = "rejected" THEN undone' = undone ELSE ReturnStock(v)
    /\ points' = {p \in points : p.visit # v}
    /\ visit' = [visit EXCEPT ![v] = Null]
    /\ UNCHANGED <<outs, custody>>

-----------------------------------------------------------------------------
(* A custody is hidden, shown again, or given to another representative who *)
(* holds none.                                                              *)
UpdateCustody(c, r, active) ==
    /\ custody[c] # [rep |-> r, active |-> active]
    /\ r # custody[c].rep => \A d \in Custody \ {c} : custody[d].rep # r
    /\ custody' = [custody EXCEPT ![c] = [rep |-> r, active |-> active]]
    /\ UNCHANGED <<visit, outs, undone, points>>

InspectionInit ==
    /\ visit = [v \in Visit |-> Null]
    /\ outs = {} /\ undone = {} /\ points = {}
    /\ custody \in [Custody -> [rep : Visitor, active : {TRUE}]]
    /\ \A c, d \in Custody : c # d => custody[c].rep # custody[d].rep

InspectionNext ==
    \/ \E v \in Visit :
        \/ \E r \in Visitor, lines \in Basket, merchant \in Merchant \cup {Null} :
            CreateVisit(v, r, lines, merchant)
        \/ RejectVisit(v) \/ AcceptVisit(v) \/ DeleteVisit(v)
    \/ \E c \in Custody, r \in Visitor, active \in BOOLEAN : UpdateCustody(c, r, active)

-----------------------------------------------------------------------------
LiveOf(v) == {w \in outs \ undone : w.visit = v}

(* A visit that stands has all its parts out of one custody, or, where the  *)
(* representative had none, no part of any; one that was rejected or is     *)
(* gone has nothing out (inspection_service.py: create_inspection,          *)
(* _return_stock, _deduct_stock_again).                                     *)
OutOfOneCustody ==
    \A v \in Visit :
        LET live == LiveOf(v)
        IN  /\ visit[v] = Null \/ visit[v].status = "rejected" => live = {}
            /\ live # {} => \E c \in Custody, t \in 1..MaxTurns :
                    live = OutOf(v, visit[v].lines, c, t)

(* No custody gives out more than it had (stock_service.py: post_movement). *)
NothingOwed == \A c \in Custody, i \in Part : StockOf(i, c) >= 0

(* What a visit that stands costs merchant m.                               *)
Due(r, m) ==
    IF r # Null /\ r.merchant = m /\ r.status = "accepted" THEN PointsFor(r.lines) ELSE 0

PaidBy(m) == SumFunctionOnSet([p \in points |-> p.delta], {p \in points : p.customer = m})

(* A merchant has paid for exactly the visits that stand in his name        *)
(* (inspection_service.py: sync_inspection_points,                          *)
(* _reverse_inspection_points, _delete_inspection_points).                  *)
PointsOfStanding ==
    \A m \in Merchant :
        PaidBy(m) = - SumFunctionOnSet([v \in Visit |-> Due(visit[v], m)], Visit)

InspectionTypeOK ==
    /\ visit \in [Visit -> VisitRow \cup {Null}]
    /\ outs \subseteq OutRow /\ IsFiniteSet(outs) /\ undone \subseteq outs
    /\ points \subseteq PointRow /\ IsFiniteSet(points)

(* A visit that stands has its parts out of one custody and its points from *)
(* the merchant, no other has (inspection_service.py: reject_inspection,    *)
(* accept_inspection, delete_inspection).                                   *)
VisitsAddUp == InspectionTypeOK /\ OutOfOneCustody /\ NothingOwed /\ PointsOfStanding
=============================================================================
