----------------------------- MODULE MCTransfers -----------------------------
(* Instances of Transfers for TLC.  In the world "alone" there is one        *)
(* request at a time, in "race" there may be two but fewer drafts; "free"    *)
(* leaves everything to the constants.                                       *)
EXTENDS Transfers, TLC

CONSTANTS store, van, valve, pump, r1, r2, OpenStore, OpenVan, World

VARIABLE world

MCLocator == Item \X Place
MCOpening == [l \in Locator |-> IF l[2] = store THEN OpenStore ELSE OpenVan]
MCSymmetry == Permutations(Txn)

L(item, qty) == [item |-> item, qty |-> qty]
D(src, dst, lines, headerOnly) ==
    [src |-> src, dst |-> dst, lines |-> lines, headerOnly |-> headerOnly]
R(src, dst, lines) == [src |-> src, dst |-> dst, lines |-> lines]

(* One item: two lines of it, or the header alone, in either direction.      *)
DraftsOneItem ==
    { D(store, van, <<L(valve, 1), L(valve, 2)>>, FALSE),
      D(store, van, <<L(valve, 2)>>, TRUE),
      D(van, store, <<L(valve, 1)>>, FALSE) }
RevisionsOneItem ==
    { R(store, van, <<L(valve, 1)>>), R(store, van, <<L(valve, 2), L(valve, 2)>>),
      R(van, store, <<L(valve, 1)>>) }
EditsOneItem == {L(valve, 1), L(valve, 2)}

(* Two requests race on one transfer.                                        *)
DraftsRace == {D(store, van, <<L(valve, 1), L(valve, 1)>>, FALSE),
               D(store, van, <<L(valve, 2)>>, TRUE)}
RevisionsRace == {R(van, store, <<L(valve, 1)>>)}
EditsRace == {L(valve, 2)}

DraftsEither == DraftsOneItem \cup DraftsRace

(* Two items, taken in opposite orders: the lock order of two approvals.     *)
DraftsTwoItems ==
    { D(store, van, <<L(valve, 1), L(pump, 1)>>, FALSE),
      D(store, van, <<L(pump, 1), L(valve, 1)>>, FALSE) }

None == {}

-----------------------------------------------------------------------------
Drawn(d, drafts) ==
    \E x \in drafts :
        /\ transfer'[d].src = x.src /\ transfer'[d].head.qty = x.lines[1].qty
        /\ Len(transfer'[d].lines) = IF x.headerOnly THEN 0 ELSE Len(x.lines)

AskedInRace(r) ==
    /\ r.op = "revise" => r.ask \in RevisionsRace
    /\ r.op \in {"add_line", "set_line"} => r.ask.qty = 2
    /\ r.op \in {"revise", "add_line"} => r.seen.nextId =< 3

MCInit == TransferInit /\ world \in World

MCNext ==
    /\ TransferNext
    /\ UNCHANGED world
    /\ world = "alone" => AloneStep
    /\ world = "race" => \A t \in Txn : req'[t] # Null => AskedInRace(req'[t])
    /\ world # "free" => \A d \in Doc : status[d] = "none" /\ status'[d] = "pending" =>
          Drawn(d, IF world = "alone" THEN DraftsOneItem ELSE DraftsRace)

MCSpec == MCInit /\ [][MCNext]_<<world, transferVars>>

-----------------------------------------------------------------------------
(* One request at a time, an approved transfer has moved exactly its lines,  *)
(* and any other nothing (transfer_service.py: revise, _plan_revision).      *)
MovedAsApprovedAlone == world = "alone" => MovedAsApproved

(* And an automatic approval moves what was asked or what there is           *)
(* (transfer_service.py: approve_available).                                 *)
AutoApprovalAlone == [][world = "alone" => AutoApprovalGives]_transferVars
=============================================================================
