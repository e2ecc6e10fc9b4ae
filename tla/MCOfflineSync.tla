--------------------------- MODULE MCOfflineSync ---------------------------
(* Instances of OfflineSync for TLC.                                         *)
EXTENDS OfflineSync, TLC

CONSTANTS auto, button, c1, c2

MCUuid == 1..6
MCKind == <<"sale", "bonus", "receipt", "inspection", "transfer", "transfer">>
MCBase == <<Null, 1, Null, Null, Null, Null>>

(* An edit of the second transfer changes how many lines there are.          *)
MCLineCount == [u \in MCUuid |-> [v \in 1..OfficeVersion |-> IF u = 6 THEN v ELSE 1]]

(* AutoSync.run with and without invoices, cut down to the kinds there are,  *)
(* and the upload buttons of the invoices' and the transfers' screens.       *)
PlanCash ==
    [p \in Pusher |-> IF p = auto THEN {<<"sale", "receipt", "transfer", "pull">>}
                                  ELSE {<<"sale", "refresh">>}]
PlanAll ==
    [p \in Pusher |-> IF p = auto THEN {<<"sale", "pull">>, <<"inspection", "transfer">>}
                                  ELSE {<<"sale", "refresh">>, <<"transfer">>}]

InvoiceOrVisit == {{1, 2}, {4, 5}}
InvoiceAndReceiptOrTransfers == {{1, 3}, {5, 6}}
=============================================================================
