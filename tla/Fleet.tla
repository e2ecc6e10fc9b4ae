-------------------------------- MODULE Fleet --------------------------------
(***************************************************************************)
(* Vehicles, what they cost and who drives them                            *)
(* (src/backend/src/services/fleet_service.py, src/backend/src/api/        *)
(* fleet.py), with the expense vouchers that pay for it                    *)
(* (src/backend/src/services/voucher_service.py).                          *)
(*                                                                         *)
(* An expense on the account of a vehicle makes a record of that vehicle   *)
(* by itself; a record made by hand is paid by a voucher that names it, or *)
(* linked to one.  Records of fuel, maintenance and violations behave the  *)
(* same here; those of faults do not.  Requests are taken at one instant.  *)
(***************************************************************************)
EXTENDS Integers, FiniteSets, NullValue

CONSTANTS
    Car, Driver, Day,
    CarRecord,      \* records of what vehicles cost
    Slip,           \* expense vouchers
    Cost            \* amounts

(* Rows of what vehicles cost, and of vouchers.                             *)
CarRow == [car : Car, fault : BOOLEAN, cost : Cost, voucher : Slip \cup {Null}, auto : BOOLEAN]
SlipRow == [car : Car \cup {Null}, amount : Cost, fleet : BOOLEAN, reversed : BOOLEAN]

ASSUME DayAssumption == Day \subseteq Nat
ASSUME FleetNull == Null \notin CarRow \cup SlipRow \cup Slip \cup Driver

VARIABLES
    carRecord,  \* rows of vehicle_fuel and the like
    slip,       \* rows of voucher
    driving,    \* rows of vehicle_driver_assignment without an end
    driverOf    \* current_driver_id of each vehicle

fleetVars == <<carRecord, slip, driving, driverOf>>

VoucherLive(s) == s # Null /\ slip[s] # Null /\ ~ slip[s].reversed
LinkedTo(s) == {r \in CarRecord : carRecord[r] # Null /\ carRecord[r].voucher = s}
Faults == {r \in CarRecord : carRecord[r] # Null /\ carRecord[r].fault}

(* Wrong on purpose: nothing is known to be of a voucher's own making.      *)
MadeByNone(s) == {}

MadeBy(s) == {r \in LinkedTo(s) : carRecord[r].auto}

Without(R) == [r \in CarRecord |-> IF r \in R THEN Null ELSE carRecord[r]]

-----------------------------------------------------------------------------
AddRecord(r, c, fault, n) ==
    /\ carRecord[r] = Null
    /\ carRecord' = [carRecord EXCEPT ![r] =
          [car |-> c, fault |-> fault, cost |-> n, voucher |-> Null, auto |-> FALSE]]
    /\ UNCHANGED <<slip, driving, driverOf>>

ChangeRecord(r, c, n) ==
    /\ carRecord[r] # Null
    /\ carRecord' = [carRecord EXCEPT ![r].car = c, ![r].cost = n]
    /\ UNCHANGED <<slip, driving, driverOf>>

DropRecord(r) ==
    /\ carRecord[r] # Null /\ ~ VoucherLive(carRecord[r].voucher)
    /\ carRecord' = Without({r})
    /\ UNCHANGED <<slip, driving, driverOf>>

-----------------------------------------------------------------------------
Noted(s, c, n, fleet) ==
    slip' = [slip EXCEPT ![s] = [car |-> c, amount |-> n, fleet |-> fleet, reversed |-> FALSE]]

(* What sync_expense_voucher makes of voucher s, out of records rows.       *)
Synced(rows, r, s, c, n, fleet) ==
    IF fleet \/ c = Null THEN carRecord' = rows
    ELSE /\ rows[r] = Null
         /\ carRecord' = [rows EXCEPT ![r] =
                [car |-> c, fault |-> FALSE, cost |-> n, voucher |-> s, auto |-> TRUE]]

(* c is the vehicle whose account it is, if there is one.                   *)
CreateExpense(s, r, c, n) ==
    /\ slip[s] = Null
    /\ Noted(s, c, n, FALSE)
    /\ Synced(carRecord, r, s, c, n, FALSE)
    /\ UNCHANGED <<driving, driverOf>>

(* A record is paid: the voucher's reference says so and makes no other.    *)
PostExpense(r, s, c, n) ==
    /\ carRecord[r] # Null /\ ~ VoucherLive(carRecord[r].voucher)
    /\ slip[s] = Null
    /\ Noted(s, c, n, TRUE)
    /\ carRecord' = [carRecord EXCEPT ![r].voucher = s]
    /\ UNCHANGED <<driving, driverOf>>

(* The records the voucher made by itself make room, r too if it is one.    *)
LinkVoucher(r, s) ==
    LET kept == Without(MadeBy(s)) IN
    /\ carRecord[r] # Null /\ VoucherLive(s)
    /\ LinkedTo(s) \ MadeBy(s) \subseteq {r}
    /\ carRecord' = IF kept[r] = Null THEN kept ELSE [kept EXCEPT ![r].voucher = s]
    /\ UNCHANGED <<slip, driving, driverOf>>

UnlinkVoucher(r) ==
    /\ carRecord[r] # Null
    /\ carRecord' = [carRecord EXCEPT ![r].voucher = Null]
    /\ UNCHANGED <<slip, driving, driverOf>>

(* Faults are not looked for, and their foreign key keeps the voucher.      *)
Removable(s) == slip[s] # Null /\ LinkedTo(s) \cap Faults = {}

(* Written anew under its number, and its records by hand linked again.     *)
EditExpense(s, r, c, n, fleet) ==
    /\ Removable(s) /\ ~ slip[s].reversed
    /\ fleet => slip[s].fleet
    /\ Noted(s, c, n, fleet)
    /\ Synced(Without(MadeBy(s)), r, s, c, n, fleet)
    /\ UNCHANGED <<driving, driverOf>>

ReverseExpense(s) ==
    /\ VoucherLive(s)
    /\ slip' = [slip EXCEPT ![s].reversed = TRUE]
    /\ carRecord' = Without(MadeBy(s))
    /\ UNCHANGED <<driving, driverOf>>

(* With its mirror.                                                         *)
DeleteExpense(s) ==
    /\ Removable(s)
    /\ slip' = [slip EXCEPT ![s] = Null]
    /\ carRecord' = [r \in CarRecord |->
          IF r \in MadeBy(s) THEN Null
          ELSE IF r \in LinkedTo(s) THEN [carRecord[r] EXCEPT !.voucher = Null] ELSE carRecord[r]]
    /\ UNCHANGED <<driving, driverOf>>

-----------------------------------------------------------------------------
OpenFor(c) == {a \in driving : a.car = c}

(* Wrong on purpose: a driver who gets a vehicle keeps the one he had.      *)
OtherCarsNot(e) == {}

OtherCars(e) == {a \in driving : a.driver = e}

(* Vehicle c is given to e, or to nobody when e is Null.                    *)
AssignDriver(c, e, day) ==
    /\ IF \E a \in OpenFor(c) : a.driver = e
       THEN driverOf' = [driverOf EXCEPT ![c] = e] /\ UNCHANGED driving
       ELSE LET others == IF e = Null THEN {} ELSE OtherCars(e) IN
            /\ \A a \in OpenFor(c) : a.since =< day
            /\ driving' = (driving \ (OpenFor(c) \cup others)) \cup
                  {[car |-> c, driver |-> x, since |-> day] : x \in {e} \ {Null}}
            /\ driverOf' = [d \in Car |->
                  IF d = c THEN e
                  ELSE IF driverOf[d] = e /\ \E a \in others : a.car = d THEN Null
                  ELSE driverOf[d]]
    /\ UNCHANGED <<carRecord, slip>>

-----------------------------------------------------------------------------
FleetInit ==
    /\ carRecord = [r \in CarRecord |-> Null]
    /\ slip = [s \in Slip |-> Null]
    /\ driving = {}
    /\ driverOf = [c \in Car |-> Null]

RecordNext ==
    \E r \in CarRecord :
        \/ \E c \in Car, n \in Cost :
              \/ \E fault \in BOOLEAN : AddRecord(r, c, fault, n)
              \/ ChangeRecord(r, c, n)
        \/ DropRecord(r) \/ UnlinkVoucher(r)

ExpenseNext ==
    \E s \in Slip :
        \/ \E r \in CarRecord, c \in Car \cup {Null}, n \in Cost :
              \/ CreateExpense(s, r, c, n)
              \/ PostExpense(r, s, c, n)
              \/ \E fleet \in BOOLEAN : EditExpense(s, r, c, n, fleet)
        \/ \E r \in CarRecord : LinkVoucher(r, s)
        \/ ReverseExpense(s) \/ DeleteExpense(s)

DriverNext == \E c \in Car, e \in Driver \cup {Null}, day \in Day : AssignDriver(c, e, day)

FleetNext == RecordNext \/ ExpenseNext \/ DriverNext

FleetSpec == FleetInit /\ [][FleetNext]_fleetVars

(* A record that came of a voucher stays with it and as it made it, and a   *)
(* voucher with a record made by hand is not edited into one that makes     *)
(* another.                                                                 *)
LeftToVouchers ==
    /\ \A r \in CarRecord : carRecord[r] # Null /\ carRecord[r].auto =>
          \/ carRecord'[r] \in {carRecord[r], Null}
          \/ carRecord[r].voucher \in {s \in Slip : slip'[s] # slip[s]}
    /\ \A s \in Slip : LinkedTo(s) # MadeBy(s) => MadeBy(s)' = {}

-----------------------------------------------------------------------------
FleetTypeOK ==
    /\ carRecord \in [CarRecord -> CarRow \cup {Null}]
    /\ slip \in [Slip -> SlipRow \cup {Null}]
    /\ driving \subseteq [car : Car, driver : Driver, since : Day]
    /\ driverOf \in [Car -> Driver \cup {Null}]

(* An expense stands on one record, and a record that came of a voucher is  *)
(* what the voucher says.                                                   *)
CountedOnce ==
    \A s \in Slip :
        /\ \A r, x \in LinkedTo(s) : r = x
        /\ \A r \in MadeBy(s) : VoucherLive(s) /\ carRecord[r].cost = slip[s].amount
                                /\ carRecord[r].car = slip[s].car

(* A vehicle has the driver it was given to, and nobody drives two.         *)
DriversAgree ==
    /\ \A c \in Car, e \in Driver : driverOf[c] = e <=> \E a \in driving : a.car = c /\ a.driver = e
    /\ \A a, b \in driving : a.car = b.car \/ a.driver = b.driver => a = b

(* A vehicle's driver is the one it was last given to, and nobody has two   *)
(* (fleet_service.py: assign_driver); where records are left to their       *)
(* vouchers, an expense is counted on one vehicle, and as what was paid     *)
(* (fleet_service.py: link_voucher, sync_expense_voucher).                  *)
FleetAddsUp == FleetTypeOK /\ DriversAgree /\ CountedOnce
=============================================================================
