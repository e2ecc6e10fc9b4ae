------------------------------ MODULE MCMoney ------------------------------
(* Instances of Cash, Journal and Fleet.  A behaviour takes place in one   *)
(* world, where one of them moves: "cash_alone" and "journal_alone" serve   *)
(* one request at a time, "journal_race" lets requests that post race, and  *)
(* otherwise only drops documents; "fleet_vouchers" leaves what vehicles    *)
(* cost to the vouchers, and "fleet_drivers" gives them to drivers.         *)
EXTENDS Cash, Journal, Fleet, TLC

VARIABLE world

vars == <<world, cashVars, journalVars, fleetVars>>

MCYear == [m \in Month |-> 1]
(* Records are called like entries, and vehicles like requests.             *)
MCSymmetry == Permutations(ByHand) \cup Permutations(Poster)

Init ==
    /\ world \in {"cash_alone", "journal_alone", "journal_race", "fleet_vouchers", "fleet_drivers"}
    /\ CashInit /\ JournalInit /\ FleetInit

Next ==
    /\ UNCHANGED world
    /\ \/ /\ world = "cash_alone"
          /\ CashNext
          /\ Uninterrupted
          /\ UNCHANGED <<journalVars, fleetVars>>
       \/ /\ world = "journal_alone"
          /\ JournalNext
          /\ \E r \in Poster :
                /\ \A q \in Poster \ {r} : posting[q] = Null /\ posting'[q] = Null
                /\ posting[r] # Null => posting' # posting
          /\ UNCHANGED <<cashVars, fleetVars>>
       \/ /\ world = "journal_race"
          /\ JournalNext
          /\ OnlyNew
          /\ \A e \in Entry \ Existing : entry'[e] # Null => entry'[e].state = "posted"
          /\ UNCHANGED <<cashVars, fleetVars>>
       \/ /\ world \in {"fleet_vouchers", "fleet_drivers"}
          /\ FleetNext
          /\ IF world = "fleet_drivers" THEN carRecord' = carRecord /\ slip' = slip
             ELSE LeftToVouchers /\ driving' = driving /\ driverOf' = driverOf
          /\ UNCHANGED <<cashVars, journalVars>>

Spec == Init /\ [][Next]_vars

-----------------------------------------------------------------------------
(* Entries are well formed, and the chain of a restricted journal stays     *)
(* whole while requests that number new entries race                        *)
(* (secure_hash_service.py: stamp).                                         *)
ChainIntactRace == JournalTypeOK /\ (world = "journal_race" => ChainIntact)
=============================================================================
