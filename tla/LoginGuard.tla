------------------------------ MODULE LoginGuard ------------------------------
(***************************************************************************)
(* The counter of failed logins of one name from one address               *)
(* (src/backend/src/core/login_guard.py, api/auth.py: login).              *)
(*                                                                         *)
(* A login looks at the counter, verifies the password, then records how   *)
(* it went: three steps, and only each look or record is under the lock,   *)
(* so logins under way together interleave.  The counter lives in the      *)
(* memory of the server and is gone when it restarts.                      *)
(***************************************************************************)
EXTENDS Integers, FiniteSets, Functions, NullValue

CONSTANTS
    Login,          \* requests that may be under way together
    MaxFailures, LockTime, ForgetTime,
    EndOfTime       \* bound on the clock

ASSUME LoginAssumption == IsFiniteSet(Login) /\ MaxFailures \in Nat \ {0}
ASSUME TimesAssumption ==
    /\ LockTime \in Nat /\ ForgetTime \in Nat /\ EndOfTime \in Nat
    /\ LockTime =< ForgetTime

Instants == 0..EndOfTime
FailureRow == [count : Nat, last : Instants]

ASSUME LoginNull == Null \notin FailureRow

VARIABLES
    now,
    failures,       \* Null, or how many and when the last was recorded
    verifying,      \* logins that were let through
    failed          \* history: failures recorded at each instant since a success

loginVars == <<now, failures, verifying, failed>>

(* Wrong on purpose: one failure more is let through.                       *)
LockedLate == failures # Null /\ failures.count > MaxFailures

Locked == failures # Null /\ failures.count >= MaxFailures

(* A lock that has run out leaves one failure to go.                        *)
LetThrough(r) ==
    /\ r \notin verifying
    /\ Locked => now - failures.last >= LockTime
    /\ failures' = IF Locked THEN [count |-> MaxFailures - 1, last |-> now] ELSE failures
    /\ verifying' = verifying \cup {r}
    /\ UNCHANGED <<now, failed>>

(* What was not added to for long is forgotten first.                       *)
RecordFailure(r) ==
    LET kept == IF failures # Null /\ now - failures.last > ForgetTime THEN Null ELSE failures
    IN
    /\ r \in verifying
    /\ failures' = [count |-> IF kept = Null THEN 1 ELSE kept.count + 1, last |-> now]
    /\ failed' = [failed EXCEPT ![now] = @ + 1]
    /\ verifying' = verifying \ {r}
    /\ now' = now

RecordSuccess(r) ==
    /\ r \in verifying
    /\ failures' = Null
    /\ failed' = [t \in Instants |-> 0]
    /\ verifying' = verifying \ {r}
    /\ now' = now

ServerRestart ==
    /\ failures' = Null /\ verifying' = {}
    /\ failed' = [t \in Instants |-> 0]
    /\ now' = now

Tick ==
    /\ now < EndOfTime
    /\ now' = now + 1
    /\ UNCHANGED <<failures, verifying, failed>>

LoginInit ==
    /\ now = 0 /\ failures = Null /\ verifying = {}
    /\ failed = [t \in Instants |-> 0]

LoginNext ==
    \/ \E r \in Login : LetThrough(r) \/ RecordFailure(r) \/ RecordSuccess(r)
    \/ ServerRestart \/ Tick

-----------------------------------------------------------------------------
FailedIn(first, last) == SumFunctionOnSet(failed, {t \in Instants : first =< t /\ t =< last})

(* Within the time of a lock no more failures are recorded than set it off, *)
(* and those of logins then under way (login_guard.py: seconds_locked,      *)
(* record_failure).                                                         *)
FailuresAreFew ==
    \A first, last \in Instants : last - first < LockTime =>
        FailedIn(first, last) =< MaxFailures - 1 + Cardinality(Login)

(* Nobody is locked out who did not fail so often                           *)
(* (login_guard.py: seconds_locked, record_success).                        *)
LockedForCause ==
    failures # Null => failures.count =< FailedIn(0, now)

(* Failed logins are few, and none is refused without them                  *)
(* (login_guard.py: seconds_locked, record_failure).                        *)
GuardHolds == FailuresAreFew /\ LockedForCause
=============================================================================
