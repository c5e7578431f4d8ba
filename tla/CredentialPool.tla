--------------------------- MODULE CredentialPool ---------------------------
(***************************************************************************)
(* CredentialPool of app/services/credential_pool.py and the tasks that    *)
(* hold its leases.  A credential is its position in self._credentials.    *)
(*                                                                         *)
(* select() and mark_unhealthy() read the clock before they take the lock: *)
(* the time they use may be up to MaxLag ticks old when the critical       *)
(* section runs.  On the event loop of the service nothing runs in between *)
(* and MaxLag is 0; the lock promises the same to threads, which may be    *)
(* preempted there.                                                        *)
(***************************************************************************)
EXTENDS Naturals

CONSTANTS
  Tasks,     \* the callers of select()
  N,         \* len(self._credentials)
  Cooldown,  \* self._cooldown_seconds
  MaxLag,    \* how old a clock reading is when it is used
  MaxTime    \* the clock stops here, to bound the runs

ASSUME PoolAssumption ==
  /\ N \in Nat \ {0}
  /\ Cooldown \in Nat /\ MaxLag \in Nat /\ MaxTime \in Nat \ {0}

VARIABLES
  now,      \* time.monotonic()
  cursor,   \* self._cursor
  until,    \* self._unhealthy_until, 0 for a missing entry as in .get(number, 0)
  lease,    \* the credential each task's call holds: one or none
  refused   \* tasks whose last select() raised CredentialsUnavailable

poolVars == <<cursor, until, lease, refused>>

Slots == 0..(N - 1)

\* A reading of the clock that a critical section entered now may hold.
Readings == {seen \in 1..now : now <= seen + MaxLag}

PoolInit ==
  /\ cursor = 0
  /\ until = [c \in Slots |-> 0]
  /\ lease = [t \in Tasks |-> {}]
  /\ refused = {}

Slot(k) == (cursor + k) % N

\* Slip: range(len(self._credentials) - 1).
EligibleButLast(seen) == {k \in 0..(N - 2) : until[Slot(k)] <= seen}

\* The turns of the scan at which a credential is not cooling down.
Eligible(seen) == {k \in 0..(N - 1) : until[Slot(k)] <= seen}

\* Slip: the cursor moves past the credentials it skips, not past the chosen one.
SelectSticky(t, seen) ==
  /\ lease[t] = {}
  /\ \E k \in Eligible(seen) :
       /\ \A j \in Eligible(seen) : k <= j
       /\ cursor' = Slot(k)
       /\ until' = [until EXCEPT ![Slot(k)] = 0]
       /\ lease' = [lease EXCEPT ![t] = {Slot(k)}]
  /\ refused' = refused \ {t}

\* Slip: the cursor is not taken modulo the number of credentials.
SelectUnwrapped(t, seen) ==
  /\ lease[t] = {}
  /\ \E k \in Eligible(seen) :
       /\ \A j \in Eligible(seen) : k <= j
       /\ cursor' = Slot(k) + 1
       /\ until' = [until EXCEPT ![Slot(k)] = 0]
       /\ lease' = [lease EXCEPT ![t] = {Slot(k)}]
  /\ refused' = refused \ {t}

\* select() returns the first eligible credential and forgets its cooldown.
Select(t, seen) ==
  /\ lease[t] = {}
  /\ \E k \in Eligible(seen) :
       /\ \A j \in Eligible(seen) : k <= j
       /\ cursor' = (Slot(k) + 1) % N
       /\ until' = [until EXCEPT ![Slot(k)] = 0]
       /\ lease' = [lease EXCEPT ![t] = {Slot(k)}]
  /\ refused' = refused \ {t}

\* select() goes once round, which leaves the cursor where it was, and raises.
SelectFails(t, seen) ==
  /\ lease[t] = {}
  /\ Eligible(seen) = {}
  /\ refused' = refused \cup {t}
  /\ UNCHANGED <<cursor, until, lease>>

\* Slip: setdefault, so a second rejection does not restart the cooldown.
RejectOnce(t, seen) ==
  /\ \E c \in lease[t] :
       until' = [until EXCEPT ![c] = IF @ = 0 THEN seen + Cooldown ELSE @]
  /\ lease' = [lease EXCEPT ![t] = {}]
  /\ UNCHANGED <<cursor, refused>>

\* The call was answered 401, 403 or 429: mark_unhealthy().
Reject(t, seen) ==
  /\ \E c \in lease[t] : until' = [until EXCEPT ![c] = seen + Cooldown]
  /\ lease' = [lease EXCEPT ![t] = {}]
  /\ UNCHANGED <<cursor, refused>>

\* The call ended any other way; the pool is told nothing.
Finish(t) ==
  /\ lease[t] # {}
  /\ lease' = [lease EXCEPT ![t] = {}]
  /\ UNCHANGED <<cursor, until, refused>>

PoolStep(t) ==
  \/ \E seen \in Readings : Select(t, seen) \/ SelectFails(t, seen) \/ Reject(t, seen)
  \/ Finish(t)
=============================================================================
