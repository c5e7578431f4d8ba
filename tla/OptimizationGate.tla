-------------------------- MODULE OptimizationGate --------------------------
(***************************************************************************)
(* OptimizationGate of app/http_safety.py, together with the               *)
(* asyncio.Condition and the asyncio.timeout of app/main.py it runs under. *)
(*                                                                         *)
(* Granularity: one action is what a task does between two suspension      *)
(* points of the event loop.  The condition's lock never appears because   *)
(* it is never held across one: every critical section of acquire() is     *)
(* synchronous but for wait(), which releases the lock before it suspends, *)
(* so whoever asks for the lock finds it free and does not suspend.        *)
(*                                                                         *)
(* A request is a client's call slot: it may call again once answered.     *)
(***************************************************************************)
EXTENDS Naturals, FiniteSets, Sequences, SequencesExt

CONSTANTS
  Requests,    \* calls of POST /optimize-energy that may be in flight
  MaxActive,   \* max_concurrent_optimizations
  MaxQueued    \* max_queued_optimizations

ASSUME GateAssumption ==
  /\ IsFiniteSet(Requests)
  /\ MaxActive \in Nat \ {0}
  /\ MaxQueued \in Nat

VARIABLES
  active,      \* self._active
  waiting,     \* self._waiting
  waiters,     \* self._condition._waiters, one future per suspended wait()
  pc,          \* where each request's task is suspended
  expired,     \* tasks whose deadline cancelled them and that have not run since
  outcome      \* how the last call of each request ended

vars == <<active, waiting, waiters, pc, expired, outcome>>

Places == {"idle", "asleep", "woken", "running"}
Outcomes == {"none", "served", "rejected", "expired"}

At(place) == {r \in Requests : pc[r] = place}
Running == At("running")
Queued == At("asleep") \cup At("woken")

\* A future that notify() may still resolve: neither resolved nor cancelled.
Pending(r) == pc[r] = "asleep" /\ r \notin expired

Init ==
  /\ active = 0
  /\ waiting = 0
  /\ waiters = <<>>
  /\ pc = [r \in Requests |-> "idle"]
  /\ expired = {}
  /\ outcome = [r \in Requests |-> "none"]

(***************************************************************************)
(* asyncio.Condition                                                       *)
(***************************************************************************)

\* deque.remove(fut) when the woken or cancelled task runs.
Dequeued(r) == RemoveAt(waiters, CHOOSE i \in DOMAIN waiters : waiters[i] = r)

\* notify(1): the oldest pending future, if there is one.
FirstPending ==
  {waiters[i] : i \in {k \in DOMAIN waiters :
                         /\ Pending(waiters[k])
                         /\ \A j \in 1..(k - 1) : ~Pending(waiters[j])}}

(***************************************************************************)
(* acquire(): the three ways its first critical section ends               *)
(***************************************************************************)

Admit(r) ==
  /\ pc[r] = "idle"
  /\ active < MaxActive
  /\ active' = active + 1
  /\ pc' = [pc EXCEPT ![r] = "running"]
  /\ outcome' = [outcome EXCEPT ![r] = "none"]
  /\ UNCHANGED <<waiting, waiters, expired>>

Enqueue(r) ==
  /\ pc[r] = "idle"
  /\ active >= MaxActive
  /\ waiting < MaxQueued
  /\ waiting' = waiting + 1
  /\ waiters' = Append(waiters, r)
  /\ pc' = [pc EXCEPT ![r] = "asleep"]
  /\ outcome' = [outcome EXCEPT ![r] = "none"]
  /\ UNCHANGED <<active, expired>>

\* OptimizationCapacityError, answered with 500.
Reject(r) ==
  /\ pc[r] = "idle"
  /\ active >= MaxActive
  /\ waiting >= MaxQueued
  /\ outcome' = [outcome EXCEPT ![r] = "rejected"]
  /\ UNCHANGED <<active, waiting, waiters, pc, expired>>

(***************************************************************************)
(* wait_for(): a notified task runs and evaluates the predicate again      *)
(***************************************************************************)

\* Slip: "await condition.wait()" under an if, so the predicate is not evaluated again.
PromoteUnchecked(r) ==
  /\ pc[r] = "woken" /\ r \notin expired
  /\ waiters' = Dequeued(r)
  /\ waiting' = waiting - 1
  /\ active' = active + 1
  /\ pc' = [pc EXCEPT ![r] = "running"]
  /\ UNCHANGED <<expired, outcome>>

Promote(r) ==
  /\ pc[r] = "woken" /\ r \notin expired
  /\ active < MaxActive
  /\ waiters' = Dequeued(r)
  /\ waiting' = waiting - 1
  /\ active' = active + 1
  /\ pc' = [pc EXCEPT ![r] = "running"]
  /\ UNCHANGED <<expired, outcome>>

\* A caller that arrived in between took the slot: back to the tail.
SleepAgain(r) ==
  /\ pc[r] = "woken" /\ r \notin expired
  /\ active >= MaxActive
  /\ waiters' = Append(Dequeued(r), r)
  /\ pc' = [pc EXCEPT ![r] = "asleep"]
  /\ UNCHANGED <<active, waiting, expired, outcome>>

(***************************************************************************)
(* The deadline of main.optimize_energy                                    *)
(***************************************************************************)

\* Slip: the timeout is entered inside the gate, so it only covers the body.
ExpireInsideGate(r) ==
  /\ pc[r] = "running" /\ r \notin expired
  /\ expired' = expired \cup {r}
  /\ UNCHANGED <<active, waiting, waiters, pc, outcome>>

\* The timer calls task.cancel(); the task runs later.
Expire(r) ==
  /\ pc[r] # "idle" /\ r \notin expired
  /\ expired' = expired \cup {r}
  /\ UNCHANGED <<active, waiting, waiters, pc, outcome>>

\* Slip: "self._waiting -= 1" follows wait_for without a finally.
AbandonKeepingPlace(r) ==
  /\ pc[r] \in {"asleep", "woken"} /\ r \in expired
  /\ waiters' = Dequeued(r)
  /\ pc' = [pc EXCEPT ![r] = "idle"]
  /\ expired' = expired \ {r}
  /\ outcome' = [outcome EXCEPT ![r] = "expired"]
  /\ UNCHANGED <<active, waiting>>

\* CancelledError leaves wait(); the inner finally gives the queue place back.
\* In the asyncio of Python 3.11, which the project supports, a notification the
\* task had received is gone with it.
Abandon(r) ==
  /\ pc[r] \in {"asleep", "woken"} /\ r \in expired
  /\ waiters' = Dequeued(r)
  /\ waiting' = waiting - 1
  /\ pc' = [pc EXCEPT ![r] = "idle"]
  /\ expired' = expired \ {r}
  /\ outcome' = [outcome EXCEPT ![r] = "expired"]
  /\ UNCHANGED active

\* Slip: the slot is freed after the yield, not in a finally.
ReleaseOnSuccessOnly(r) ==
  /\ pc[r] = "running"
  /\ active' = IF r \in expired THEN active ELSE active - 1
  /\ pc' = [q \in Requests |-> IF q = r THEN "idle"
                               ELSE IF q \in FirstPending THEN "woken"
                               ELSE pc[q]]
  /\ outcome' = [outcome EXCEPT ![r] = IF r \in expired THEN "expired" ELSE "served"]
  /\ expired' = expired \ {r}
  /\ UNCHANGED <<waiting, waiters>>

\* Slip: the slot is freed and nobody is notified.
ReleaseSilently(r) ==
  /\ pc[r] = "running"
  /\ active' = active - 1
  /\ pc' = [pc EXCEPT ![r] = "idle"]
  /\ outcome' = [outcome EXCEPT ![r] = IF r \in expired THEN "expired" ELSE "served"]
  /\ expired' = expired \ {r}
  /\ UNCHANGED <<waiting, waiters>>

\* The body of "async with gate.acquire()" ends, by a result, an error or the
\* cancellation: the outer finally frees the slot and notifies one waiter.
Release(r) ==
  /\ pc[r] = "running"
  /\ active' = active - 1
  /\ pc' = [q \in Requests |-> IF q = r THEN "idle"
                               ELSE IF q \in FirstPending THEN "woken"
                               ELSE pc[q]]
  /\ outcome' = [outcome EXCEPT ![r] = IF r \in expired THEN "expired" ELSE "served"]
  /\ expired' = expired \ {r}
  /\ UNCHANGED <<waiting, waiters>>

Next ==
  \E r \in Requests :
    \/ Admit(r) \/ Enqueue(r) \/ Reject(r)
    \/ Promote(r) \/ SleepAgain(r)
    \/ Expire(r) \/ Abandon(r) \/ Release(r)

Spec == Init /\ [][Next]_vars

(***************************************************************************)
(* Fairness: the loop runs every ready task and fires every due timer.     *)
(* A body that is not cancelled is under no obligation to end.             *)
(***************************************************************************)
Fairness ==
  \A r \in Requests :
    /\ WF_vars(Promote(r)) /\ WF_vars(SleepAgain(r))
    /\ WF_vars(Expire(r)) /\ WF_vars(Abandon(r))
    /\ WF_vars(r \in expired /\ Release(r))

FairSpec == Spec /\ Fairness

(***************************************************************************)
(* Properties                                                              *)
(***************************************************************************)

\* The counters stay inside the limits acquire() compares them with, and the
\* deque, the tasks' places and the pending cancellations are of their types.
TypeOK ==
  /\ active \in 0..MaxActive
  /\ waiting \in 0..MaxQueued
  /\ waiters \in Seq(Requests)
  /\ pc \in [Requests -> Places]
  /\ expired \in SUBSET {r \in Requests : pc[r] # "idle"}
  /\ outcome \in [Requests -> Outcomes]

\* No slot and no queue place leaks or is given back twice, whatever mix of
\* answers, errors and cancellations the calls end with: the two counters of
\* OptimizationGate are the numbers of tasks in the body and in the queue.
CountersMatch ==
  /\ active = Cardinality(Running)
  /\ waiting = Cardinality(Queued)

\* OptimizationCapacityError is raised only while MaxActive tasks really run
\* and MaxQueued tasks really wait: an earlier cancelled or failed call never
\* costs a later one its place.
RejectedOnlyWhenFull ==
  [][\A r \in Requests :
       (outcome'[r] = "rejected" /\ outcome[r] # "rejected")
         => /\ Cardinality(Running) = MaxActive
            /\ Cardinality(Queued) = MaxQueued]_vars

\* Enough queued callers have been woken for the slots that are free.
Covered ==
  \/ Cardinality(At("woken")) + active >= MaxActive
  \/ \A r \in Requests : ~Pending(r)

\* notify(1) on release is enough to keep every free slot in use or spoken
\* for, even when newcomers take the slot first; the only step that can undo
\* it is the deadline of a caller that was woken and had not run yet.
WakeupLostOnlyByExpiry ==
  [][(Covered /\ ~Covered')
       => \E r \in Requests :
            pc[r] = "woken" /\ r \in expired /\ pc'[r] = "idle"]_vars

\* acquire() waits for "lambda: self._active < self._max_active": while that
\* is true and a caller waits for it, some caller has been told so.
NoStrandedCaller ==
  (active < MaxActive /\ \E r \in Requests : Pending(r)) => At("woken") # {}

\* The counters and the condition variable implement the bounded set of
\* running requests and the bounded set of queued ones.
Abs == INSTANCE BoundedGate WITH running <- Running, queued <- Queued

ImplementsBoundedGate == Abs!Spec

\* Every call of the endpoint is answered, whatever the other calls do: the
\* deadline also reaches a caller that waits for a slot nobody will offer it.
EveryCallerAnswered ==
  \A r \in Requests : pc[r] # "idle" ~> pc[r] = "idle"
=============================================================================
