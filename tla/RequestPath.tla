----------------------------- MODULE RequestPath -----------------------------
(***************************************************************************)
(* POST /optimize-energy from arrival to answer: the deadline of           *)
(* app/main.py around the OptimizationGate, Planner.plan inside a slot,    *)
(* and the LP that asyncio.to_thread hands to the default executor.        *)
(*                                                                         *)
(* The model stage is abstracted to its budget: Interpretation has its     *)
(* detail.  Each request calls once.  The planner's own total deadline     *)
(* starts later than the one of main.py and is as long (both are           *)
(* total_request_deadline_seconds), so it never fires first.               *)
(***************************************************************************)
EXTENDS Naturals, FiniteSets, Sequences, SequencesExt

CONSTANTS
  Requests, MaxActive, MaxQueued,   \* as in OptimizationGate
  Workers,      \* threads of the loop's default executor
  Total,        \* total_request_deadline_seconds
  ModelBudget,  \* min(hard deadline, total deadline - optimizer reserve)
  SolveLimit,   \* time_limit of the LP, which a solver checks now and then
  Reserve,      \* optimizer_reserve_seconds
  MaxTime       \* the clock stops here, to bound the runs

ASSUME PathAssumption ==
  /\ IsFiniteSet(Requests) /\ MaxActive \in Nat \ {0} /\ MaxQueued \in Nat
  /\ Workers \in Nat \ {0} /\ SolveLimit \in Nat \ {0} /\ MaxTime \in Nat \ {0}
  /\ Total \in Nat /\ Reserve \in Nat /\ Reserve < Total
  /\ ModelBudget \in 1..(Total - Reserve)
  /\ SolveLimit < Reserve

VARIABLES
  active, waiting, waiters, pc, expired, outcome,   \* the gate
  now,
  arrived,   \* when each request entered optimize_energy, 0 for not yet
  body,      \* what it does inside its slot
  job,       \* its LP in the executor
  jobQueue,  \* LPs handed over that no worker has taken
  limit,     \* when the model stage or the LP of each request must end
  waited,    \* requests that ever waited for a slot or a worker (history)
  overran    \* requests whose LP ran on beyond its time limit (history)

G == INSTANCE OptimizationGate

gateVars == <<active, waiting, waiters, pc, expired, outcome>>
workVars == <<job, jobQueue>>
historyVars == <<waited, overran>>
vars == <<gateVars, now, arrived, body, workVars, limit, historyVars>>

Solving == {r \in Requests : job[r] = "running"}

Init ==
  /\ G!Init
  /\ now = 1
  /\ arrived = [r \in Requests |-> 0]
  /\ body = [r \in Requests |-> "none"]
  /\ job = [r \in Requests |-> "none"]
  /\ jobQueue = <<>>
  /\ limit = [r \in Requests |-> 0]
  /\ waited = {} /\ overran = {}

Does(r, what) == body' = [body EXCEPT ![r] = what]

\* Slip: the model stage may use the whole deadline, with no reserve for the LP.
StartsPlanUnreserved(r) == Does(r, "model") /\ limit' = [limit EXCEPT ![r] = now + Total]

\* Planner.plan starts: the model stage gets its whole budget from now on.
StartsPlan(r) == Does(r, "model") /\ limit' = [limit EXCEPT ![r] = now + ModelBudget]

Arrive(r) ==
  /\ arrived[r] = 0 /\ now + Total <= MaxTime
  /\ arrived' = [arrived EXCEPT ![r] = now]
  /\ \/ G!Admit(r) /\ StartsPlan(r) /\ UNCHANGED waited
     \/ G!Enqueue(r) /\ waited' = waited \cup {r} /\ UNCHANGED <<body, limit>>
     \/ G!Reject(r) /\ UNCHANGED <<body, limit, waited>>
  /\ UNCHANGED <<now, workVars, overran>>

Awake(r) ==
  /\ \/ G!Promote(r) /\ StartsPlan(r)
     \/ G!SleepAgain(r) /\ UNCHANGED <<body, limit>>
  /\ UNCHANGED <<now, arrived, workVars, historyVars>>

\* Slip: the deadline covers the wait for a slot but not the work in it.
DueInQueue(r) ==
  /\ arrived[r] > 0 /\ now >= arrived[r] + Total /\ body[r] = "none"
  /\ G!Expire(r)
  /\ UNCHANGED <<now, arrived, body, workVars, limit, historyVars>>

\* The timer of asyncio.timeout(total_request_deadline_seconds).
Due(r) ==
  /\ arrived[r] > 0 /\ now >= arrived[r] + Total
  /\ G!Expire(r)
  /\ UNCHANGED <<now, arrived, body, workVars, limit, historyVars>>

LeavesQueue(r) ==
  /\ G!Abandon(r)
  /\ UNCHANGED <<now, arrived, body, workVars, limit, historyVars>>

\* Slip: the slot is given back on success only.
ModelFailsKeepingSlot(r) ==
  /\ body[r] = "model" /\ r \notin expired
  /\ Does(r, "none")
  /\ UNCHANGED <<gateVars, now, arrived, workVars, limit, historyVars>>

\* PlanningError, or directives that do not compile.
ModelFails(r) ==
  /\ body[r] = "model" /\ r \notin expired
  /\ G!Release(r) /\ Does(r, "none")
  /\ UNCHANGED <<now, arrived, workVars, limit, historyVars>>

\* The directives are compiled and the LP is submitted: a free worker takes it.
Submit(r) ==
  /\ body[r] = "model" /\ r \notin expired
  /\ Does(r, "solve")
  /\ IF Cardinality(Solving) < Workers
     THEN /\ job' = [job EXCEPT ![r] = "running"]
          /\ limit' = [limit EXCEPT ![r] = now + SolveLimit]
          /\ UNCHANGED <<jobQueue, waited>>
     ELSE /\ job' = [job EXCEPT ![r] = "queued"]
          /\ jobQueue' = Append(jobQueue, r)
          /\ waited' = waited \cup {r}
          /\ UNCHANGED limit
  /\ UNCHANGED <<gateVars, now, arrived, overran>>

\* linprog returns, and the worker takes the next LP.
JobEnds(r) ==
  /\ job[r] = "running"
  /\ IF jobQueue = <<>>
     THEN job' = [job EXCEPT ![r] = "done"] /\ UNCHANGED <<jobQueue, limit>>
     ELSE /\ job' = [job EXCEPT ![r] = "done", ![Head(jobQueue)] = "running"]
          /\ limit' = [limit EXCEPT ![Head(jobQueue)] = now + SolveLimit]
          /\ jobQueue' = Tail(jobQueue)
  /\ UNCHANGED <<gateVars, now, arrived, body, historyVars>>

\* The awaiting task runs again: build, replay, answer, leave the slot.
Respond(r) ==
  /\ body[r] = "solve" /\ job[r] = "done" /\ r \notin expired
  /\ G!Release(r) /\ Does(r, "none")
  /\ UNCHANGED <<now, arrived, workVars, limit, historyVars>>

\* Slip: the awaited future is shielded, so a queued LP stays in the queue.
CancelledShielded(r) ==
  /\ body[r] # "none" /\ r \in expired
  /\ G!Release(r) /\ Does(r, "none")
  /\ UNCHANGED <<now, arrived, workVars, limit, historyVars>>

\* The deadline cancels the task in its slot.  A queued LP is cancelled with
\* it; a thread cannot be, so one that runs goes on without an owner.
Cancelled(r) ==
  /\ body[r] # "none" /\ r \in expired
  /\ G!Release(r) /\ Does(r, "none")
  /\ IF job[r] = "queued"
     THEN /\ job' = [job EXCEPT ![r] = "none"]
          /\ jobQueue' = RemoveAt(jobQueue, CHOOSE i \in DOMAIN jobQueue : jobQueue[i] = r)
     ELSE UNCHANGED workVars
  /\ UNCHANGED <<now, arrived, limit, historyVars>>

\* Due timers fire, ready tasks run and the model stage ends before time moves;
\* an LP may run on when its time is up.
Tick ==
  /\ now < MaxTime
  /\ expired = {}
  /\ \A r \in Requests :
       /\ pc[r] # "idle" => now < arrived[r] + Total
       /\ body[r] = "model" => now < limit[r]
       /\ ~(body[r] = "solve" /\ job[r] = "done")
       /\ pc[r] # "woken"
  /\ now' = now + 1
  /\ overran' = overran \union {r \in Solving : limit[r] <= now}
  /\ UNCHANGED <<gateVars, arrived, body, workVars, limit, waited>>

Next ==
  \/ \E r \in Requests :
       \/ Arrive(r) \/ Awake(r) \/ Due(r) \/ LeavesQueue(r)
       \/ ModelFails(r) \/ Submit(r) \/ JobEnds(r) \/ Respond(r) \/ Cancelled(r)
  \/ Tick

Spec == Init /\ [][Next]_vars

\* The loop runs ready tasks and due timers and the model stage keeps its
\* budget.  Nobody has to call, and no LP has to end.
FairSpec ==
  /\ Spec /\ WF_vars(Tick)
  /\ \A r \in Requests :
       /\ WF_vars(Awake(r)) /\ WF_vars(Due(r)) /\ WF_vars(LeavesQueue(r))
       /\ WF_vars(ModelFails(r) \/ Submit(r))
       /\ WF_vars(Respond(r)) /\ WF_vars(Cancelled(r))

(***************************************************************************)
(* Properties                                                              *)
(***************************************************************************)

\* Besides the types: a request is in the planner exactly while it has a slot.
TypeOK ==
  /\ G!TypeOK
  /\ now \in 1..MaxTime
  /\ arrived \in [Requests -> 0..now]
  /\ body \in [Requests -> {"none", "model", "solve"}]
  /\ \A r \in Requests : body[r] # "none" <=> pc[r] = "running"
  /\ job \in [Requests -> {"none", "queued", "running", "done"}]
  /\ jobQueue \in Seq(Requests) /\ historyVars \in (SUBSET Requests) \X (SUBSET Requests)

\* Cancelled requests leave running threads behind but never a backlog: an LP
\* nobody has started belongs to a request in its slot, and all LPs together
\* are at most one per worker and one per slot.
WorkBounded ==
  /\ \A r \in Requests : job[r] = "queued" => body[r] = "solve"
  /\ Cardinality({r \in Requests : job[r] \in {"queued", "running"}}) <= Workers + MaxActive

\* The stage budgets add up: only a request that waited for a slot or a worker,
\* or whose own LP ran over its time limit, meets its deadline after the model
\* stage.  An LP that overruns makes others late only by letting them wait.
LateOnlyByWaiting ==
  \A r \in Requests : (r \in expired /\ body[r] = "solve") => r \in waited \union overran

\* Every request is answered, in the queue or in its slot, although neither a
\* free slot nor the end of its LP need ever come.
EveryRequestAnswered ==
  \A r \in Requests : (arrived[r] > 0 /\ pc[r] # "idle") ~> pc[r] = "idle"

\* OptimizationGate is there to "bound active work": no more optimizations are
\* in progress than max_active.
ActiveWorkBounded == Cardinality(Solving) <= MaxActive
=============================================================================
