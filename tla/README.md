# Gridlock-d in TLA+

Gridlock-d answers `POST /optimize-energy`: a language model turns the operator notes of a
request into directives, guardrails compare them with the model's own trace, a compiler turns them
into hourly limits, a linear program schedules battery, sun and grid, and a replay checks the
schedule before it is sent. Everything runs in one process on one asyncio event loop; only the
linear program runs in a thread.

This directory holds TLA+ models of that path, the TLC configurations that check them on small
instances, and proofs that hold for every instance. `PROJECT.json` maps every definition to the
lines it models and lists the runs, mutants, findings, hazards and theorems.

    tlc -workers 2 -config Gate.cfg MCOptimizationGate     # one run
    tlapm OptimizationGateProofs.tla                       # one proof module

## 1. Inventory

| Component (source) | State it keeps | Operations | Models |
|---|---|---|---|
| Optimization gate (`http_safety.py` 15-47) | `_active`, `_waiting`, the condition's waiters | `acquire`: admit, queue, reject, wake, release; cancellation by the deadline of `main.py` | `BoundedGate`, `OptimizationGate` |
| Credential pool (`credential_pool.py`) | `_cursor`, `_unhealthy_until`, a lock | `select`, `mark_unhealthy` | `CredentialPool`, `CredentialPoolHistory` |
| Interpretation stage (`planner.py` 52-121, `interpreter.py` 199-349) | the deadline, the call in flight | first attempt, repair, backup, timeouts | `AttemptPolicy`, `Interpretation` |
| Request path (`main.py` 110-130, `planner.py` 123-150) | total deadline, the task's place, LP threads | arrive, plan, submit, answer, cancel | `RequestPath` |
| Body limit (`http_safety.py` 50-103) | the parts of a body so far | collect, refuse, replay to the application | `RequestFront`, `Service` |
| Security headers (`http_safety.py` 106-126) | none | wrap every answer | not modelled |
| Request schema (`schemas.py` 26-68) | none | the validators that relate fields, the order of the hours | `RequestFront` |
| Configuration (`config.py` 46-68) | the settings | usable keys, completeness | `Lifecycle` |
| Start-up and shutdown (`main.py` 27-81, `planner.py` 41-50) | the planner | build at start-up or by a request, `aclose` | `Lifecycle`, `Service` |
| Wire and schema (`interpreter.py` 62-196, `schemas.py` 71-163) | none | the strict schema sent out, parse, normalise | `Guardrails` |
| Guardrails (`guardrails.py`) | position in the notes | one pass over directives and traces | `Guardrails`, `DirectivePipeline` |
| Directive compiler (`directive_engine.py`) | six arrays by hour | one pass over the directives | `DirectiveCompiler`, `DirectivePipeline` |
| Optimizer (`optimizer.py`) | none | build and solve the LP | its constraints in `ScheduleReplay`, its time in `RequestPath` |
| Response builder, plan validator (`response_builder.py`, `plan_validator.py`) | running energy | one pass over the hours each | `ScheduleReplay` |
| Health endpoint, prompts, scripts, container, CI | none, or constant | | not modelled |

How they interact:

    server: start-up -> requests -> told to stop, drains -> aclose of both adapters
    request -> headers [body limit -> request schema -> [deadline [gate [planner]]]] -> response
    planner: primary pool -> Gemini -> parse -> guardrails     (repair: the same once more)
             backup pool  -> Groq   -> parse -> guardrails     (only after a provider failure)
             -> compiler -> LP in a thread -> builder -> replay

Requests share the planner, the gate, the two pools and the executor's threads; nothing else.

What is hard here, and what must hold:

* **Cancellation at every await.** The deadline may strike while a caller sleeps in the queue, after
  it was woken, while a model is asked, or while a thread solves its LP. No slot or place may leak
  (`CountersMatch`), nobody may be rejected by a gate that is not full (`RejectedOnlyWhenFull`), and
  everybody must be answered (`EveryCallerAnswered`, `EveryRequestAnswered`).
* **Notifications that meet newcomers and deadlines.** A newcomer may take the slot a sleeper was
  woken for; a woken caller may be cancelled (`WakeupLostOnlyByExpiry`, `NoStrandedCaller`).
* **Shared pools.** Another request's rejection changes the pool between an answer and the second
  attempt (`FailsOnlyWhenImpossible`); the rotation must stay fair with cooldowns coming and going
  (`NoneStarved`, `CooldownHonoured`, `UnavailableOnlyWhenAllCooling`).
* **Deadlines inside deadlines.** Attempt, model stage, reserve and total (`LateOnlyByWaiting`,
  `AttemptTimeoutHolds`, `EveryInterpretationEnds`), and threads that no deadline can stop
  (`WorkBounded`, `ActiveWorkBounded`).
* **Clients that stall, lie about a length, or leave.** A body comes in parts, declared or not, and
  its client may go away between two of them or unnoticed after the last (`WholeBodiesOnly`,
  `RefusedForCause`, `CompleteRequestsEnd`, `StopsUnlessReading`).
* **A planner that has several possible makers.** The caller of `create_app`, the lifespan or the
  first request provides it; it is one all the same (`PlannedByOne`), and is closed last and adapter
  by adapter, where a close may raise (`ClosesEachOnce`, `OpenWhileInUse`).
* **Order.** The hours come in any order and are used by position (`PlannerGetsOrderedDay`).
* **Two descriptions of one thing.** The schema that Groq must follow, the schema inside, and the
  parser between them (`WireSchemaParses`, `ParsedAsSent`); totals of the plan and of the solution
  (`TotalsFaithful`).
* **Boundaries.** Windows round midnight (`GuardrailsExact`), directives that overlap
  (`EveryDirectiveBinds`), factors that are close but not equal, rounding against tolerance
  (`DriftBounded`, `RejectionsExplained`).

`PROJECT.json` lists every hazard at its line.

## 2. Modules and their correspondence to the code

### OptimizationGate, BoundedGate

One action is what a task does between two suspension points. The condition's lock is not a
variable: every critical section of `acquire` is synchronous except `wait()`, which releases the
lock before it suspends, so no task ever finds the lock taken. `active`, `waiting` and `waiters` are
`_active`, `_waiting` and the condition's deque; `pc` is where a task is suspended.

| Code | Action |
|---|---|
| line 30 false, 40 | `Admit` |
| 30-35 | `Enqueue`, or `Reject` when `_waiting` is at its limit |
| `wait_for` returns or sleeps on | `Promote`, `SleepAgain` |
| `asyncio.timeout` fires (`main.py` 112) | `Expire`: the task is cancelled and runs later |
| `CancelledError` in `wait_for`, finally of 38-39 | `Abandon` |
| end of the body, finally of 44-47 | `Release`: `notify(1)` wakes the oldest pending waiter |

A body may end by its result, an error or the cancellation; all take `Release`. Callers call again.
`asyncio.Condition` is modelled as Python 3.11 implements it: a notification whose receiver is
cancelled is not passed on. The project supports Python from 3.11 up to but not including 3.13
(`pyproject.toml` 10). `BoundedGate` is the promise without counters, waiters or
notifications: a set of at most `MaxActive` running requests, one of at most `MaxQueued` queued ones,
and a queue that only grows while every slot is taken. `Abs == INSTANCE BoundedGate WITH running <-
Running, queued <- Queued` is the refinement.

### CredentialPool, CredentialPoolHistory

A credential is its position. `select` is `Select` (the first eligible turn of the scan, its cooldown
entry popped, the cursor behind it) or `SelectFails`; `mark_unhealthy` is `Reject`. Both read the
clock before they take the lock: `Readings` holds every clock value that may be used now, up to
`MaxLag` old. On the event loop nothing runs in between, `MaxLag` is 0, and `Interpretation`
instantiates the pool so; the lock promises the same to threads. A missing cooldown entry is 0, as in
`.get(number, 0)`. `CredentialPoolHistory` adds the clock and two history variables: how often others
were preferred to an eligible credential, and when each was last rejected.

### Interpretation, AttemptPolicy

`_interpret` and `_invoke` for several requests over two instances of the pool. `Begin` sets the
deadline and sends the first call, `Answered` is an answer or an error status (401, 403 and 429 also
set the credential aside), `GoesSilent` is httpx's timeout, `TimesOut` is `asyncio.timeout(remaining)`,
`Repair` and `CallBackup` are the second attempts, `GiveUp` is `_invoke` refusing one for lack of
budget. `After` is the control flow of `_interpret`. `Progress` says what httpx's timeout is: a bound
on each wait for the network, restarted by every byte. There is one cut more than the event loop
makes: an answer and the second attempt it leads to are two actions, because `_invoke` reads the
clock again and real time has passed; other requests may then also act in between, which only adds
behaviours. Answers are abstracted to the four outcomes the planner tells apart; whether an
interpretation is right is the business of `Guardrails`. `AttemptPolicy` is the promise of the
project's README: at most two calls, one repair by the same model or one backup call, and a verdict
that stands.

### RequestPath

Composes the gate (`G == INSTANCE OptimizationGate`) with the clock, the stages of the planner and the
executor of `asyncio.to_thread`. `Due` is the deadline of `main.py`; the planner's own total deadline
starts later and is as long, so it never fires first and is left out. `Submit` hands the LP to a free
worker or queues it; `Cancelled` gives the slot back, cancels a queued LP and leaves a running one
behind; `JobEnds` frees the worker for the next. The solver looks at its time limit now and then: time
may pass while an LP is over its limit, and the history variable `overran` says whose was. Each request
calls once.

### RequestFront, Lifecycle, Service

`RequestFront` is a request before the handler. A body is its size, what its header declares of it
(nothing, something that is no number, a length, which need not be the size: a server goes by the chunks
of a chunked body) and the part that has not come yet; `Arrive` refuses by the header, `Receive` takes a
part of any size and refuses the sum, `Disconnected` is `http.disconnect` before the last part, which
ends the request without an answer. `Parse` is the application on the replayed body: pydantic's
validators, and the hours sorted. After the body `receive` only ever returns `http.request`
(`http_safety.py` 91-98), so `Leave` has no effect on a request that is complete. A payload is
abstracted to what the validators relate: whether notes are blank, the hours with one datum each, three
numbers of the battery.

`Lifecycle` is the planner: given, built by `StartUp`, or built by the first request where the server
runs no lifespan. `CloseNext` is one turn of the loop of `aclose`; a close that raises ends the loop
and the lifespan. The ASGI server is external: told to stop, it takes no more requests, waits for those
in progress and then ends the lifespan. `Service` composes the two with the handler (`Handle`,
`Respond`); what happens in the handler is `RequestPath`, of which `Service` uses only that it ends.
`Handle` is one step since nothing is awaited between the look at `application.state.planner` and its
assignment.

### Guardrails, DirectiveCompiler, DirectivePipeline

`Guardrails` has the Groq wire parser, the union of adjustments and `validate_shape` (`Parse`,
`Malformed`), then `validate_interpretation` note by note (`PassNote`, `Reject`, `Accept`). A numeric
key may be a number, null or absent, and there may be an unknown key. Pydantic's union takes the
member whose keys are exactly those given, because unknown keys are forbidden. `WireConforms` is the
schema that `_groq_response_schema` makes of the internal one, every numeric key required and nullable;
`Instructed` is what the wire instructions add, one value only, the one of the kind. An explanation is
blank or not: the schema sent out asks for a length, which blanks have, and `validate_explanation`
refuses blanks. Numbers are hundredths;
1.0 is `One` and the tolerance is one hundredth. `DirectiveCompiler` has the six arrays and one action
per kind; the factor is in parts of `One`, `Slack` is `abs_tol` of `isclose` (the default relative
tolerance of the same size is inside it: factors are at most 1). `DirectivePipeline` runs the compiler
on what the guardrails accepted and states what the whole chain owes to the trace, from a reference
that walks the clock hour by hour instead of case by case.

### ScheduleReplay

Starts from a solution that satisfies the rows and bounds of `solve_schedule` (`Solves`). `linprog`
is given no tolerance, so the solver's own applies to both: balance, state and neutrality rows and every
bound hold within `SolverSlack`, each row missed on its own. `HourDrift` is twice what an hour then adds
between the replayed battery and the solution's: a quantum and a half for the rounding, and the slack of
the hour's state row. `BuildHour` is the loop of `build_response`, `BuildFails` an hour pydantic or
`_nonnegative` refuses, `ReplayHour` and `ReplayFails` the loop of `validate_plan` with its checks in
order, `Accept` the end. Energy is an integer, `Quantum` is the sixth decimal that `round` keeps. The
quantum is odd, so nothing lies halfway and banker's rounding never decides. `Built` makes the totals
of energy and cost and the peak, which `Finding` compares again after the loop; money is an integer of
which the quantum is the sixth decimal, and a tariff is what one quantum of energy costs. Binary
floating-point errors and the wording of the summary are left out; so are the checks that scenario,
directives and hour numbers are those of the request, which `build_response` has just copied.

## 3. Runs

| Run | Instance | What it shows |
|---|---|---|
| `Gate` | 5 callers, 2 slots, 2 places | types, exact counters, justified rejections, wake-ups lost only by a deadline, refinement of `BoundedGate`, every call ends |
| `GateStranded` | the same with 3 callers, 1 slot | finding: a caller sleeps beside a free slot |
| `Pool` | 2 tasks, 3 credentials, clock to 5, lag 1 | fairness, cooldowns, justified refusals |
| `Interpretation` | 2 requests, 1 key a pool, budget 3, silence 2, clock to 5 | types, attempt policy, no early failure, every interpretation ends |
| `InterpretationTimeout` | the same | finding: an attempt outlasts its timeout |
| `Path` | 3 requests, 2 slots, 1 place, 1 worker, LPs that may outlast their limit and the deadline, clock to 7 | types, at most one LP a worker and a slot, only waiting or an overrun makes late, every request is answered |
| `PathActiveWork` | 3 requests, 1 slot, 2 places, 2 workers | finding: two LPs behind a gate of one |
| `Service` | 2 requests, bodies at and above the limit in parts, any length declared, a day of 2 hours, payloads wrong in one way each, 5 deployments, with and without lifespan | whole bodies only, refusals have causes, hours in order, one planner, closed once and last, complete requests end, the server stops |
| `CompilerOrder` | all lists of 3 directives, 3 hours | nothing undone, nothing added, conflicts have causes |
| `PipelineTraces` | single notes with every mistake, pairs of sound notes, 3 hours | acceptance is exact, arrays follow traces, what follows the wire schema parses unless an explanation is blank, no number is dropped |
| `ReplayPlans` | 3 hours, 12 battery levels, 9 days of grid and sun, solver slack 1, rows missed in 5 ways | whole quanta, drift bound, the only reasons for a refusal, faithful totals |
| `ReplaySerializable` | the same, solver slack 0 | finding: a feasible schedule that cannot be written down |

Why the bounds are enough. *Gate*: two sleepers for one slot are needed to lose a wake-up, one caller
more to overtake them, and one more to be rejected; a second slot lets a release meet another. *Pool*:
three credentials are the least for which "the next one" and "the other one" differ; the clock runs for
two cooldowns. *Interpretation*: with one key a pool a single rejection empties it; the clock is long
enough for the requests to overlap at every offset, and budget, silence and minimum are chosen so that
the second attempt is possible, just possible and impossible. *Path*: the third request finds slot,
place and worker taken; requests may arrive at two times and the clock runs to the deadline of the last
one. Three requests cannot exceed the second half of `WorkBounded`, the number of LPs: there the run shows
only the first half, that no cancelled LP waits; `WorkIsBounded` (section 6) proves both halves for all numbers. *Service*: two requests are the
least that can race for the planner, or of which one is refused or stalls while the other is planned; a
body of the limit and one beyond it are all the sizes the code tells apart, and parts of every size are
tried; two hours can be swapped, doubled and out of range; the deployments are the configurations
start-up tells apart and planners with one object in both roles, without a hook, and with two.
*Compiler*: three directives are the least for a chain of close factors; the windows have a gap, its
complement and the whole day. *Pipeline*: a day of three hours has windows that wrap, that end at the
end of the day and that are empty. *Replay*: the levels lie below, at and above the quantum and the
tolerance; three hours let drift accumulate in both directions, and the rows are missed in the direction
of the rounding as well as against it. The drift bound grows with the hour, so the tolerance is set
above what three hours and the last row can accumulate (`ToleranceAssumption`), as the program's is
above 24.

Every property of a passing run has a mutant of the code that breaks it: each operator whose comment
begins with "Slip:" is that mutated form of the definition after it.

`CHECK_DEADLOCK FALSE` is said where a behaviour ends: one-shot requests under a clock that stops
(`Interpretation*`, `Path*`), a server that has gone down (`Service`), and passes over a finite list
(`CompilerOrder`, `PipelineTraces`, `Replay*`).
The gate and the pool are checked for deadlock.

## 4. Fairness

The event loop runs every ready task and fires every due timer: weak fairness of the actions by which a
woken, cancelled or answered task continues, and of the clock. Nothing else is fair. A body of the gate
need not end (`Release` is fair only for a cancelled one), no provider need answer, nobody need call,
and in `Path` no LP need end: the time limit of a solver is not a promise the service depends on.
`Tick` waits until due timers have fired and ready tasks have run; that is the usual abstraction of a
loop that is never late by a whole unit.

In `Service` a client need not send the rest of its body nor go away; fair are the application's own
steps, the handler, which ends because every request of `RequestPath` is answered, and the server,
which goes through with stopping once it has been told to and every request has ended.

## 5. Findings

* `GateStranded`: the notification dies with the waiter the deadline cancels
  (`http_safety.py` 35-39). The wait is bounded by the deadline, and the next release wakes a sleeper,
  but meanwhile a free slot and a caller that waits for it stand side by side.
  `WakeupLostOnlyByExpiry` shows that this is the only way.
* `InterpretationTimeout`: `LLM_TIMEOUT_SECONDS` bounds each wait, not the attempt (`interpreter.py` 232).
* `PathActiveWork`: solver threads outlive their requests (`planner.py` 132). `WorkBounded` says how
  far it goes: at most one LP per worker and one per slot.
* `ReplaySerializable`: the rounded running energy can fall below zero (`response_builder.py` 44).
  `RejectionsExplained` says when: only where the solution's battery holds no more than the drift of the
  hours so far, a quantum and a half and the solver's slack each, and one quantum.

Smaller differences between code and words that were met while modelling and have no run of their own:
the Groq parser drops unknown keys where its docstring says "closed wire shape" (`interpreter.py` 165,
188; modelled in `GroqNormalized`); an outage with a factor passes `validate_shape`, since every
adjustment is an instance of `HoursAdjustment` (`schemas.py` 119-129; modelled in `ShapeFits`); an
explanation of blanks follows the schema sent to Groq (`schemas.py` 16: a minimum length) and makes the
answer malformed (107-112; `WireSchemaParses` says that nothing else does); two
notes with the same fraction conflict when the model states it differently within the guardrails'
tolerance (`guardrails.py` 106 against `directive_engine.py` 53); an action of up to 0.01 is rejected
with "has zero magnitude" (`plan_validator.py` 50) although the builder writes actions from 0.000001
on, which `RejectionsExplained` names as the only reason for a rejection; a request that waited for
its slot starts its LP with less than the reserve of `planner.py` 29 (`LateOnlyByWaiting` is what
remains true); `aclose` promises to "Close each provider adapter once" (`planner.py` 42), but a close
that raises leaves the other adapter open (`ClosesEachOnce` holds up to that); and no deadline covers
the upload of a body, since `asyncio.timeout` is in the handler (`main.py` 112): `StopsUnlessReading`
names the one client that can hold up the server.

## 6. Proofs

TLAPS proves, for every value of the constants that satisfies the named assumptions:

* `OptimizationGateProofs` (any finite set of callers, any limits; `GateAssumption`): types, exact
  counters, justified rejections, the refinement of `BoundedGate`, and `WakeupLostOnlyByExpiry`.
  `CountersMatch` alone is not inductive: the decrement of `_waiting` needs the queued tasks to be
  what it counts, and the deque keeps its type only because every queued task is in it. `IInv` is
  `TypeOK /\ CountersMatch /\ Listed`. `Moves` says once for each action which set gains or loses the
  request; the invariant, the rejections and the refinement follow from it. The proof about wake-ups
  shows that `notify(1)` finds a pending waiter whenever there is one, by well-founded choice of the
  oldest.
* `CredentialPoolProofs` (any number of credentials, tasks, cooldown and lag; `PoolAssumption`): types,
  fair rotation, cooldowns, justified refusals. Fairness is not inductive as stated: `IInv` adds that
  the number of times a credential was passed over plus its distance from the cursor stays below `N`,
  and that every cooldown entry is explained by the last rejection. `OwnersDriveThePool` is for users of
  the pool: its history is a function of what happens to it, so whoever takes only its steps gets all
  this. Two rejections at one instant write the same entry; that they are one is `CoolingInv`.
* `DirectiveCompilerProofs` (any number of hours, any lists of directives, any slack;
  `CompilerAssumption`): types, `EveryDirectiveBinds`, `OnlyDirectivesBind`, `ConflictHasCause`. The
  invariant says of each hour and array what the directives so far make of it; an action disturbs one
  array, and `OtherKind` carries the others.
* `InterpretationProofs` (any number of requests and credentials, any budgets): types,
  `FailsOnlyWhenImpossible`, and that the stage implements `AttemptPolicy`, whence `AtMostTwoCalls`. The
  types alone do not say why a request is where it is: `IInv` adds `Fits`, which ties the stage of each
  request to the attempts and outcomes recorded of it. `Moves` says where a step takes its request: it is
  proved once for the request it moves and the others are carried by one lemma. `DrivesPools` records the
  history of both pools beside the stage and shows that it takes only their own steps;
  `PoolsKeepTheirPromises` then takes over rotation, cooldowns and refusals for either pool.
* `RequestPathProofs` (any limits, budgets and number of requests; `PathAssumption`, which has the LP's
  time limit below the reserve as in `optimizer.py` 89 and `planner.py` 29): types, `WorkBounded`,
  `LateOnlyByWaiting`, and that the endpoint drives the gate by the gate's own steps (`Spec =>
  G!Spec`). The theorems of `OptimizationGateProofs` are taken over through an instance: that every
  slot counted is a request in the planner is the gate's invariant, and `Mine` adds for each request
  how its slot, its body and its LP belong together. `WorkBounded` then counts: an LP runs in one of
  the workers, or waits and its request still has a slot.
* `ServiceProofs` (any requests, payloads, deployments and length of the day): all safety properties of
  the run. `Account` says of each request what its stage owes to its body, payload and answer,
  `LifeInv` the same of the planner and the loop of `aclose`. That hours which are all different, as
  many as the day has and all of the day, are each hour once is a pigeonhole argument over finite sets.
* `ScheduleReplayProofs` (any number of hours, quantum, battery and solution; `ReplayAssumption`,
  `CasesAssumption` for the types of request and solution, `ToleranceAssumption`: the solver's slack is
  at most a quantum, and the tolerance covers a day of drift and the rows that close it): whole quanta,
  `DriftBounded`, `RejectionsExplained`, `TotalsFaithful`, and `ValidatorExact`. A rounded number is a
  multiple of the quantum no further than one quantum away (`RoundedNear`, from the quotient and
  remainder of integers); only the first hour rounds the running energy, because sums of whole quanta
  are whole. The replayed energy and the reported one keep that first difference all day (`Replayed`),
  so no transition is ever refused.
  * *Totals.* A total is a fold over the hours, and nothing about it follows without induction. The
    library's induction takes a predicate, which cannot be instantiated; `EveryNumber` and `EverySubset`
    take the set of the cases that hold instead, and get the induction from well-founded minima. `Sums`
    is a function on subsets whose equation is proved to define it; from it come `TotalNear` (sums of
    terms each within `e` differ by at most `e` for each of them) and `TotalOfOneMore`. `TotalsAdded`, in `IInv`,
    has the reported totals be the rounded sums over the plan's hours, the sums the validator forms, so
    the totals never reject a plan.
  * *Verdict.* `ValidatorExact` compares the loop with `Obeys`, which says of a whole plan what it is
    to keep: every hour its limits, its bans, its balance and the energy that the moves before it leave,
    the day its neutrality and its totals. `Traced` is the loop's invariant: the hours before the
    current one obey, and a loop that stopped did so at an hour or a total that does not.

* `DirectivePipelineProofs` (any length of the day, any battery, tolerance and slack, any answers of the
  schema's shape; `GuardrailsAssumption`, `AnswersAssumption`, `PipelineAssumption`): all the properties
  of the run. `WireComesThrough` says which directives of Groq the parser and the schema take,
  `ParsedSaysTheSame` that those they take keep what they say. `WalkedIsExpanded` is the arithmetic of
  windows round the clock, `SameElementsSameList` says that a set of hours is one ascending list, by the
  first position at which two lists part; `HoursAgree` and `NumberAgrees` then show that each check of
  the guardrails is the reference's, kind by kind, and `IInv` that the loop has made them for every note
  before `at`. The compiler's part is taken over from `DirectiveCompilerProofs` through an instance:
  `Chain` says that it waits in its initial state until the guardrails accept and is in its own
  invariant afterwards.

Every safety invariant, action property and refinement that a passing run checks is stated by one of
these theorems. Only model-checked: liveness under fairness (`EveryCallerAnswered`,
`EveryInterpretationEnds`, `EveryRequestAnswered`, `CompleteRequestsEnd`, `StopsUnlessReading`), which
is out of the prover's reach.

## 7. Not modelled

* HiGHS and optimality: numerical code outside the repository. The models take any solution that meets
  the rows and bounds within a slack.
* The security headers: each answer that passes the layer gets the same three, and which answers pass
  it is decided by two lines of start-up (`main.py` 91-95). Refusals of the body limit do; answers of the
  framework's own outermost error layer do not. There is nothing for a checker to explore in that.
* The health endpoint and the prompts, which are constants or text; JSON syntax and HTTP details; the
  wording of the summary; numbers of an answer that are not finite; the range of each single number of a
  request, which is left to pydantic (the models start from numbers in range); the schema sent to
  Gemini, which only advises.
* Reading the environment into settings (`config.py` 10-43): the models start from settings, and the
  bounds of the numbers are the named assumptions on the constants.
* The scripts, the container and CI, which keep no state that another part depends on.
* The disconnect of a client whose body is complete: the application never sees it (`http_safety.py`
  91-98), so it has no action beyond `Leave`; that such a request still ends is checked.

## 8. Plan

Done, in this order: gate, pool, interpretation, path, compiler, guardrails and pipeline, replay, the
request's front, life cycle and service, the wire schema, the totals; proofs about gate, pool, compiler,
interpretation, path, service, replay and pipeline; the totals and the verdict of the validator, and the
pools inside the stage. What is left: `Service` over `RequestPath` itself instead of its promise, on one
request more than the instance of today can afford, and that the front and the life cycle drive it by its
own steps, proved like `DrivesGate` and `DrivesPools`.
