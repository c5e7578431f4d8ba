------------------------- MODULE RequestPathProofs -------------------------
(***************************************************************************)
(* Proofs about the path of a request for any finite set of requests, any  *)
(* limits of the gate, any number of workers and any budgets.              *)
(***************************************************************************)
EXTENDS RequestPath, FiniteSetTheorems, SequenceTheorems, TLAPS

GP == INSTANCE OptimizationGateProofs

LEMMA SameGate ==
  /\ G!Init => GP!Init
  /\ [G!Next]_(G!vars) => [GP!Next]_(GP!vars)
  BY DEF G!Next, GP!Next, G!Admit, GP!Admit, G!Enqueue, GP!Enqueue, G!Reject, GP!Reject,
         G!Promote, GP!Promote, G!SleepAgain, GP!SleepAgain, G!Expire, GP!Expire,
         G!Abandon, GP!Abandon, G!Release, GP!Release, G!Dequeued, GP!Dequeued,
         G!FirstPending, GP!FirstPending, G!Pending, GP!Pending, G!vars, GP!vars,
         G!RemoveAt, GP!RemoveAt, G!Init, GP!Init

LEMMA SameInv ==
  GP!IInv => G!TypeOK /\ G!CountersMatch
  BY DEF GP!IInv, G!TypeOK, GP!TypeOK, G!CountersMatch, GP!CountersMatch, G!Places, GP!Places,
     G!Outcomes, GP!Outcomes, G!Running, GP!Running, G!Queued, GP!Queued, G!At, GP!At,
     G!Cardinality, GP!Cardinality, G!IsFiniteSet, GP!IsFiniteSet

LEMMA GateHolds == GP!GateAssumption
  BY PathAssumption DEF GP!GateAssumption, GP!IsFiniteSet, IsFiniteSet

\* What the steps of the gate do to the places of the requests.
Elsewhere(r) ==
  \A q \in Requests \ {r} :
    /\ pc'[q] = "running" <=> pc[q] = "running"
    /\ pc'[q] \in {"asleep", "woken"} => pc[q] \in {"asleep", "woken"}

LEMMA GateMoves ==
  ASSUME G!TypeOK, NEW r \in Requests
  PROVE  /\ G!Admit(r) => pc[r] = "idle" /\ pc'[r] = "running" /\ expired' = expired /\ Elsewhere(r)
         /\ G!Enqueue(r) => pc[r] = "idle" /\ pc'[r] = "asleep" /\ expired' = expired /\ Elsewhere(r)
         /\ G!Reject(r) => pc[r] = "idle" /\ pc' = pc /\ expired' = expired
         /\ G!Promote(r) => pc[r] = "woken" /\ pc'[r] = "running" /\ expired' = expired /\ Elsewhere(r)
         /\ G!SleepAgain(r) => pc[r] = "woken" /\ pc'[r] = "asleep" /\ expired' = expired /\ Elsewhere(r)
         /\ G!Expire(r) => pc' = pc /\ expired' = expired \cup {r}
         /\ G!Abandon(r) => pc[r] \in {"asleep", "woken"} /\ pc'[r] = "idle"
                            /\ expired' = expired \ {r} /\ Elsewhere(r)
         /\ G!Release(r) => pc[r] = "running" /\ pc'[r] = "idle"
                            /\ expired' = expired \ {r} /\ Elsewhere(r)
<1>1. pc \in [Requests -> {"idle", "asleep", "woken", "running"}]
  BY DEF G!TypeOK, G!Places
<1>2. \A q \in G!FirstPending : pc[q] = "asleep"
  BY DEF G!FirstPending, G!Pending
<1>3. G!Release(r) => pc[r] = "running" /\ pc'[r] = "idle"
                      /\ expired' = expired \ {r} /\ Elsewhere(r)
  BY <1>1, <1>2 DEF G!Release, Elsewhere
<1> QED BY <1>1, <1>3 DEF G!Admit, G!Enqueue, G!Reject, G!Promote, G!SleepAgain, G!Expire,
           G!Abandon, Elsewhere

\* What a request in the planner has to do with its time limit and its LP.
Mine(r) ==
  /\ body[r] # "none" <=> pc[r] = "running"
  /\ pc[r] \in {"asleep", "woken"} => r \in waited
  /\ job[r] = "queued" => /\ body[r] = "solve" /\ r \in waited
                          /\ \E i \in DOMAIN jobQueue : jobQueue[i] = r
  /\ (body[r] = "model" /\ r \notin waited) =>
       now <= limit[r] /\ limit[r] = arrived[r] + ModelBudget
  /\ (body[r] = "solve" /\ r \notin waited \union overran) =>
       /\ r \notin expired /\ job[r] \in {"running", "done"}
       /\ now <= limit[r] /\ limit[r] <= arrived[r] + ModelBudget + SolveLimit

Typed ==
  /\ now \in 1..MaxTime
  /\ arrived \in [Requests -> 0..now] /\ limit \in [Requests -> Nat]
  /\ body \in [Requests -> {"none", "model", "solve"}]
  /\ job \in [Requests -> {"none", "queued", "running", "done"}]
  /\ waited \in SUBSET Requests /\ overran \in SUBSET Requests
  /\ jobQueue \in Seq(waited)

IInv ==
  /\ GP!IInv /\ Typed
  /\ Cardinality(Solving) <= Workers
  /\ \A r \in Requests : Mine(r)

LEMMA InitIInv == Init => IInv
<1> SUFFICES ASSUME Init PROVE IInv
  OBVIOUS
<1>1. GP!IInv
  BY GateHolds, SameGate, GP!InitIInv DEF Init
<1>2. Typed
  BY PathAssumption DEF Init, Typed
<1>3. Solving = {}
  BY DEF Init, Solving
<1>4. Cardinality(Solving) <= Workers
  BY <1>3, FS_EmptySet, PathAssumption
<1>5. \A r \in Requests : Mine(r)
  BY DEF Init, Mine, G!Init
<1> QED BY <1>1, <1>2, <1>4, <1>5 DEF IInv

\* A step of the path is a step of the gate or leaves it alone.
LEMMA GateStep == [Next]_vars => [G!Next]_(G!vars)
<1> SUFFICES ASSUME [Next]_vars PROVE [G!Next]_(G!vars)
  OBVIOUS
<1>1. UNCHANGED gateVars => UNCHANGED G!vars
  BY DEF gateVars, G!vars
<1>2. ASSUME NEW r \in Requests,
             Arrive(r) \/ Awake(r) \/ Due(r) \/ LeavesQueue(r) \/ ModelFails(r)
               \/ Respond(r) \/ Cancelled(r)
      PROVE  G!Next
  BY <1>2 DEF Arrive, Awake, Due, LeavesQueue, ModelFails, Respond, Cancelled, G!Next
<1>3. ASSUME NEW r \in Requests, Submit(r) \/ JobEnds(r) PROVE UNCHANGED gateVars
  BY <1>3 DEF Submit, JobEnds
<1>4. (Tick \/ UNCHANGED vars) => UNCHANGED gateVars
  BY DEF Tick, vars
<1> QED BY <1>1, <1>2, <1>3, <1>4 DEF Next

LEMMA GateIInv == IInv /\ [Next]_vars => GP!IInv'
  BY GateHolds, GateStep, SameGate, GP!StepIInv DEF IInv

\* The workers are as many after a step that adds at most as many LPs as it ends.
LEMMA SolvingFinite ==
  /\ IsFiniteSet(Solving) /\ IsFiniteSet(Solving')
  /\ Cardinality(Solving) \in Nat /\ Cardinality(Solving') \in Nat
<1>1. Solving \subseteq Requests /\ Solving' \subseteq Requests
  BY DEF Solving
<1> QED BY <1>1, PathAssumption, FS_Subset, FS_CardinalityType

\* What a step has to leave of a request it is not about.
Untouched(q) ==
  /\ now' = now /\ arrived'[q] = arrived[q] /\ limit'[q] = limit[q]
  /\ body'[q] = body[q] /\ job'[q] = job[q]
  /\ pc'[q] = "running" <=> pc[q] = "running"
  /\ pc'[q] \in {"asleep", "woken"} => pc[q] \in {"asleep", "woken"}
  /\ q \in waited => q \in waited'
  /\ q \in overran => q \in overran'
  /\ q \in expired' => q \in expired
  /\ job[q] = "queued" /\ (\E i \in DOMAIN jobQueue : jobQueue[i] = q)
       => \E i \in DOMAIN jobQueue' : jobQueue'[i] = q

LEMMA Others ==
  ASSUME NEW q \in Requests, Mine(q), Untouched(q)
  PROVE  Mine(q)'
  BY DEF Mine, Untouched

\* One request does something that leaves the LPs as they are.
LEMMA OneRequest ==
  ASSUME IInv, GP!IInv', Typed', NEW r \in Requests, UNCHANGED job, Mine(r)',
         \A q \in Requests \ {r} : Untouched(q)
  PROVE  IInv'
<1>1. Solving' = Solving
  BY DEF Solving
<1>2. \A q \in Requests : Mine(q)'
  BY Others DEF IInv
<1> QED BY <1>1, <1>2 DEF IInv

LEMMA Budgets ==
  ASSUME Typed
  PROVE  /\ now + ModelBudget \in Nat /\ now + SolveLimit \in Nat
         /\ ModelBudget + SolveLimit < Total /\ ModelBudget \in Nat /\ SolveLimit \in Nat
  BY PathAssumption DEF Typed

LEMMA ArriveIInv ==
  ASSUME IInv, NEW r \in Requests, Arrive(r), GP!IInv'
  PROVE  IInv'
<1>1. Typed /\ Mine(r) /\ G!TypeOK /\ now \in Nat
  BY SameInv DEF IInv, Typed
<1>2. /\ pc[r] = "idle" /\ arrived' = [arrived EXCEPT ![r] = now] /\ expired' = expired
      /\ UNCHANGED <<now, job, jobQueue, overran>>
      /\ (Elsewhere(r) \/ pc' = pc)
  BY <1>1, GateMoves DEF Arrive, workVars
<1>3. /\ \/ pc'[r] = "running" /\ StartsPlan(r) /\ UNCHANGED waited
         \/ pc'[r] = "asleep" /\ waited' = waited \cup {r} /\ UNCHANGED <<body, limit>>
         \/ pc' = pc /\ UNCHANGED <<body, limit, waited>>
  BY <1>1, GateMoves DEF Arrive
<1>4. body[r] = "none"
  BY <1>1, <1>2 DEF Mine, Typed
<1>5. Typed'
  <2>1. jobQueue' \in Seq(waited')
    BY <1>1, <1>2, <1>3, SeqMonotonic DEF Typed
  <2>2. waited' \in SUBSET Requests /\ overran' \in SUBSET Requests
    BY <1>1, <1>2, <1>3 DEF Typed
  <2>3. limit' \in [Requests -> Nat] /\ body' \in [Requests -> {"none", "model", "solve"}]
    BY <1>1, <1>3, Budgets DEF Typed, StartsPlan, Does
  <2>4. arrived' \in [Requests -> 0..now']
    BY <1>1, <1>2 DEF Typed
  <2> QED BY <1>1, <1>2, <2>1, <2>2, <2>3, <2>4 DEF Typed
<1>6. Mine(r)'
  <2>1. job'[r] # "queued" /\ arrived'[r] = now
    BY <1>1, <1>2, <1>4 DEF Mine, Typed
  <2>2. CASE pc'[r] = "running" /\ StartsPlan(r)
    <3>1. body'[r] = "model" /\ limit'[r] = now + ModelBudget
      BY <1>1, <2>2 DEF Typed, StartsPlan, Does
    <3> QED BY <1>1, <1>2, <2>1, <2>2, <3>1, Budgets DEF Mine
  <2>3. CASE pc'[r] = "asleep" /\ waited' = waited \cup {r} /\ UNCHANGED <<body, limit>>
    BY <1>4, <2>1, <2>3 DEF Mine
  <2>4. CASE pc' = pc /\ UNCHANGED <<body, limit, waited>>
    BY <1>2, <1>4, <2>1, <2>4 DEF Mine
  <2> QED BY <1>3, <2>2, <2>3, <2>4
<1>7. ASSUME NEW q \in Requests \ {r} PROVE Untouched(q)
  <2>1. body'[q] = body[q] /\ limit'[q] = limit[q]
    BY <1>1, <1>3 DEF Typed, StartsPlan, Does
  <2> QED BY <1>1, <1>2, <1>3, <2>1 DEF Untouched, Elsewhere, Typed
<1> QED BY <1>2, <1>5, <1>6, <1>7, OneRequest

LEMMA AwakeIInv ==
  ASSUME IInv, NEW r \in Requests, Awake(r), GP!IInv'
  PROVE  IInv'
<1>1. Typed /\ Mine(r) /\ G!TypeOK
  BY SameInv DEF IInv
<1>2. /\ pc[r] = "woken" /\ expired' = expired /\ Elsewhere(r)
      /\ UNCHANGED <<now, arrived, job, jobQueue, waited, overran>>
      /\ \/ pc'[r] = "running" /\ StartsPlan(r)
         \/ pc'[r] = "asleep" /\ UNCHANGED <<body, limit>>
  BY <1>1, GateMoves DEF Awake, workVars, historyVars
<1>3. body[r] = "none" /\ r \in waited /\ job[r] # "queued"
  BY <1>1, <1>2 DEF Mine, Typed
<1>4. Typed'
  <2>1. limit' \in [Requests -> Nat] /\ body' \in [Requests -> {"none", "model", "solve"}]
    BY <1>1, <1>2, Budgets DEF Typed, StartsPlan, Does
  <2> QED BY <1>1, <1>2, <2>1 DEF Typed
<1>5. Mine(r)'
  <2>1. CASE pc'[r] = "running" /\ StartsPlan(r)
    <3>1. body'[r] = "model"
      BY <1>1, <2>1 DEF Typed, StartsPlan, Does
    <3> QED BY <1>2, <1>3, <2>1, <3>1 DEF Mine
  <2>2. CASE pc'[r] = "asleep" /\ UNCHANGED <<body, limit>>
    BY <1>2, <1>3, <2>2 DEF Mine
  <2> QED BY <1>2, <2>1, <2>2
<1>6. ASSUME NEW q \in Requests \ {r} PROVE Untouched(q)
  <2>1. body'[q] = body[q] /\ limit'[q] = limit[q]
    BY <1>1, <1>2 DEF Typed, StartsPlan, Does
  <2> QED BY <1>2, <2>1 DEF Untouched, Elsewhere
<1> QED BY <1>2, <1>4, <1>5, <1>6, OneRequest

\* The deadline finds an LP of a request that never waited only beyond its limit.
LEMMA DueIInv ==
  ASSUME IInv, NEW r \in Requests, Due(r), GP!IInv'
  PROVE  IInv'
<1>1. Typed /\ Mine(r) /\ G!TypeOK
  BY SameInv DEF IInv
<1>2. /\ now >= arrived[r] + Total /\ pc' = pc /\ expired' = expired \cup {r}
      /\ UNCHANGED <<now, arrived, body, job, jobQueue, limit, waited, overran>>
  BY <1>1, GateMoves DEF Due, workVars, historyVars
<1>3. Typed'
  BY <1>1, <1>2 DEF Typed
<1>4. body[r] = "solve" => r \in waited \union overran
  <2> SUFFICES ASSUME body[r] = "solve", r \notin waited \union overran PROVE FALSE
    OBVIOUS
  <2>1. now <= limit[r] /\ limit[r] <= arrived[r] + ModelBudget + SolveLimit
    BY <1>1 DEF Mine
  <2>2. now \in Nat /\ limit[r] \in Nat /\ arrived[r] \in Nat /\ Total \in Nat
    BY <1>1, PathAssumption DEF Typed
  <2> QED BY <1>1, <1>2, <2>1, <2>2, Budgets
<1>5. Mine(r)'
  BY <1>1, <1>2, <1>4 DEF Mine
<1>6. ASSUME NEW q \in Requests \ {r} PROVE Untouched(q)
  BY <1>2 DEF Untouched
<1> QED BY <1>2, <1>3, <1>5, <1>6, OneRequest

LEMMA LeavesQueueIInv ==
  ASSUME IInv, NEW r \in Requests, LeavesQueue(r), GP!IInv'
  PROVE  IInv'
<1>1. Typed /\ Mine(r) /\ G!TypeOK
  BY SameInv DEF IInv
<1>2. /\ pc[r] \in {"asleep", "woken"} /\ pc'[r] = "idle" /\ expired' = expired \ {r} /\ Elsewhere(r)
      /\ UNCHANGED <<now, arrived, body, job, jobQueue, limit, waited, overran>>
  BY <1>1, GateMoves DEF LeavesQueue, workVars, historyVars
<1>3. Typed'
  BY <1>1, <1>2 DEF Typed
<1>4. Mine(r)'
  BY <1>1, <1>2 DEF Mine
<1>5. ASSUME NEW q \in Requests \ {r} PROVE Untouched(q)
  BY <1>2 DEF Untouched, Elsewhere
<1> QED BY <1>2, <1>3, <1>4, <1>5, OneRequest

\* A request leaves its slot with an answer.
LEMMA LeavesSlotIInv ==
  ASSUME IInv, NEW r \in Requests, ModelFails(r) \/ Respond(r), GP!IInv'
  PROVE  IInv'
<1>1. Typed /\ Mine(r) /\ G!TypeOK
  BY SameInv DEF IInv
<1>2. /\ pc[r] = "running" /\ pc'[r] = "idle" /\ expired' = expired \ {r} /\ Elsewhere(r)
      /\ body' = [body EXCEPT ![r] = "none"]
      /\ (body[r] = "model" \/ job[r] = "done")
      /\ UNCHANGED <<now, arrived, job, jobQueue, limit, waited, overran>>
  BY <1>1, GateMoves DEF ModelFails, Respond, Does, workVars, historyVars
<1>3. Typed'
  BY <1>1, <1>2 DEF Typed
<1>4. body'[r] = "none" /\ job'[r] # "queued"
  BY <1>1, <1>2 DEF Mine, Typed
<1>5. Mine(r)'
  BY <1>2, <1>4 DEF Mine
<1>6. ASSUME NEW q \in Requests \ {r} PROVE Untouched(q)
  BY <1>1, <1>2 DEF Untouched, Elsewhere, Typed
<1> QED BY <1>2, <1>3, <1>5, <1>6, OneRequest

\* One more LP counts at most once.
LEMMA AtMostOneMore ==
  ASSUME NEW S, NEW x, IsFiniteSet(S)
  PROVE  /\ IsFiniteSet(S \union {x}) /\ Cardinality(S) \in Nat
         /\ Cardinality(S \union {x}) \in Nat
         /\ Cardinality(S \union {x}) <= Cardinality(S) + 1
<1>1. Cardinality(S) \in Nat
  BY FS_CardinalityType
<1>2. CASE x \in S
  <2>1. S \union {x} = S
    BY <1>2
  <2>2. Cardinality(S) <= Cardinality(S) + 1
    BY <1>1
  <2> QED BY <1>1, <2>1, <2>2, Zenon
<1>3. CASE x \notin S
  <2>1. IsFiniteSet(S \union {x}) /\ Cardinality(S \union {x}) = Cardinality(S) + 1
    BY <1>3, FS_AddElement, Zenon
  <2> QED BY <1>1, <2>1
<1> QED BY <1>2, <1>3

LEMMA SubmitIInv ==
  ASSUME IInv, NEW r \in Requests, Submit(r), GP!IInv'
  PROVE  IInv'
<1>1. Typed /\ Mine(r) /\ Cardinality(Solving) <= Workers
  BY DEF IInv
<1>2. /\ body[r] = "model" /\ r \notin expired /\ body' = [body EXCEPT ![r] = "solve"]
      /\ UNCHANGED <<pc, expired, now, arrived, overran>>
  BY DEF Submit, Does, gateVars
<1>3. pc[r] = "running" /\ job[r] # "queued"
  BY <1>1, <1>2 DEF Mine
<1>4. CASE /\ Cardinality(Solving) < Workers /\ job' = [job EXCEPT ![r] = "running"]
           /\ limit' = [limit EXCEPT ![r] = now + SolveLimit]
           /\ UNCHANGED <<jobQueue, waited>>
  <2>1. Typed'
    BY <1>1, <1>2, <1>4, Budgets DEF Typed
  <2>2. Cardinality(Solving') <= Workers
    <3>1. Solving' \subseteq Solving \union {r}
      BY <1>1, <1>4 DEF Solving, Typed
    <3>2. /\ IsFiniteSet(Solving \union {r})
          /\ Cardinality(Solving \union {r}) <= Cardinality(Solving) + 1
          /\ Cardinality(Solving \union {r}) \in Nat
      BY SolvingFinite, AtMostOneMore
    <3>3. Cardinality(Solving') <= Cardinality(Solving \union {r})
      BY <3>1, <3>2, FS_Subset
    <3> QED BY <1>4, <3>2, <3>3, SolvingFinite, PathAssumption
  <2>3. Mine(r)'
    <3>1. body'[r] = "solve" /\ job'[r] = "running" /\ limit'[r] = now + SolveLimit
      BY <1>1, <1>2, <1>4 DEF Typed
    <3>2. r \notin waited =>
            now <= now + SolveLimit /\ now + SolveLimit <= arrived[r] + ModelBudget + SolveLimit
      <4>1. r \notin waited => now <= arrived[r] + ModelBudget
        BY <1>1, <1>2 DEF Mine
      <4> QED BY <1>1, <4>1, Budgets DEF Typed
    <3> QED BY <1>2, <1>3, <1>4, <3>1, <3>2 DEF Mine
  <2>4. ASSUME NEW q \in Requests \ {r} PROVE Mine(q)'
    <3>1. Untouched(q)
      BY <1>1, <1>2, <1>4 DEF Untouched, Typed
    <3> QED BY <3>1, Others DEF IInv
  <2> QED BY <2>1, <2>2, <2>3, <2>4 DEF IInv
<1>5. CASE /\ job' = [job EXCEPT ![r] = "queued"] /\ jobQueue' = Append(jobQueue, r)
           /\ waited' = waited \cup {r} /\ UNCHANGED limit
  <2>1. /\ jobQueue \in Seq(waited') /\ r \in waited' /\ jobQueue' = Append(jobQueue, r)
        /\ waited' \in SUBSET Requests
    BY <1>1, <1>5, SeqMonotonic DEF Typed
  <2>2. /\ jobQueue' \in Seq(waited') /\ DOMAIN jobQueue = 1..Len(jobQueue)
        /\ DOMAIN jobQueue' = 1..(Len(jobQueue) + 1) /\ Len(jobQueue) \in Nat
        /\ \A i \in 1..Len(jobQueue) : jobQueue'[i] = jobQueue[i]
        /\ jobQueue'[Len(jobQueue) + 1] = r
    BY <2>1, AppendProperties, LenProperties
  <2>3. Typed'
    BY <1>1, <1>2, <1>5, <2>1, <2>2 DEF Typed
  <2>4. Cardinality(Solving') <= Workers
    <3>1. Solving' \subseteq Solving
      BY <1>1, <1>5 DEF Solving, Typed
    <3>2. Cardinality(Solving') <= Cardinality(Solving)
      BY <3>1, SolvingFinite, FS_Subset
    <3> QED BY <1>1, <3>2, SolvingFinite, PathAssumption
  <2>5. Mine(r)'
    <3>1. body'[r] = "solve" /\ job'[r] = "queued" /\ r \in waited'
      BY <1>1, <1>2, <1>5 DEF Typed
    <3>2. \E i \in DOMAIN jobQueue' : jobQueue'[i] = r
      BY <2>2
    <3> QED BY <1>2, <1>3, <3>1, <3>2 DEF Mine
  <2>6. ASSUME NEW q \in Requests \ {r} PROVE Mine(q)'
    <3>1. (\E i \in DOMAIN jobQueue : jobQueue[i] = q) => \E i \in DOMAIN jobQueue' : jobQueue'[i] = q
      BY <2>2
    <3>2. Untouched(q)
      BY <1>1, <1>2, <1>5, <3>1 DEF Untouched, Typed
    <3> QED BY <3>2, Others DEF IInv
  <2> QED BY <2>3, <2>4, <2>5, <2>6 DEF IInv
<1> QED BY <1>4, <1>5 DEF Submit

LEMMA JobEndsIInv ==
  ASSUME IInv, NEW r \in Requests, JobEnds(r), GP!IInv'
  PROVE  IInv'
<1>1. Typed /\ Mine(r) /\ Cardinality(Solving) <= Workers
  BY DEF IInv
<1>2. job[r] = "running" /\ UNCHANGED <<pc, expired, now, arrived, body, waited, overran>>
  BY DEF JobEnds, gateVars, historyVars
<1>3. CASE jobQueue = <<>> /\ job' = [job EXCEPT ![r] = "done"] /\ UNCHANGED <<jobQueue, limit>>
  <2>1. Typed'
    BY <1>1, <1>2, <1>3 DEF Typed
  <2>2. Cardinality(Solving') <= Workers
    <3>1. Solving' \subseteq Solving
      BY <1>1, <1>3 DEF Solving, Typed
    <3>2. Cardinality(Solving') <= Cardinality(Solving)
      BY <3>1, SolvingFinite, FS_Subset
    <3> QED BY <1>1, <3>2, SolvingFinite, PathAssumption
  <2>3. Mine(r)'
    <3>1. job'[r] = "done"
      BY <1>1, <1>3 DEF Typed
    <3> QED BY <1>1, <1>2, <1>3, <3>1 DEF Mine
  <2>4. ASSUME NEW q \in Requests \ {r} PROVE Mine(q)'
    <3>1. Untouched(q)
      BY <1>1, <1>2, <1>3 DEF Untouched, Typed
    <3> QED BY <3>1, Others DEF IInv
  <2> QED BY <2>1, <2>2, <2>3, <2>4 DEF IInv
<1>4. ASSUME NEW h, h = Head(jobQueue), jobQueue # <<>>,
             job' = [job EXCEPT ![r] = "done", ![h] = "running"],
             limit' = [limit EXCEPT ![h] = now + SolveLimit],
             jobQueue' = Tail(jobQueue)
      PROVE  IInv'
  <2>1. /\ jobQueue \in Seq(waited) /\ waited \in SUBSET Requests
        /\ job \in [Requests -> {"none", "queued", "running", "done"}]
    BY <1>1 DEF Typed
  <2>2. /\ h \in waited /\ jobQueue[1] = h /\ Len(jobQueue) \in Nat \ {0}
        /\ DOMAIN jobQueue = 1..Len(jobQueue) /\ jobQueue' \in Seq(waited)
        /\ DOMAIN jobQueue' = 1..(Len(jobQueue) - 1)
        /\ \A i \in 1..(Len(jobQueue) - 1) : jobQueue'[i] = jobQueue[i + 1]
    <3>1. Len(jobQueue) \in Nat \ {0} /\ DOMAIN jobQueue = 1..Len(jobQueue) /\ jobQueue[1] = h
      BY <1>4, <2>1, EmptySeq, LenProperties
    <3>2. h \in waited
      BY <2>1, <3>1, ElementOfSeq
    <3>3. /\ jobQueue' \in Seq(waited) /\ Len(jobQueue') = Len(jobQueue) - 1
          /\ \A i \in 1..(Len(jobQueue) - 1) : jobQueue'[i] = jobQueue[i + 1]
      BY <1>4, <2>1, <3>1, HeadTailProperties
    <3>4. DOMAIN jobQueue' = 1..(Len(jobQueue) - 1)
      BY <3>3, LenProperties
    <3> QED BY <3>1, <3>2, <3>3, <3>4
  <2>3. h \in Requests /\ job'[h] = "running"
    BY <1>4, <2>1, <2>2
  <2>4. Typed'
    BY <1>1, <1>2, <1>4, <2>2, Budgets DEF Typed
  <2>5. Cardinality(Solving') <= Workers
    <3>1. Solving' \subseteq (Solving \ {r}) \union {h}
      BY <1>4, <2>1, <2>3 DEF Solving
    <3>2. /\ IsFiniteSet(Solving \ {r}) /\ r \in Solving
          /\ Cardinality(Solving \ {r}) = Cardinality(Solving) - 1
      BY <1>2, SolvingFinite, FS_RemoveElement DEF Solving
    <3>3. /\ IsFiniteSet((Solving \ {r}) \union {h})
          /\ Cardinality((Solving \ {r}) \union {h}) <= Cardinality(Solving \ {r}) + 1
      BY <3>2, AtMostOneMore
    <3>4. Cardinality(Solving') <= Cardinality((Solving \ {r}) \union {h})
      BY <3>1, <3>3, FS_Subset
    <3>5. Cardinality((Solving \ {r}) \union {h}) \in Nat
      BY <3>2, AtMostOneMore
    <3> QED BY <1>1, <3>2, <3>3, <3>4, <3>5, SolvingFinite, PathAssumption
  <2>6. Mine(h)'
    <3>1. Mine(h) /\ h \in waited'
      BY <1>2, <2>2, <2>3 DEF IInv
    <3> QED BY <1>2, <2>3, <3>1 DEF Mine
  <2>7. ASSUME r # h PROVE Mine(r)'
    <3>1. job'[r] = "done" /\ limit'[r] = limit[r]
      BY <1>1, <1>4, <2>3, <2>7 DEF Typed
    <3> QED BY <1>1, <1>2, <3>1 DEF Mine
  <2>8. ASSUME NEW q \in Requests, q # r, q # h PROVE Mine(q)'
    <3>1. job'[q] = job[q] /\ limit'[q] = limit[q]
      BY <1>1, <1>4, <2>8 DEF Typed
    <3>2. ASSUME NEW i \in DOMAIN jobQueue, jobQueue[i] = q
          PROVE  \E j \in DOMAIN jobQueue' : jobQueue'[j] = q
      <4>1. i - 1 \in 1..(Len(jobQueue) - 1) /\ (i - 1) + 1 = i
        BY <2>2, <2>8, <3>2
      <4> QED BY <2>2, <3>2, <4>1
    <3>3. Untouched(q)
      BY <1>2, <3>1, <3>2 DEF Untouched
    <3> QED BY <3>3, Others DEF IInv
  <2> QED BY <2>4, <2>5, <2>6, <2>7, <2>8 DEF IInv
<1> QED BY <1>3, <1>4 DEF JobEnds

LEMMA CancelledIInv ==
  ASSUME IInv, NEW r \in Requests, Cancelled(r), GP!IInv'
  PROVE  IInv'
<1>1. Typed /\ Mine(r) /\ G!TypeOK /\ Cardinality(Solving) <= Workers
  BY SameInv DEF IInv
<1>2. /\ pc[r] = "running" /\ pc'[r] = "idle" /\ expired' = expired \ {r} /\ Elsewhere(r)
      /\ body' = [body EXCEPT ![r] = "none"]
      /\ UNCHANGED <<now, arrived, limit, waited, overran>>
  BY <1>1, GateMoves DEF Cancelled, Does, historyVars
<1>3. body'[r] = "none"
  BY <1>1, <1>2 DEF Typed
<1>4. CASE job[r] # "queued" /\ UNCHANGED <<job, jobQueue>>
  <2>1. Typed'
    BY <1>1, <1>2, <1>4 DEF Typed
  <2>2. Mine(r)'
    BY <1>2, <1>3, <1>4 DEF Mine
  <2>3. ASSUME NEW q \in Requests \ {r} PROVE Untouched(q)
    BY <1>1, <1>2, <1>4 DEF Untouched, Elsewhere, Typed
  <2> QED BY <1>4, <2>1, <2>2, <2>3, OneRequest
<1>5. ASSUME NEW k, k = (CHOOSE i \in DOMAIN jobQueue : jobQueue[i] = r), job[r] = "queued",
             job' = [job EXCEPT ![r] = "none"], jobQueue' = RemoveAt(jobQueue, k)
      PROVE  IInv'
  <2>1. k \in DOMAIN jobQueue /\ jobQueue[k] = r
    BY <1>1, <1>5 DEF Mine
  <2>2. /\ jobQueue' \in Seq(waited)
        /\ \A j \in DOMAIN jobQueue : j # k =>
             \E i \in DOMAIN jobQueue' : jobQueue'[i] = jobQueue[j]
    <3>1. jobQueue \in Seq(waited) /\ jobQueue' = GP!RemoveAt(jobQueue, k)
      BY <1>1, <1>5 DEF Typed, RemoveAt, GP!RemoveAt
    <3> QED BY <2>1, <3>1, GateHolds, GP!RemoveAtKeeps
  <2>3. Typed'
    BY <1>1, <1>2, <1>5, <2>2 DEF Typed
  <2>4. Cardinality(Solving') <= Workers
    <3>1. Solving' \subseteq Solving
      BY <1>1, <1>5 DEF Solving, Typed
    <3>2. Cardinality(Solving') <= Cardinality(Solving)
      BY <3>1, SolvingFinite, FS_Subset
    <3> QED BY <1>1, <3>2, SolvingFinite, PathAssumption
  <2>5. Mine(r)'
    <3>1. job'[r] = "none"
      BY <1>1, <1>5 DEF Typed
    <3> QED BY <1>2, <1>3, <3>1 DEF Mine
  <2>6. ASSUME NEW q \in Requests \ {r} PROVE Mine(q)'
    <3>1. (\E i \in DOMAIN jobQueue : jobQueue[i] = q) => \E i \in DOMAIN jobQueue' : jobQueue'[i] = q
      BY <2>1, <2>2
    <3>2. Untouched(q)
      BY <1>1, <1>2, <1>5, <3>1 DEF Untouched, Elsewhere, Typed
    <3> QED BY <3>2, Others DEF IInv
  <2> QED BY <2>3, <2>4, <2>5, <2>6 DEF IInv
<1> QED BY <1>4, <1>5 DEF Cancelled, workVars

LEMMA TickIInv ==
  ASSUME IInv, Tick, GP!IInv'
  PROVE  IInv'
<1>1. Typed /\ Cardinality(Solving) <= Workers
  BY DEF IInv
<1>2. /\ now < MaxTime /\ now' = now + 1
      /\ UNCHANGED <<pc, expired, arrived, body, job, jobQueue, limit, waited>>
      /\ overran' = overran \union {r \in Solving : limit[r] <= now}
  BY DEF Tick, gateVars, workVars
<1>3. Typed'
  <2>1. now' \in 1..MaxTime
    BY <1>1, <1>2, PathAssumption DEF Typed
  <2>2. arrived' \in [Requests -> 0..now']
    <3>1. \A i \in 0..now : i \in 0..(now + 1)
      BY <1>1 DEF Typed
    <3> QED BY <1>1, <1>2, <3>1 DEF Typed
  <2>3. overran' \in SUBSET Requests
    BY <1>1, <1>2 DEF Typed, Solving
  <2> QED BY <1>1, <1>2, <2>1, <2>2, <2>3 DEF Typed
<1>4. Solving' = Solving
  BY <1>2 DEF Solving
<1>5. ASSUME NEW r \in Requests PROVE Mine(r)'
  <2>1. Mine(r) /\ now \in Nat /\ limit[r] \in Nat /\ arrived[r] \in Nat
    BY <1>1 DEF IInv, Typed
  <2>2. body[r] = "model" => now + 1 <= limit[r]
    BY <2>1 DEF Tick
  <2>3. (body[r] = "solve" /\ r \notin waited \union overran') => now + 1 <= limit[r]
    <3> SUFFICES ASSUME body[r] = "solve", r \notin waited \union overran'
                 PROVE  now + 1 <= limit[r]
      OBVIOUS
    <3>1. job[r] = "running"
      BY <1>2, <2>1 DEF Mine, Tick
    <3>2. ~(limit[r] <= now)
      BY <1>2, <3>1 DEF Solving
    <3> QED BY <2>1, <3>2
  <2>4. r \notin overran' => r \notin overran
    BY <1>2
  <2> QED BY <1>2, <2>1, <2>2, <2>3, <2>4 DEF Mine
<1> QED BY <1>1, <1>3, <1>4, <1>5 DEF IInv

LEMMA NextIInv == IInv /\ [Next]_vars => IInv'
<1> SUFFICES ASSUME IInv, [Next]_vars PROVE IInv'
  OBVIOUS
<1>1. GP!IInv'
  BY GateIInv
<1>2. CASE Next
  BY <1>1, <1>2, ArriveIInv, AwakeIInv, DueIInv, LeavesQueueIInv, LeavesSlotIInv, SubmitIInv,
     JobEndsIInv, CancelledIInv, TickIInv DEF Next
<1>3. CASE UNCHANGED vars
  <2>1. Typed'
    BY <1>3 DEF IInv, Typed, vars, workVars, historyVars
  <2>2. \A r \in Requests : Mine(r)'
    BY <1>3 DEF IInv, Mine, vars, gateVars, workVars, historyVars
  <2>3. Solving' = Solving
    BY <1>3 DEF Solving, vars, workVars
  <2> QED BY <1>1, <2>1, <2>2, <2>3 DEF IInv
<1> QED BY <1>2, <1>3

LEMMA Always == Spec => []IInv
  BY InitIInv, NextIInv, PTL DEF Spec

\* A request is in the planner exactly while it has a slot, for any limits.
THEOREM TypeCorrect == Spec => []TypeOK
<1>1. IInv => TypeOK
  <2> SUFFICES ASSUME IInv PROVE TypeOK
    OBVIOUS
  <2>1. Typed /\ G!TypeOK /\ \A r \in Requests : Mine(r)
    BY SameInv DEF IInv
  <2>2. jobQueue \in Seq(Requests)
    BY <2>1, SeqMonotonic DEF Typed
  <2>3. \A r \in Requests : body[r] # "none" <=> pc[r] = "running"
    BY <2>1 DEF Mine
  <2> QED BY <2>1, <2>2, <2>3 DEF Typed, TypeOK, historyVars
<1> QED BY <1>1, Always, PTL

\* However many requests are cancelled behind running LPs, the LPs that run or
\* wait are at most one per worker and one per slot.
THEOREM WorkIsBounded == Spec => []WorkBounded
<1>1. IInv => WorkBounded
  <2> SUFFICES ASSUME IInv PROVE WorkBounded
    OBVIOUS
  <2> DEFINE Jobs == {r \in Requests : job[r] \in {"queued", "running"}}
             Slotted == {r \in Requests : pc[r] = "running"}
  <2>1. /\ Typed /\ Cardinality(Solving) <= Workers /\ \A r \in Requests : Mine(r)
        /\ G!TypeOK /\ G!CountersMatch
    BY SameInv DEF IInv
  <2>2. \A r \in Requests : job[r] = "queued" => body[r] = "solve" /\ pc[r] = "running"
    BY <2>1 DEF Mine
  <2>3. Jobs \subseteq Solving \union Slotted
    BY <2>2 DEF Solving
  <2>4. Cardinality(Slotted) = active /\ active \in 0..MaxActive
    BY <2>1 DEF G!CountersMatch, G!TypeOK, G!Running, G!At, G!Cardinality, Cardinality,
                G!IsFiniteSet, IsFiniteSet
  <2>5. IsFiniteSet(Slotted) /\ IsFiniteSet(Solving) /\ IsFiniteSet(Solving \intersect Slotted)
    <3>1. Slotted \subseteq Requests
      OBVIOUS
    <3>2. Solving \intersect Slotted \subseteq Solving
      OBVIOUS
    <3>3. IsFiniteSet(Slotted)
      BY <3>1, PathAssumption, FS_Subset
    <3>4. IsFiniteSet(Solving \intersect Slotted)
      BY <3>2, FS_Subset, SolvingFinite
    <3> QED BY <3>3, <3>4, SolvingFinite
  <2>6. /\ IsFiniteSet(Solving \union Slotted)
        /\ Cardinality(Solving \union Slotted) <= Cardinality(Solving) + Cardinality(Slotted)
    <3> HIDE DEF Slotted
    <3>1. /\ Cardinality(Solving) \in Nat /\ Cardinality(Slotted) \in Nat
          /\ Cardinality(Solving \intersect Slotted) \in Nat
      BY <2>5, FS_CardinalityType
    <3>2. /\ IsFiniteSet(Solving \union Slotted)
          /\ Cardinality(Solving \union Slotted)
               = Cardinality(Solving) + Cardinality(Slotted) - Cardinality(Solving \intersect Slotted)
      BY <2>5, FS_Union
    <3> QED BY <3>1, <3>2
  <2>7. Cardinality(Jobs) <= Cardinality(Solving \union Slotted) /\ Cardinality(Jobs) \in Nat
    BY <2>3, <2>6, FS_Subset, FS_CardinalityType
  <2>8. Cardinality(Jobs) <= Workers + MaxActive
    BY <2>1, <2>4, <2>6, <2>7, SolvingFinite, PathAssumption, FS_CardinalityType
  <2> QED BY <2>2, <2>8 DEF WorkBounded
<1> QED BY <1>1, Always, PTL

\* The budgets of the stages add up for any budgets with the reserve in between:
\* a late request has waited, or its own LP ran over its limit.
THEOREM LatenessExplained == Spec => []LateOnlyByWaiting
<1>1. IInv => LateOnlyByWaiting
  BY DEF IInv, Mine, LateOnlyByWaiting
<1> QED BY <1>1, Always, PTL

\* The endpoint drives the gate by the gate's own steps only.
THEOREM DrivesGate == Spec => G!Spec
<1>1. Init => G!Init
  BY DEF Init
<1> QED BY <1>1, GateStep, PTL DEF Spec, G!Spec
=============================================================================
