----------------------- MODULE OptimizationGateProofs -----------------------
(***************************************************************************)
(* Proofs about OptimizationGate for any finite set of requests and any    *)
(* limits.  The counters alone are not inductive: the decrement of         *)
(* _waiting needs the counter to count the queued tasks, and the deque     *)
(* stays a sequence of requests only because every queued task is in it.   *)
(***************************************************************************)
EXTENDS OptimizationGate, FiniteSetTheorems, SequenceTheorems,
        WellFoundedInduction, TLAPS

\* Every suspended task has a future in the condition's deque.
Listed == \A r \in Queued : \E i \in DOMAIN waiters : waiters[i] = r

IInv == TypeOK /\ CountersMatch /\ Listed

\* What removing one position of a sequence keeps: the type, and an entry for
\* every other position.  Stands under deque.remove(fut).
LEMMA RemoveAtKeeps ==
  ASSUME NEW S, NEW s \in Seq(S), NEW i \in DOMAIN s
  PROVE  /\ RemoveAt(s, i) \in Seq(S)
         /\ \A j \in DOMAIN s : j # i =>
              \E k \in DOMAIN RemoveAt(s, i) : RemoveAt(s, i)[k] = s[j]
<1> DEFINE front == SubSeq(s, 1, i - 1)
           back  == SubSeq(s, i + 1, Len(s))
<1>1. /\ Len(s) \in Nat /\ DOMAIN s = 1..Len(s) /\ i \in 1..Len(s)
      /\ \A k \in 1..Len(s) : s[k] \in S
  OBVIOUS
<1>2. /\ front \in Seq(S) /\ Len(front) = i - 1
      /\ \A k \in 1..(i - 1) : front[k] = s[k]
  <2>1. \A k \in 1..(i - 1) : s[k] \in S
    BY <1>1
  <2>2. /\ SubSeq(s, 1, i - 1) \in Seq(S)
        /\ Len(SubSeq(s, 1, i - 1)) = IF 1 <= i - 1 THEN (i - 1) - 1 + 1 ELSE 0
        /\ \A k \in 1..((i - 1) - 1 + 1) : SubSeq(s, 1, i - 1)[k] = s[1 + k - 1]
    <3> HIDE DEF front
    <3>1. 1 \in Int /\ i - 1 \in Int
      BY <1>1
    <3> QED BY <2>1, <3>1, SubSeqProperties
  <2> QED BY <1>1, <2>2
<1>3. /\ back \in Seq(S) /\ Len(back) = Len(s) - i
      /\ \A k \in 1..(Len(s) - i) : back[k] = s[i + k]
  <2>1. \A k \in (i + 1)..Len(s) : s[k] \in S
    BY <1>1
  <2>2. /\ SubSeq(s, i + 1, Len(s)) \in Seq(S)
        /\ Len(SubSeq(s, i + 1, Len(s))) = IF i + 1 <= Len(s) THEN Len(s) - (i + 1) + 1 ELSE 0
        /\ \A k \in 1..(Len(s) - (i + 1) + 1) :
             SubSeq(s, i + 1, Len(s))[k] = s[(i + 1) + k - 1]
    <3>1. i + 1 \in Int /\ Len(s) \in Int
      BY <1>1
    <3> QED BY <2>1, <3>1, SubSeqProperties
  <2>3. \A k \in 1..(Len(s) - i) : /\ k \in 1..(Len(s) - (i + 1) + 1)
                                  /\ (i + 1) + k - 1 = i + k
    BY <1>1
  <2>4. Len(back) = Len(s) - i
    BY <1>1, <2>2
  <2>5. ASSUME NEW k \in 1..(Len(s) - i) PROVE back[k] = s[i + k]
    BY <2>2, <2>3
  <2> QED BY <2>2, <2>4, <2>5
<1>4. RemoveAt(s, i) = front \o back
  BY DEF RemoveAt
<1> HIDE DEF front, back
<1>5. /\ front \o back \in Seq(S)
      /\ Len(front \o back) = Len(s) - 1
      /\ \A k \in 1..(Len(s) - 1) :
           (front \o back)[k] = IF k <= i - 1 THEN front[k] ELSE back[k - (i - 1)]
  <2>1. /\ front \o back \in Seq(S)
        /\ Len(front \o back) = Len(front) + Len(back)
        /\ \A k \in 1..(Len(front) + Len(back)) : (front \o back)[k] =
             IF k <= Len(front) THEN front[k] ELSE back[k - Len(front)]
    BY <1>2, <1>3, ConcatProperties
  <2>2. Len(front) + Len(back) = Len(s) - 1
    BY <1>1, <1>2, <1>3
  <2> QED BY <1>1, <1>2, <2>1, <2>2
<1>6. DOMAIN RemoveAt(s, i) = 1..(Len(s) - 1)
  BY <1>4, <1>5
<1>7. ASSUME NEW j \in DOMAIN s, j # i
      PROVE  \E k \in DOMAIN RemoveAt(s, i) : RemoveAt(s, i)[k] = s[j]
  <2>1. CASE j < i
    <3>1. j \in 1..(Len(s) - 1) /\ j \in 1..(i - 1)
      BY <1>1, <1>7, <2>1
    <3>2. RemoveAt(s, i)[j] = s[j]
      BY <1>1, <1>2, <1>4, <1>5, <3>1
    <3> QED BY <1>6, <3>1, <3>2
  <2>2. CASE j > i
    <3>1. /\ j - 1 \in 1..(Len(s) - 1) /\ ~(j - 1 <= i - 1)
          /\ (j - 1) - (i - 1) \in 1..(Len(s) - i) /\ i + ((j - 1) - (i - 1)) = j
      BY <1>1, <1>7, <2>2
    <3>2. RemoveAt(s, i)[j - 1] = back[(j - 1) - (i - 1)]
      BY <1>4, <1>5, <3>1
    <3>3. back[(j - 1) - (i - 1)] = s[j]
      BY <1>3, <3>1
    <3> QED BY <1>6, <3>1, <3>2, <3>3
  <2> QED BY <1>1, <1>7, <2>1, <2>2
<1> QED BY <1>4, <1>5, <1>7

\* The deque after the task of a listed request has left it.
LEMMA DequeuedKeeps ==
  ASSUME waiters \in Seq(Requests), NEW r,
         \E i \in DOMAIN waiters : waiters[i] = r
  PROVE  /\ Dequeued(r) \in Seq(Requests)
         /\ \A q : (q # r /\ \E i \in DOMAIN waiters : waiters[i] = q)
                    => \E k \in DOMAIN Dequeued(r) : Dequeued(r)[k] = q
<1> DEFINE at == CHOOSE i \in DOMAIN waiters : waiters[i] = r
<1>1. at \in DOMAIN waiters /\ waiters[at] = r
  OBVIOUS
<1>2. Dequeued(r) = RemoveAt(waiters, at)
  BY DEF Dequeued
<1> HIDE DEF at
<1>3. /\ RemoveAt(waiters, at) \in Seq(Requests)
      /\ \A j \in DOMAIN waiters : j # at =>
           \E k \in DOMAIN RemoveAt(waiters, at) : RemoveAt(waiters, at)[k] = waiters[j]
  BY <1>1, RemoveAtKeeps
<1> QED BY <1>1, <1>2, <1>3

\* What Append keeps of the deque.
LEMMA AppendKeeps ==
  ASSUME NEW s \in Seq(Requests), NEW r \in Requests
  PROVE  /\ Append(s, r) \in Seq(Requests)
         /\ \E k \in DOMAIN Append(s, r) : Append(s, r)[k] = r
         /\ \A q : (\E i \in DOMAIN s : s[i] = q)
                    => \E k \in DOMAIN Append(s, r) : Append(s, r)[k] = q
<1>1. /\ Append(s, r) \in Seq(Requests)
      /\ Len(Append(s, r)) = Len(s) + 1
      /\ \A i \in 1..Len(s) : Append(s, r)[i] = s[i]
      /\ Append(s, r)[Len(s) + 1] = r
  BY AppendProperties
<1>2. DOMAIN Append(s, r) = 1..(Len(s) + 1) /\ DOMAIN s = 1..Len(s) /\ Len(s) \in Nat
  BY <1>1
<1> QED BY <1>1, <1>2

\* Every set of tasks by place is finite.
LEMMA PlacesFinite ==
  ASSUME NEW place
  PROVE  IsFiniteSet(At(place)) /\ IsFiniteSet(Queued)
<1>1. At(place) \in SUBSET Requests /\ Queued \in SUBSET Requests
  BY DEF At, Queued
<1> QED BY <1>1, FS_Subset, GateAssumption

\* A counter that counts a set is positive when the set has a member, and
\* follows the set when one member comes or goes.
LEMMA CountPlus ==
  ASSUME NEW S, NEW T, NEW x, IsFiniteSet(S), x \notin S, T = S \cup {x}
  PROVE  IsFiniteSet(T) /\ Cardinality(T) = Cardinality(S) + 1
BY FS_AddElement

LEMMA CountMinus ==
  ASSUME NEW S, NEW T, NEW x, IsFiniteSet(S), x \in S, T = S \ {x}
  PROVE  /\ IsFiniteSet(T) /\ Cardinality(T) = Cardinality(S) - 1
         /\ Cardinality(S) \in Nat \ {0} /\ Cardinality(T) \in Nat
<1>1. IsFiniteSet(T) /\ Cardinality(T) = Cardinality(S) - 1
  BY FS_RemoveElement
<1>2. Cardinality(S) \in Nat /\ Cardinality(T) \in Nat
  BY <1>1, FS_CardinalityType
<1> QED BY <1>1, <1>2

\* How each operation moves a request between the two sets.
LEMMA Moves ==
  ASSUME TypeOK, NEW r \in Requests
  PROVE  /\ Admit(r) => /\ r \notin Running /\ r \notin Queued
                        /\ Running' = Running \cup {r} /\ Queued' = Queued
         /\ Enqueue(r) => /\ r \notin Running /\ r \notin Queued
                          /\ Queued' = Queued \cup {r} /\ Running' = Running
         /\ Reject(r) => Running' = Running /\ Queued' = Queued
         /\ Promote(r) => /\ r \in Queued /\ r \notin Running
                          /\ Queued' = Queued \ {r} /\ Running' = Running \cup {r}
         /\ SleepAgain(r) => r \in Queued /\ Running' = Running /\ Queued' = Queued
         /\ Expire(r) => Running' = Running /\ Queued' = Queued
         /\ Abandon(r) => r \in Queued /\ Queued' = Queued \ {r} /\ Running' = Running
         /\ Release(r) => r \in Running /\ Running' = Running \ {r} /\ Queued' = Queued
<1> USE DEF Running, Queued, At, TypeOK
<1>1. FirstPending \subseteq At("asleep")
  BY DEF FirstPending, Pending
<1>2. Admit(r) => /\ r \notin Running /\ r \notin Queued
                  /\ Running' = Running \cup {r} /\ Queued' = Queued
  BY DEF Admit
<1>3. Enqueue(r) => /\ r \notin Running /\ r \notin Queued
                    /\ Queued' = Queued \cup {r} /\ Running' = Running
  BY DEF Enqueue
<1>4. Promote(r) => /\ r \in Queued /\ r \notin Running
                    /\ Queued' = Queued \ {r} /\ Running' = Running \cup {r}
  BY DEF Promote
<1>5. SleepAgain(r) => r \in Queued /\ Running' = Running /\ Queued' = Queued
  BY DEF SleepAgain
<1>6. Abandon(r) => r \in Queued /\ Queued' = Queued \ {r} /\ Running' = Running
  BY DEF Abandon
<1>7. Release(r) => r \in Running /\ Running' = Running \ {r} /\ Queued' = Queued
  BY <1>1 DEF Release
<1>8. (Reject(r) => Running' = Running /\ Queued' = Queued)
      /\ (Expire(r) => Running' = Running /\ Queued' = Queued)
  BY DEF Reject, Expire
<1> QED BY <1>2, <1>3, <1>4, <1>5, <1>6, <1>7, <1>8

LEMMA InitIInv == Init => IInv
<1> SUFFICES ASSUME Init PROVE IInv
  OBVIOUS
<1>1. At("running") = {} /\ Running = {} /\ Queued = {}
  BY DEF Init, At, Running, Queued
<1>2. TypeOK
  BY GateAssumption DEF Init, TypeOK, Places, Outcomes
<1>3. CountersMatch /\ Listed
  BY <1>1, FS_EmptySet DEF Init, CountersMatch, Listed
<1> QED BY <1>2, <1>3 DEF IInv

LEMMA StepIInv == IInv /\ [Next]_vars => IInv'
<1> SUFFICES ASSUME IInv, [Next]_vars PROVE IInv'
  OBVIOUS
<1> USE DEF IInv
<1>0. /\ Running \subseteq Requests /\ Queued \subseteq Requests
      /\ IsFiniteSet(Running) /\ IsFiniteSet(Queued)
      /\ active \in Nat /\ waiting \in Nat /\ active <= MaxActive /\ waiting <= MaxQueued
      /\ MaxActive \in Nat /\ MaxQueued \in Nat
  <2>1. Running \subseteq Requests /\ Queued \subseteq Requests
    BY DEF Running, Queued, At
  <2>2. IsFiniteSet(Running) /\ IsFiniteSet(Queued)
    BY PlacesFinite DEF Running
  <2> QED BY <2>1, <2>2, GateAssumption DEF TypeOK
<1>1. ASSUME NEW r \in Requests, Admit(r) PROVE IInv'
  <2>1. Running' = Running \cup {r} /\ r \notin Running /\ Queued' = Queued
    BY <1>1, Moves
  <2>2. CountersMatch'
    BY <1>0, <1>1, <2>1, CountPlus DEF Admit, CountersMatch
  <2>3. TypeOK'
    BY <1>0, <1>1 DEF Admit, TypeOK, Places, Outcomes
  <2>4. Listed'
    BY <1>1, <2>1 DEF Admit, Listed
  <2> QED BY <2>2, <2>3, <2>4
<1>2. ASSUME NEW r \in Requests, Enqueue(r) PROVE IInv'
  <2>1. Queued' = Queued \cup {r} /\ r \notin Queued /\ Running' = Running
    BY <1>2, Moves
  <2>2. CountersMatch'
    BY <1>0, <1>2, <2>1, CountPlus DEF Enqueue, CountersMatch
  <2>3. waiters' \in Seq(Requests)
    BY <1>2, AppendKeeps DEF Enqueue, TypeOK
  <2>4. TypeOK'
    BY <1>0, <1>2, <2>3 DEF Enqueue, TypeOK, Places, Outcomes
  <2>5. Listed'
    <3>1. waiters' = Append(waiters, r) /\ waiters \in Seq(Requests)
      BY <1>2 DEF Enqueue, TypeOK
    <3>2. /\ \E k \in DOMAIN waiters' : waiters'[k] = r
          /\ \A q : (\E i \in DOMAIN waiters : waiters[i] = q)
                     => \E k \in DOMAIN waiters' : waiters'[k] = q
      BY <3>1, AppendKeeps
    <3> QED BY <2>1, <3>2 DEF Listed
  <2> QED BY <2>2, <2>4, <2>5
<1>3. ASSUME NEW r \in Requests, Reject(r) PROVE IInv'
  <2>1. Queued' = Queued /\ Running' = Running
    BY <1>3, Moves
  <2> QED BY <1>3, <2>1 DEF Reject, TypeOK, Outcomes, CountersMatch, Listed
<1>4. ASSUME NEW r \in Requests, Promote(r) PROVE IInv'
  <2>1. /\ Queued' = Queued \ {r} /\ r \in Queued
        /\ Running' = Running \cup {r} /\ r \notin Running
    BY <1>4, Moves
  <2>2. active' = Cardinality(Running') /\ active' = active + 1
    BY <1>0, <1>4, <2>1, CountPlus DEF Promote, CountersMatch
  <2>3. waiting' = Cardinality(Queued') /\ waiting' = waiting - 1 /\ waiting' \in Nat
    <3>1. Cardinality(Queued') = Cardinality(Queued) - 1 /\ Cardinality(Queued') \in Nat
      BY <1>0, <2>1, CountMinus
    <3> QED BY <1>4, <3>1 DEF Promote, CountersMatch
  <2>4. waiters' \in Seq(Requests) /\ Listed'
    <3>1. waiters' = Dequeued(r) /\ waiters \in Seq(Requests)
      BY <1>4 DEF Promote, TypeOK
    <3> QED BY <2>1, <3>1, DequeuedKeeps DEF Listed
  <2>5. TypeOK'
    BY <1>0, <1>4, <2>2, <2>3, <2>4 DEF Promote, TypeOK, Places, Outcomes
  <2> QED BY <2>2, <2>3, <2>4, <2>5 DEF CountersMatch
<1>5. ASSUME NEW r \in Requests, SleepAgain(r) PROVE IInv'
  <2>1. Queued' = Queued /\ r \in Queued /\ Running' = Running
    BY <1>5, Moves
  <2>2. waiters' \in Seq(Requests) /\ Listed'
    <3>1. waiters' = Append(Dequeued(r), r) /\ waiters \in Seq(Requests)
      BY <1>5 DEF SleepAgain, TypeOK
    <3>2. /\ Dequeued(r) \in Seq(Requests)
          /\ \A q \in Queued : q # r => \E k \in DOMAIN Dequeued(r) : Dequeued(r)[k] = q
      BY <2>1, <3>1, DequeuedKeeps DEF Listed
    <3>3. /\ waiters' \in Seq(Requests)
          /\ \E k \in DOMAIN waiters' : waiters'[k] = r
          /\ \A q : (\E i \in DOMAIN Dequeued(r) : Dequeued(r)[i] = q)
                     => \E k \in DOMAIN waiters' : waiters'[k] = q
      <4> DEFINE d == Dequeued(r)
      <4>1. d \in Seq(Requests) /\ waiters' = Append(d, r)
        BY <3>1, <3>2
      <4> HIDE DEF d
      <4>2. /\ waiters' \in Seq(Requests)
            /\ \E k \in DOMAIN waiters' : waiters'[k] = r
            /\ \A q : (\E i \in DOMAIN d : d[i] = q)
                       => \E k \in DOMAIN waiters' : waiters'[k] = q
        BY <4>1, AppendKeeps
      <4> QED BY <4>2 DEF d
    <3> QED BY <2>1, <3>2, <3>3 DEF Listed
  <2>3. TypeOK'
    BY <1>5, <2>2 DEF SleepAgain, TypeOK, Places
  <2>4. CountersMatch'
    BY <1>5, <2>1 DEF SleepAgain, CountersMatch
  <2> QED BY <2>2, <2>3, <2>4
<1>6. ASSUME NEW r \in Requests, Expire(r) PROVE IInv'
  <2>1. Queued' = Queued /\ Running' = Running
    BY <1>6, Moves
  <2> QED BY <1>6, <2>1 DEF Expire, TypeOK, CountersMatch, Listed
<1>7. ASSUME NEW r \in Requests, Abandon(r) PROVE IInv'
  <2>1. Queued' = Queued \ {r} /\ r \in Queued /\ Running' = Running
    BY <1>7, Moves
  <2>2. waiting' = Cardinality(Queued') /\ waiting' = waiting - 1 /\ waiting' \in Nat
    <3>1. Cardinality(Queued') = Cardinality(Queued) - 1 /\ Cardinality(Queued') \in Nat
      BY <1>0, <2>1, CountMinus
    <3> QED BY <1>7, <3>1 DEF Abandon, CountersMatch
  <2>3. waiters' \in Seq(Requests) /\ Listed'
    <3>1. waiters' = Dequeued(r) /\ waiters \in Seq(Requests)
      BY <1>7 DEF Abandon, TypeOK
    <3> QED BY <2>1, <3>1, DequeuedKeeps DEF Listed
  <2>4. TypeOK'
    BY <1>0, <1>7, <2>2, <2>3 DEF Abandon, TypeOK, Places, Outcomes
  <2>5. CountersMatch'
    BY <1>7, <2>1, <2>2 DEF Abandon, CountersMatch
  <2> QED BY <2>3, <2>4, <2>5
<1>8. ASSUME NEW r \in Requests, Release(r) PROVE IInv'
  <2>2. Running' = Running \ {r} /\ r \in Running
    BY <1>8, Moves
  <2>3. Queued' = Queued
    BY <1>8, Moves
  <2>4. active' = Cardinality(Running') /\ active' = active - 1 /\ active' \in Nat
    <3>1. Cardinality(Running') = Cardinality(Running) - 1 /\ Cardinality(Running') \in Nat
      BY <1>0, <2>2, CountMinus
    <3> QED BY <1>8, <3>1 DEF Release, CountersMatch
  <2>5. pc' \in [Requests -> Places]
    BY <1>8 DEF Release, TypeOK, Places
  <2>6. expired' \in SUBSET {q \in Requests : pc'[q] # "idle"}
    BY <1>8 DEF Release, TypeOK
  <2>7. TypeOK'
    BY <1>0, <1>8, <2>4, <2>5, <2>6 DEF Release, TypeOK, Outcomes
  <2>8. Listed' /\ waiting' = Cardinality(Queued')
    BY <1>8, <2>3 DEF Release, Listed, CountersMatch
  <2> QED BY <2>4, <2>7, <2>8 DEF CountersMatch
<1>9. CASE UNCHANGED vars
  <2>1. Queued' = Queued /\ Running' = Running
    BY <1>9 DEF vars, Running, Queued, At
  <2> QED BY <1>9, <2>1 DEF vars, TypeOK, CountersMatch, Listed
<1> QED BY <1>1, <1>2, <1>3, <1>4, <1>5, <1>6, <1>7, <1>8, <1>9 DEF Next

\* The strengthened invariant holds in every reachable state.
THEOREM IInvHolds == Spec => []IInv
<1>1. Init => IInv
  BY InitIInv
<1>2. IInv /\ [Next]_vars => IInv'
  BY StepIInv
<1> QED BY <1>1, <1>2, PTL DEF Spec

\* Type correctness, with both counters inside their limits: never more than
\* MaxActive calls in the body of acquire(), never more than MaxQueued queued.
THEOREM TypeCorrect == Spec => []TypeOK
<1>1. IInv => TypeOK
  BY DEF IInv
<1> QED BY <1>1, IInvHolds, PTL

\* No slot and no queue place leaks, for any number of callers.
THEOREM CountersExact == Spec => []CountersMatch
<1>1. IInv => CountersMatch
  BY DEF IInv
<1> QED BY <1>1, IInvHolds, PTL

\* A call is turned away only while every slot and every queue place is taken.
THEOREM RejectionJustified == Spec => RejectedOnlyWhenFull
<1>1. IInv /\ [Next]_vars =>
        [\A r \in Requests :
           (outcome'[r] = "rejected" /\ outcome[r] # "rejected")
             => /\ Cardinality(Running) = MaxActive
                /\ Cardinality(Queued) = MaxQueued]_vars
  <2> SUFFICES ASSUME IInv, Next, NEW r \in Requests,
                      outcome'[r] = "rejected", outcome[r] # "rejected"
               PROVE  /\ Cardinality(Running) = MaxActive
                      /\ Cardinality(Queued) = MaxQueued
    OBVIOUS
  <2>1. PICK q \in Requests :
          \/ Admit(q) \/ Enqueue(q) \/ Reject(q) \/ Promote(q)
          \/ SleepAgain(q) \/ Expire(q) \/ Abandon(q) \/ Release(q)
    BY DEF Next
  <2>2. Reject(q)
    BY <2>1 DEF Admit, Enqueue, Promote, SleepAgain, Expire, Abandon, Release,
                IInv, TypeOK, Outcomes
  <2> QED BY <2>2, GateAssumption DEF Reject, IInv, TypeOK, CountersMatch
<1> QED BY <1>1, IInvHolds, PTL DEF Spec, RejectedOnlyWhenFull

\* The instance counts with a copy of Cardinality of its own.
LEMMA SameCardinality == \A S : Abs!Cardinality(S) = Cardinality(S)
BY DEF Abs!Cardinality, Cardinality, Abs!IsFiniteSet, IsFiniteSet

\* The initial state and every step of the gate are a state and a step, or a
\* stutter, of the bounded set of running and the bounded set of queued calls.
THEOREM Refinement == Spec => ImplementsBoundedGate
<1>1. Init => Abs!Init
  BY DEF Init, Abs!Init, Running, Queued, At
<1>2. IInv /\ [Next]_vars => [Abs!Next]_(Abs!vars)
  <2> SUFFICES ASSUME IInv, [Next]_vars PROVE [Abs!Next]_(Abs!vars)
    OBVIOUS
  <2>0. TypeOK /\ active = Cardinality(Running) /\ waiting = Cardinality(Queued)
    BY DEF IInv, CountersMatch
  <2>1. ASSUME NEW r \in Requests, Admit(r) PROVE Abs!Start(r)
    <3>1. active < MaxActive
      BY <2>1 DEF Admit
    <3>2. Abs!SlotFree
      BY <2>0, <3>1, SameCardinality DEF Abs!SlotFree
    <3>3. Abs!Outside(r) /\ Running' = Running \cup {r} /\ UNCHANGED Queued
      BY <2>0, <2>1, Moves DEF Abs!Outside
    <3> QED BY <3>2, <3>3 DEF Abs!Start
  <2>2. ASSUME NEW r \in Requests, Enqueue(r) PROVE Abs!Queue(r)
    <3>1. ~(active < MaxActive) /\ waiting < MaxQueued
      BY <2>2, GateAssumption DEF Enqueue, IInv, TypeOK
    <3>2. ~Abs!SlotFree /\ Cardinality(Queued) < MaxQueued
      BY <2>0, <3>1, SameCardinality DEF Abs!SlotFree
    <3>3. Abs!Outside(r) /\ Queued' = Queued \cup {r} /\ UNCHANGED Running
      BY <2>0, <2>2, Moves DEF Abs!Outside
    <3> QED BY <3>2, <3>3, SameCardinality DEF Abs!Queue
  <2>3. ASSUME NEW r \in Requests, Promote(r) PROVE Abs!Promote(r)
    <3>1. active < MaxActive
      BY <2>3 DEF Promote
    <3>2. Abs!SlotFree
      BY <2>0, <3>1, SameCardinality DEF Abs!SlotFree
    <3>3. r \in Queued /\ Running' = Running \cup {r} /\ Queued' = Queued \ {r}
      BY <2>0, <2>3, Moves
    <3> QED BY <3>2, <3>3 DEF Abs!Promote
  <2>4. ASSUME NEW r \in Requests, Release(r) PROVE Abs!Finish(r)
    BY <2>0, <2>4, Moves DEF Abs!Finish
  <2>5. ASSUME NEW r \in Requests, Abandon(r) PROVE Abs!Leave(r)
    BY <2>0, <2>5, Moves DEF Abs!Leave
  <2>6. ASSUME NEW r \in Requests, Reject(r) \/ SleepAgain(r) \/ Expire(r)
        PROVE  UNCHANGED Abs!vars
    BY <2>0, <2>6, Moves DEF Abs!vars
  <2>7. CASE UNCHANGED vars
    BY <2>7 DEF vars, Abs!vars, Running, Queued, At
  <2> QED BY <2>1, <2>2, <2>3, <2>4, <2>5, <2>6, <2>7 DEF Next, Abs!Next
<1> QED BY <1>1, <1>2, IInvHolds, PTL DEF Spec, ImplementsBoundedGate, Abs!Spec

\* notify(1) reaches a waiter whenever one can be reached.
LEMMA NotifyFinds ==
  ASSUME IInv, NEW p \in Requests, Pending(p)
  PROVE  FirstPending # {}
<1> DEFINE Slots == {k \in DOMAIN waiters : Pending(waiters[k])}
<1>1. p \in Queued
  BY DEF Pending, Queued, At
<1>2. PICK i \in DOMAIN waiters : waiters[i] = p
  BY <1>1 DEF IInv, Listed
<1>3. Slots \subseteq Nat /\ Slots # {} /\ DOMAIN waiters = 1..Len(waiters) /\ Len(waiters) \in Nat
  BY <1>2 DEF IInv, TypeOK
<1>4. PICK k \in Slots : \A j \in Slots : ~(<<j, k>> \in OpToRel(<, Nat))
  <2> HIDE DEF Slots
  <2> QED BY <1>3, NatLessThanWellFounded, WFMin
<1>5. \A j \in Slots : ~(j < k)
  <2>1. \A j \in Nat : j < k => <<j, k>> \in OpToRel(<, Nat)
    BY <1>3 DEF OpToRel
  <2> QED BY <1>3, <1>4, <2>1
<1>6. \A j \in 1..(k - 1) : ~Pending(waiters[j])
  <2>1. \A j \in 1..(k - 1) : j \in DOMAIN waiters /\ j < k
    BY <1>3
  <2> QED BY <1>5, <2>1
<1>7. waiters[k] \in FirstPending
  BY <1>6 DEF FirstPending
<1> QED BY <1>7

\* One step of the gate: of the eight operations only Abandon can undo Covered.
LEMMA Wakes ==
  ASSUME IInv, [Next]_vars, Covered, ~Covered'
  PROVE  \E r \in Requests : pc[r] = "woken" /\ r \in expired /\ pc'[r] = "idle"
<1> DEFINE W == At("woken")
<1>0. /\ IsFiniteSet(W) /\ IsFiniteSet(W')
      /\ Cardinality(W) \in Nat /\ Cardinality(W') \in Nat
  <2>1. W \in SUBSET Requests /\ W' \in SUBSET Requests
    BY DEF At
  <2> HIDE DEF W
  <2> QED BY <2>1, GateAssumption, FS_Subset, FS_CardinalityType
<1>1. /\ pc \in [Requests -> Places] /\ active \in Nat /\ MaxActive \in Nat
      /\ \/ Cardinality(W) + active >= MaxActive
         \/ \A r \in Requests : ~Pending(r)
  BY GateAssumption DEF IInv, TypeOK, Covered
<1>2. /\ ~(Cardinality(W') + active' >= MaxActive)
      /\ ~\A r \in Requests : ~Pending(r)'
  BY DEF Covered
<1>3. PICK r \in Requests :
        \/ Admit(r) \/ Enqueue(r) \/ Reject(r) \/ Promote(r)
        \/ SleepAgain(r) \/ Expire(r) \/ Abandon(r) \/ Release(r)
  <2>1. CASE UNCHANGED vars
    <3>1. (\A r \in Requests : Pending(r)' = Pending(r)) /\ W' = W
      BY <2>1 DEF vars, Pending, At
    <3> QED BY <1>1, <1>2, <2>1, <3>1 DEF vars
  <2> QED BY <2>1 DEF Next
<1>4. ~Admit(r)
  <2> SUFFICES ASSUME Admit(r) PROVE FALSE
    OBVIOUS
  <2>1. W' = W /\ (\A q \in Requests : Pending(q)' => Pending(q))
    BY <1>1 DEF Admit, At, Pending
  <2> QED BY <1>0, <1>1, <1>2, <2>1 DEF Admit
<1>5. ~Enqueue(r) /\ ~SleepAgain(r)
  BY <1>0, <1>1, <1>2 DEF Enqueue, SleepAgain
<1>6. ~Reject(r) /\ ~Expire(r)
  <2> SUFFICES ASSUME Reject(r) \/ Expire(r) PROVE FALSE
    OBVIOUS
  <2>1. W' = W /\ (\A q \in Requests : Pending(q)' => Pending(q)) /\ active' = active
    BY DEF Reject, Expire, At, Pending
  <2> QED BY <1>1, <1>2, <2>1
<1>7. ~Promote(r)
  <2> SUFFICES ASSUME Promote(r) PROVE FALSE
    OBVIOUS
  <2>1. W' = W \ {r} /\ r \in W /\ (\A q \in Requests : Pending(q)' => Pending(q))
    BY <1>1 DEF Promote, At, Pending
  <2>2. Cardinality(W') = Cardinality(W) - 1
    <3> HIDE DEF W
    <3> QED BY <1>0, <2>1, FS_RemoveElement
  <2>3. active' = active + 1
    BY DEF Promote
  <2> HIDE DEF W
  <2> QED BY <1>0, <1>1, <1>2, <2>1, <2>2, <2>3
<1>8. ~Release(r)
  <2> SUFFICES ASSUME Release(r) PROVE FALSE
    OBVIOUS
  <2>1. \A q \in Requests : Pending(q)' => Pending(q)
    BY <1>1 DEF Release, Pending
  <2>2. FirstPending \subseteq At("asleep") /\ W \subseteq W' /\ FirstPending \subseteq W'
    BY <1>1 DEF Release, FirstPending, Pending, At, IInv, TypeOK
  <2>3. PICK p \in FirstPending : TRUE
    BY <1>2, <2>1, NotifyFinds
  <2>4. p \notin W /\ W \cup {p} \subseteq W'
    BY <2>2, <2>3 DEF At
  <2>5. Cardinality(W) + 1 <= Cardinality(W')
    <3> HIDE DEF W
    <3>1. IsFiniteSet(W \cup {p}) /\ Cardinality(W \cup {p}) = Cardinality(W) + 1
      BY <1>0, <2>4, FS_AddElement
    <3>2. Cardinality(W \cup {p}) <= Cardinality(W')
      BY <1>0, <2>4, FS_Subset
    <3> QED BY <3>1, <3>2
  <2>6. Cardinality(W) + active >= MaxActive /\ active' = active - 1
    BY <1>1, <1>2, <2>1 DEF Release
  <2> HIDE DEF W
  <2> QED BY <1>0, <1>1, <1>2, <2>5, <2>6
<1>9. Abandon(r) /\ pc[r] = "woken"
  <2> SUFFICES ASSUME Abandon(r), pc[r] # "woken" PROVE FALSE
    BY <1>3, <1>4, <1>5, <1>6, <1>7, <1>8
  <2>1. W' = W /\ (\A q \in Requests : Pending(q)' => Pending(q)) /\ active' = active
    BY <1>1 DEF Abandon, At, Pending
  <2> QED BY <1>1, <1>2, <2>1
<1> QED BY <1>1, <1>9 DEF Abandon

\* Whatever the number of callers and the limits, only the deadline of a
\* caller that has been woken can leave a free slot that nobody was told of.
THEOREM WakeupsSurvive == Spec => WakeupLostOnlyByExpiry
<1>1. IInv /\ [Next]_vars =>
        [(Covered /\ ~Covered')
           => \E r \in Requests :
                pc[r] = "woken" /\ r \in expired /\ pc'[r] = "idle"]_vars
  BY Wakes
<1> QED BY <1>1, IInvHolds, PTL DEF Spec, WakeupLostOnlyByExpiry
=============================================================================
