------------------------ MODULE CredentialPoolProofs ------------------------
(***************************************************************************)
(* Proofs about the credential pool for any number of credentials, any set *)
(* of callers, any cooldown and any age of the clock readings.             *)
(***************************************************************************)
EXTENDS CredentialPoolHistory, TLAPS

\* How many turns of the scan come before credential c.
Dist(c) == IF cursor <= c THEN c - cursor ELSE c + N - cursor

\* What the entries of _unhealthy_until say about the last rejections.
CoolingInv ==
  \A c \in Slots :
    /\ until[c] <= rejectedAt[c] + Cooldown
    /\ rejectedAt[c] = 0 => until[c] = 0
    /\ \/ rejectedAt[c] = 0
       \/ until[c] + MaxLag >= rejectedAt[c] + Cooldown
       \/ now + MaxLag >= rejectedAt[c] + Cooldown

\* Every choice that passes a credential brings the cursor closer to it.
TurnInv == \A c \in Slots : passed[c] + Dist(c) < N

IInv == TypeOK /\ CoolingInv /\ TurnInv

\* The remainder on the first two rounds.
LEMMA ModOnce ==
  \A a \in 0..(2 * N - 1) : a % N = IF a < N THEN a ELSE a - N
<1> SUFFICES ASSUME NEW a \in 0..(2 * N - 1)
             PROVE  a % N = IF a < N THEN a ELSE a - N
  OBVIOUS
<1>1. N \in Nat \ {0} /\ a \in Nat
  BY PoolAssumption
<1> QED BY <1>1

\* The scan meets every credential, c at turn Dist(c), and the turns stay
\* inside the tuple.
LEMMA Turns ==
  ASSUME cursor \in Slots
  PROVE  /\ \A c \in Slots : Dist(c) \in 0..(N - 1) /\ Slot(Dist(c)) = c
         /\ \A k \in 0..(N - 1) : Slot(k) \in Slots /\ Dist(Slot(k)) = k
<1>1. N \in Nat \ {0} /\ cursor \in 0..(N - 1)
  BY PoolAssumption DEF Slots
<1>2. \A k \in 0..(N - 1) : Slot(k) = IF cursor + k < N THEN cursor + k ELSE cursor + k - N
  <2> SUFFICES ASSUME NEW k \in 0..(N - 1)
               PROVE  Slot(k) = IF cursor + k < N THEN cursor + k ELSE cursor + k - N
    OBVIOUS
  <2>1. cursor + k \in 0..(2 * N - 1)
    BY <1>1
  <2>2. (cursor + k) % N = IF cursor + k < N THEN cursor + k ELSE cursor + k - N
    BY <1>1, <2>1, ModOnce
  <2> QED BY <2>2 DEF Slot
<1>3. ASSUME NEW c \in Slots PROVE Dist(c) \in 0..(N - 1) /\ Slot(Dist(c)) = c
  <2>1. Dist(c) \in 0..(N - 1)
    BY <1>1 DEF Dist, Slots
  <2> QED BY <1>1, <1>2, <2>1 DEF Dist, Slots
<1>4. ASSUME NEW k \in 0..(N - 1) PROVE Slot(k) \in Slots /\ Dist(Slot(k)) = k
  BY <1>1, <1>2 DEF Dist, Slots
<1> QED BY <1>3, <1>4

LEMMA InitIInv == Init => IInv
<1> SUFFICES ASSUME Init PROVE IInv
  OBVIOUS
<1> USE PoolAssumption DEF Init, PoolInit, Slots
<1>1. TypeOK
  BY DEF TypeOK
<1>2. CoolingInv /\ TurnInv
  BY DEF CoolingInv, TurnInv, Dist
<1> QED BY <1>1, <1>2 DEF IInv

\* What a successful scan does: it takes some eligible credential of which
\* none comes before, and leaves the cursor just behind it.
LEMMA ChooseFacts ==
  ASSUME TypeOK, NEW t \in Tasks, NEW seen \in Readings, Choose(t, seen)
  PROVE  \E c \in Slots :
           /\ until[c] <= seen
           /\ \A d \in Slots : until[d] <= seen => Dist(c) <= Dist(d)
           /\ cursor' = IF c = N - 1 THEN 0 ELSE c + 1
           /\ until' = [until EXCEPT ![c] = 0]
           /\ lease[t] = {} /\ lease' = [lease EXCEPT ![t] = {c}]
           /\ passed' = [d \in Slots |-> IF d = c \/ until[d] > seen THEN 0 ELSE passed[d] + 1]
           /\ UNCHANGED <<now, rejectedAt>>
<1>1. N \in Nat \ {0} /\ cursor \in Slots /\ lease \in [Tasks -> SUBSET Slots]
  BY PoolAssumption DEF TypeOK
<1>2. PICK k \in Eligible(seen) :
        /\ \A j \in Eligible(seen) : k <= j
        /\ cursor' = (Slot(k) + 1) % N
        /\ until' = [until EXCEPT ![Slot(k)] = 0]
        /\ lease' = [lease EXCEPT ![t] = {Slot(k)}]
  BY DEF Choose, Select
<1> DEFINE c == Slot(k)
<1>3. k \in 0..(N - 1) /\ until[c] <= seen
  BY <1>2 DEF Eligible
<1>4. c \in Slots /\ Dist(c) = k
  BY <1>1, <1>3, Turns
<1>5. ASSUME NEW d \in Slots, until[d] <= seen PROVE Dist(c) <= Dist(d)
  <2>1. Dist(d) \in 0..(N - 1) /\ Slot(Dist(d)) = d
    BY <1>1, Turns
  <2>2. Dist(d) \in Eligible(seen)
    BY <1>5, <2>1 DEF Eligible
  <2> QED BY <1>2, <1>4, <2>2
<1>6. cursor' = IF c = N - 1 THEN 0 ELSE c + 1
  <2>1. c \in 0..(N - 1) /\ c + 1 \in 0..(2 * N - 1)
    BY <1>1, <1>4 DEF Slots
  <2>2. cursor' = (c + 1) % N
    BY <1>2
  <2> HIDE DEF c
  <2>3. (c + 1) % N = IF c + 1 < N THEN c + 1 ELSE c + 1 - N
    BY <1>1, <2>1, ModOnce
  <2> QED BY <1>1, <2>1, <2>2, <2>3
<1>7. passed' = [d \in Slots |-> IF d = c \/ until[d] > seen THEN 0 ELSE passed[d] + 1]
  <2>1. lease'[t] = {c}
    BY <1>1, <1>2
  <2> HIDE DEF c
  <2> QED BY <2>1 DEF Choose
<1> QED BY <1>2, <1>3, <1>4, <1>5, <1>6, <1>7 DEF Choose, Select

LEMMA ChooseIInv ==
  ASSUME IInv, NEW t \in Tasks, NEW seen \in Readings, Choose(t, seen)
  PROVE  IInv'
<1>1. PICK c \in Slots :
           /\ until[c] <= seen
           /\ \A d \in Slots : until[d] <= seen => Dist(c) <= Dist(d)
           /\ cursor' = IF c = N - 1 THEN 0 ELSE c + 1
           /\ until' = [until EXCEPT ![c] = 0]
           /\ lease[t] = {} /\ lease' = [lease EXCEPT ![t] = {c}]
           /\ passed' = [d \in Slots |-> IF d = c \/ until[d] > seen THEN 0 ELSE passed[d] + 1]
           /\ UNCHANGED <<now, rejectedAt>>
  BY ChooseFacts DEF IInv
<1>2. TypeOK' /\ N \in Nat \ {0} /\ cursor \in 0..(N - 1) /\ cursor' \in 0..(N - 1)
  <2>1. refused' \subseteq Tasks
    BY DEF IInv, TypeOK, Choose, Select
  <2>2. cursor' \in Slots
    BY <1>1, PoolAssumption DEF Slots
  <2>3. until' \in [Slots -> Nat] /\ passed' \in [Slots -> Nat]
    BY <1>1 DEF IInv, TypeOK
  <2>4. /\ lease' \in [Tasks -> SUBSET Slots]
        /\ \A u \in Tasks : \A d, e \in lease'[u] : d = e
    BY <1>1 DEF IInv, TypeOK
  <2> QED BY <1>1, <2>1, <2>2, <2>3, <2>4, PoolAssumption DEF IInv, TypeOK, Slots
<1>3. CoolingInv'
  <2> SUFFICES ASSUME NEW d \in Slots
               PROVE /\ until'[d] <= rejectedAt'[d] + Cooldown
                     /\ rejectedAt'[d] = 0 => until'[d] = 0
                     /\ \/ rejectedAt'[d] = 0
                        \/ until'[d] + MaxLag >= rejectedAt'[d] + Cooldown
                        \/ now' + MaxLag >= rejectedAt'[d] + Cooldown
    BY DEF CoolingInv
  <2>1. /\ until[d] \in Nat /\ until[c] \in Nat /\ rejectedAt[d] \in Nat
        /\ Cooldown \in Nat /\ MaxLag \in Nat /\ now \in Nat /\ seen \in Nat /\ seen <= now
    BY PoolAssumption DEF IInv, TypeOK, Readings
  <2>2. /\ until[d] <= rejectedAt[d] + Cooldown
        /\ rejectedAt[d] = 0 => until[d] = 0
        /\ \/ rejectedAt[d] = 0
           \/ until[d] + MaxLag >= rejectedAt[d] + Cooldown
           \/ now + MaxLag >= rejectedAt[d] + Cooldown
    BY DEF IInv, CoolingInv
  <2>3. until'[d] = IF d = c THEN 0 ELSE until[d]
    BY <1>1 DEF IInv, TypeOK
  <2> QED BY <1>1, <2>1, <2>2, <2>3
<1>4. TurnInv'
  <2> SUFFICES ASSUME NEW d \in Slots PROVE passed'[d] + Dist(d)' < N
    BY DEF TurnInv
  <2>1. d \in 0..(N - 1) /\ c \in 0..(N - 1) /\ passed[d] \in Nat /\ passed[d] + Dist(d) < N
    BY DEF Slots, IInv, TypeOK, TurnInv
  <2>0. /\ Dist(d)' = IF cursor' <= d THEN d - cursor' ELSE d + N - cursor'
        /\ Dist(d) = IF cursor <= d THEN d - cursor ELSE d + N - cursor
        /\ Dist(c) = IF cursor <= c THEN c - cursor ELSE c + N - cursor
    BY DEF Dist
  <2>2. Dist(d)' \in 0..(N - 1) /\ Dist(d) \in 0..(N - 1)
    <3>1. \A x, y \in 0..(N - 1) : (IF x <= y THEN y - x ELSE y + N - x) \in 0..(N - 1)
      BY <1>2
    <3> QED BY <1>2, <2>0, <2>1, <3>1
  <2>3. CASE d = c \/ until[d] > seen
    <3>1. passed'[d] = 0
      BY <1>1, <2>3
    <3> QED BY <1>2, <2>2, <3>1
  <2>4. CASE d # c /\ ~(until[d] > seen)
    <3>1. passed'[d] = passed[d] + 1
      BY <1>1, <2>4
    <3>2. Dist(c) <= Dist(d)
      <4>1. until[d] <= seen
        BY <2>4 DEF IInv, TypeOK, Readings
      <4> QED BY <1>1, <4>1
    <3>3. Dist(d)' < Dist(d)
      BY <1>1, <1>2, <2>0, <2>1, <2>4, <3>2
    <3> QED BY <1>2, <2>1, <2>2, <3>1, <3>3
  <2> QED BY <2>3, <2>4
<1> QED BY <1>2, <1>3, <1>4 DEF IInv

LEMMA CoolDownIInv ==
  ASSUME IInv, NEW t \in Tasks, NEW seen \in Readings, CoolDown(t, seen)
  PROVE  IInv'
<1>1. PICK c \in Slots : lease[t] = {c} /\ until' = [until EXCEPT ![c] = seen + Cooldown]
  <2>1. PICK c \in lease[t] : until' = [until EXCEPT ![c] = seen + Cooldown]
    BY DEF CoolDown, Reject
  <2>2. c \in Slots /\ lease[t] = {c}
    BY DEF IInv, TypeOK
  <2> QED BY <2>1, <2>2
<1>2. /\ rejectedAt' = [d \in Slots |-> IF d = c THEN now ELSE rejectedAt[d]]
      /\ lease' = [lease EXCEPT ![t] = {}]
      /\ UNCHANGED <<now, cursor, refused, passed>>
  BY <1>1 DEF CoolDown, Reject
<1>3. /\ now \in 1..MaxTime /\ now \in Nat /\ seen \in 1..now /\ now <= seen + MaxLag
      /\ Cooldown \in Nat /\ MaxLag \in Nat /\ seen \in Nat /\ now > 0
  BY PoolAssumption DEF IInv, TypeOK, Readings
<1>4. TypeOK'
  <2>1. until' \in [Slots -> Nat] /\ rejectedAt' \in [Slots -> 0..now]
    BY <1>1, <1>2, <1>3 DEF IInv, TypeOK
  <2>2. /\ lease' \in [Tasks -> SUBSET Slots]
        /\ \A u \in Tasks : \A d, e \in lease'[u] : d = e
    BY <1>2 DEF IInv, TypeOK
  <2> QED BY <1>2, <2>1, <2>2 DEF IInv, TypeOK
<1>5. CoolingInv'
  <2> SUFFICES ASSUME NEW d \in Slots
               PROVE /\ until'[d] <= rejectedAt'[d] + Cooldown
                     /\ rejectedAt'[d] = 0 => until'[d] = 0
                     /\ \/ rejectedAt'[d] = 0
                        \/ until'[d] + MaxLag >= rejectedAt'[d] + Cooldown
                        \/ now' + MaxLag >= rejectedAt'[d] + Cooldown
    BY DEF CoolingInv
  <2>1. CASE d = c
    <3>1. until'[d] = seen + Cooldown /\ rejectedAt'[d] = now
      BY <1>1, <1>2, <2>1 DEF IInv, TypeOK
    <3> QED BY <1>3, <3>1
  <2>2. CASE d # c
    <3>1. until'[d] = until[d] /\ rejectedAt'[d] = rejectedAt[d] /\ now' = now
      BY <1>1, <1>2, <2>2 DEF IInv, TypeOK
    <3> QED BY <3>1 DEF IInv, CoolingInv
  <2> QED BY <2>1, <2>2
<1>6. TurnInv'
  BY <1>2 DEF IInv, TurnInv, Dist
<1> QED BY <1>4, <1>5, <1>6 DEF IInv

LEMMA StepIInv == IInv /\ [Next]_vars => IInv'
<1> SUFFICES ASSUME IInv, [Next]_vars PROVE IInv'
  OBVIOUS
<1>1. ASSUME NEW t \in Tasks, NEW seen \in Readings, Refuse(t, seen) PROVE IInv'
  <2>1. refused' \subseteq Tasks /\ UNCHANGED <<now, cursor, until, lease, passed, rejectedAt>>
    BY <1>1 DEF Refuse, SelectFails, IInv, TypeOK
  <2> QED BY <2>1 DEF IInv, TypeOK, CoolingInv, TurnInv, Dist
<1>2. ASSUME NEW t \in Tasks, End(t) PROVE IInv'
  <2>1. lease' = [lease EXCEPT ![t] = {}] /\ UNCHANGED <<now, cursor, until, refused, passed, rejectedAt>>
    BY <1>2 DEF End, Finish
  <2>2. /\ lease' \in [Tasks -> SUBSET Slots]
        /\ \A u \in Tasks : \A d, e \in lease'[u] : d = e
    BY <2>1 DEF IInv, TypeOK
  <2> QED BY <2>1, <2>2 DEF IInv, TypeOK, CoolingInv, TurnInv, Dist
<1>3. CASE Tick
  <2>1. /\ now' = now + 1 /\ now < MaxTime
        /\ UNCHANGED <<cursor, until, lease, refused, passed, rejectedAt>>
    BY <1>3 DEF Tick
  <2>2. TypeOK'
    <3>1. now' \in 1..MaxTime /\ rejectedAt' \in [Slots -> 0..now']
      BY <2>1, PoolAssumption DEF IInv, TypeOK
    <3> QED BY <2>1, <3>1 DEF IInv, TypeOK
  <2>3. CoolingInv'
    BY <2>1, PoolAssumption DEF IInv, TypeOK, CoolingInv
  <2>4. TurnInv'
    BY <2>1 DEF IInv, TurnInv, Dist
  <2> QED BY <2>2, <2>3, <2>4 DEF IInv
<1>4. CASE UNCHANGED vars
  BY <1>4 DEF vars, IInv, TypeOK, CoolingInv, TurnInv, Dist
<1> QED BY <1>1, <1>2, <1>3, <1>4, ChooseIInv, CoolDownIInv DEF Next

\* The strengthened invariant holds in every reachable state.
THEOREM IInvHolds == Spec => []IInv
<1> QED BY InitIInv, StepIInv, PTL DEF Spec

\* The cursor never leaves the tuple of credentials, for any number of them.
THEOREM TypeCorrect == Spec => []TypeOK
<1>1. IInv => TypeOK
  BY DEF IInv
<1> QED BY <1>1, IInvHolds, PTL

\* Round robin starves no eligible credential, for any number of credentials,
\* callers and rejections: at most N - 1 choices of others pass it.
THEOREM RoundRobin == Spec => []NoneStarved
<1>1. IInv => NoneStarved
  <2> SUFFICES ASSUME IInv, NEW c \in Slots PROVE passed[c] < N
    BY DEF NoneStarved
  <2>1. passed[c] + Dist(c) < N /\ passed[c] \in Nat /\ N \in Nat
    BY PoolAssumption DEF IInv, TypeOK, TurnInv
  <2>2. Dist(c) \in 0..(N - 1)
    BY Turns DEF IInv, TypeOK
  <2> QED BY <2>1, <2>2
<1> QED BY <1>1, IInvHolds, PTL

\* No credential is leased again before its cooldown, up to the age of the
\* clock readings; exactly so on the event loop, where that age is 0.
THEOREM CooldownKept == Spec => CooldownHonoured
<1>1. IInv /\ [Next]_vars =>
        [\A t \in Tasks : \A c \in lease'[t] \ lease[t] :
           rejectedAt[c] = 0 \/ now + MaxLag >= rejectedAt[c] + Cooldown]_vars
  <2> SUFFICES ASSUME IInv, Next, NEW u \in Tasks, NEW c \in lease'[u] \ lease[u]
               PROVE  rejectedAt[c] = 0 \/ now + MaxLag >= rejectedAt[c] + Cooldown
    OBVIOUS
  <2>1. PICK t \in Tasks, seen \in Readings : Choose(t, seen)
    BY DEF Next, Refuse, SelectFails, CoolDown, Reject, End, Finish, Tick, IInv, TypeOK
  <2>2. c \in Slots /\ until[c] <= seen
    BY <2>1, ChooseFacts DEF IInv, TypeOK
  <2>3. /\ until[c] \in Nat /\ rejectedAt[c] \in Nat /\ now \in Nat /\ seen \in Nat
        /\ Cooldown \in Nat /\ MaxLag \in Nat /\ seen <= now
    BY <2>2, PoolAssumption DEF IInv, TypeOK, Readings
  <2> QED BY <2>2, <2>3 DEF IInv, CoolingInv
<1> QED BY <1>1, IInvHolds, PTL DEF Spec, CooldownHonoured

\* CredentialsUnavailable is never raised while a healthy credential exists.
THEOREM RefusalJustified == Spec => UnavailableOnlyWhenAllCooling
<1>1. IInv /\ [Next]_vars =>
        [\A t \in refused' \ refused : \A c \in Slots :
           rejectedAt[c] > 0 /\ now < rejectedAt[c] + Cooldown + MaxLag]_vars
  <2> SUFFICES ASSUME IInv, Next, NEW u \in refused' \ refused, NEW c \in Slots
               PROVE  rejectedAt[c] > 0 /\ now < rejectedAt[c] + Cooldown + MaxLag
    OBVIOUS
  <2>1. PICK t \in Tasks, seen \in Readings : Refuse(t, seen)
    BY DEF Next, Choose, Select, CoolDown, Reject, End, Finish, Tick
  <2>2. until[c] > seen
    <3>1. Dist(c) \in 0..(N - 1) /\ Slot(Dist(c)) = c
      BY Turns DEF IInv, TypeOK
    <3>2. ~(until[c] <= seen)
      BY <2>1, <3>1 DEF Refuse, SelectFails, Eligible
    <3> QED BY <3>2 DEF IInv, TypeOK, Readings
  <2>3. /\ until[c] \in Nat /\ rejectedAt[c] \in Nat /\ now \in Nat /\ seen \in Nat
        /\ Cooldown \in Nat /\ MaxLag \in Nat /\ now <= seen + MaxLag
    BY PoolAssumption DEF IInv, TypeOK, Readings
  <2> QED BY <2>2, <2>3 DEF IInv, CoolingInv
<1> QED BY <1>1, IInvHolds, PTL DEF Spec, UnavailableOnlyWhenAllCooling
(***************************************************************************)
(* The pool in the hands of an owner that knows nothing of the history:    *)
(* it takes steps of the pool, lets time pass or does something else, and  *)
(* what the history records is a function of what happens to the pool.     *)
(* The clock is read inside the step (MaxLag is 0), as on the event loop.  *)
(***************************************************************************)
Used == (\E t \in Tasks : PoolStep(t)) /\ UNCHANGED now

Left ==
  /\ UNCHANGED poolVars
  /\ UNCHANGED now \/ (now < MaxTime /\ now' = now + 1)

\* The credentials handed out in this step.
Handed == UNION {lease'[t] \ lease[t] : t \in Tasks}

Remember ==
  /\ passed' = IF Handed = {} THEN passed
               ELSE [c \in Slots |-> IF c \in Handed \/ until[c] > now THEN 0 ELSE passed[c] + 1]
  /\ rejectedAt' = [c \in Slots |-> IF until'[c] \in {0, until[c]} THEN rejectedAt[c] ELSE now]

\* The clock is read where it is used.
LEMMA NowIsSeen ==
  ASSUME MaxLag = 0, now \in 1..MaxTime, NEW seen \in Readings
  PROVE  seen = now
<1>1. MaxTime \in Nat /\ seen \in 1..now /\ now <= seen + 0
  BY PoolAssumption DEF Readings
<1> QED BY <1>1

LEMMA Unrecorded ==
  ASSUME IInv, Remember, UNCHANGED <<until, lease>>
  PROVE  UNCHANGED <<passed, rejectedAt>>
<1>1. Handed = {}
  BY DEF Handed
<1>2. rejectedAt \in [Slots -> 0..now]
  BY DEF IInv, TypeOK
<1> QED BY <1>1, <1>2 DEF Remember

LEMMA FinishRecorded ==
  ASSUME IInv, Remember, NEW t \in Tasks, Finish(t)
  PROVE  UNCHANGED <<passed, rejectedAt>>
<1>1. lease \in [Tasks -> SUBSET Slots] /\ rejectedAt \in [Slots -> 0..now]
  BY DEF IInv, TypeOK
<1>2. Handed = {}
  BY <1>1 DEF Handed, Finish
<1>3. until' = until
  BY DEF Finish
<1> QED BY <1>1, <1>2, <1>3 DEF Remember

LEMMA SelectRecorded ==
  ASSUME IInv, Remember, NEW t \in Tasks, Select(t, now)
  PROVE  /\ passed' = [c \in Slots |->
                         IF c \in lease'[t] \/ until[c] > now THEN 0 ELSE passed[c] + 1]
         /\ UNCHANGED rejectedAt
<1>1. /\ lease \in [Tasks -> SUBSET Slots] /\ lease[t] = {}
      /\ rejectedAt \in [Slots -> 0..now] /\ until \in [Slots -> Nat]
  BY DEF IInv, TypeOK, Select
<1>2. PICK c : lease' = [lease EXCEPT ![t] = {c}] /\ until' = [until EXCEPT ![c] = 0]
  BY DEF Select
<1>3. Handed = {c} /\ lease'[t] = {c}
  BY <1>1, <1>2 DEF Handed
<1>4. \A d \in Slots : until'[d] \in {0, until[d]}
  BY <1>1, <1>2
<1>5. rejectedAt' = rejectedAt
  BY <1>1, <1>4 DEF Remember
<1> QED BY <1>3, <1>5 DEF Remember

\* A credential that is rejected twice at one instant has its entry already.
LEMMA RejectRecorded ==
  ASSUME MaxLag = 0, IInv, Remember, NEW t \in Tasks, Reject(t, now)
  PROVE  /\ rejectedAt' = [c \in Slots |-> IF c \in lease[t] THEN now ELSE rejectedAt[c]]
         /\ UNCHANGED passed
<1>1. /\ lease \in [Tasks -> SUBSET Slots] /\ until \in [Slots -> Nat]
      /\ rejectedAt \in [Slots -> 0..now] /\ now \in Nat /\ now > 0 /\ Cooldown \in Nat
  BY PoolAssumption DEF IInv, TypeOK
<1>2. PICK c \in Slots : lease[t] = {c} /\ until' = [until EXCEPT ![c] = now + Cooldown]
  <2>1. PICK c \in lease[t] : until' = [until EXCEPT ![c] = now + Cooldown]
    BY DEF Reject
  <2>2. c \in Slots /\ lease[t] = {c}
    BY <1>1 DEF IInv, TypeOK
  <2> QED BY <2>1, <2>2
<1>3. lease' = [lease EXCEPT ![t] = {}]
  BY DEF Reject
<1>4. Handed = {}
  BY <1>1, <1>3 DEF Handed
<1>5. ASSUME NEW d \in Slots, d # c PROVE until'[d] = until[d]
  BY <1>1, <1>2, <1>5
<1>6. until'[c] = now + Cooldown /\ until'[c] # 0
  BY <1>1, <1>2
<1>7. until[c] = now + Cooldown => rejectedAt[c] = now
  <2>1. /\ until[c] <= rejectedAt[c] + Cooldown
        /\ rejectedAt[c] = 0 => until[c] = 0
    BY DEF IInv, CoolingInv
  <2>2. rejectedAt[c] \in 0..now /\ until[c] \in Nat
    BY <1>1
  <2> QED BY <1>1, <2>1, <2>2
<1>8. ASSUME NEW d \in Slots
      PROVE  (IF until'[d] \in {0, until[d]} THEN rejectedAt[d] ELSE now)
               = IF d \in lease[t] THEN now ELSE rejectedAt[d]
  <2>1. CASE d = c
    BY <1>2, <1>6, <1>7, <2>1
  <2>2. CASE d # c
    BY <1>2, <1>5, <2>2
  <2> QED BY <2>1, <2>2
<1> QED BY <1>4, <1>8 DEF Remember

LEMMA UsedRecorded ==
  ASSUME MaxLag = 0, IInv, Remember, Used
  PROVE  Next
<1>1. now \in 1..MaxTime /\ now \in Readings
  BY PoolAssumption DEF IInv, TypeOK, Readings
<1>2. PICK t \in Tasks : PoolStep(t)
  BY DEF Used
<1>3. now' = now
  BY DEF Used
<1>4. ASSUME NEW seen \in Readings, Select(t, seen) \/ SelectFails(t, seen) \/ Reject(t, seen)
      PROVE  Select(t, now) \/ SelectFails(t, now) \/ Reject(t, now)
  <2>1. seen = now
    BY <1>1, NowIsSeen
  <2> QED BY <1>4, <2>1
<1>5. CASE Select(t, now)
  <2>1. Choose(t, now)
    BY <1>3, <1>5, SelectRecorded DEF Choose
  <2> QED BY <1>1, <2>1 DEF Next
<1>6. CASE SelectFails(t, now)
  <2>1. Refuse(t, now)
    BY <1>3, <1>6, Unrecorded DEF Refuse, SelectFails
  <2> QED BY <1>1, <2>1 DEF Next
<1>7. CASE Reject(t, now)
  <2>1. CoolDown(t, now)
    BY <1>3, <1>7, RejectRecorded DEF CoolDown
  <2> QED BY <1>1, <2>1 DEF Next
<1>8. CASE Finish(t)
  <2>1. End(t)
    BY <1>3, <1>8, FinishRecorded DEF End
  <2> QED BY <2>1 DEF Next
<1> QED BY <1>2, <1>4, <1>5, <1>6, <1>7, <1>8 DEF PoolStep

LEMMA OwnedStep ==
  ASSUME MaxLag = 0, IInv, [(Used \/ Left) /\ Remember]_vars
  PROVE  [Next]_vars
<1>1. CASE Used /\ Remember
  BY <1>1, UsedRecorded
<1>2. CASE Left /\ Remember
  <2>1. UNCHANGED <<cursor, until, lease, refused>>
    BY <1>2 DEF Left, poolVars
  <2>2. UNCHANGED <<passed, rejectedAt>>
    BY <1>2, <2>1, Unrecorded
  <2> QED BY <1>2, <2>1, <2>2 DEF Left, Next, Tick, vars
<1> QED BY <1>1, <1>2

\* An owner that drives the pool by select(), mark_unhealthy() and the end of
\* calls only gets all that is proved of the pool, whatever else it does.
THEOREM OwnersDriveThePool ==
  ASSUME MaxLag = 0
  PROVE  Init /\ [][(Used \/ Left) /\ Remember]_vars => Spec
<1>1. Init => IInv
  BY InitIInv
<1>2. IInv /\ [(Used \/ Left) /\ Remember]_vars => [Next]_vars
  BY OwnedStep
<1>3. IInv /\ [Next]_vars => IInv'
  BY StepIInv
<1> QED BY <1>1, <1>2, <1>3, PTL DEF Spec
=============================================================================
