------------------------ MODULE CredentialPoolHistory ------------------------
(***************************************************************************)
(* The pool alone with a clock, and the history variables its promises are *)
(* about: who was passed over, and when each credential was last rejected. *)
(***************************************************************************)
EXTENDS CredentialPool

VARIABLES
  passed,     \* how often others were chosen while this one was eligible
  rejectedAt  \* when mark_unhealthy() last ran for it, 0 for never

vars == <<now, cursor, until, lease, refused, passed, rejectedAt>>

Init ==
  /\ now = 1
  /\ PoolInit
  /\ passed = [c \in Slots |-> 0]
  /\ rejectedAt = [c \in Slots |-> 0]

Choose(t, seen) ==
  /\ Select(t, seen)
  /\ passed' = [c \in Slots |->
                  IF c \in lease'[t] \/ until[c] > seen THEN 0 ELSE passed[c] + 1]
  /\ UNCHANGED <<now, rejectedAt>>

Refuse(t, seen) == SelectFails(t, seen) /\ UNCHANGED <<now, passed, rejectedAt>>

CoolDown(t, seen) ==
  /\ Reject(t, seen)
  /\ rejectedAt' = [c \in Slots |-> IF c \in lease[t] THEN now ELSE rejectedAt[c]]
  /\ UNCHANGED <<now, passed>>

End(t) == Finish(t) /\ UNCHANGED <<now, passed, rejectedAt>>

Tick ==
  /\ now < MaxTime
  /\ now' = now + 1
  /\ UNCHANGED <<cursor, until, lease, refused, passed, rejectedAt>>

Next ==
  \/ \E t \in Tasks :
       \/ \E seen \in Readings : Choose(t, seen) \/ Refuse(t, seen) \/ CoolDown(t, seen)
       \/ End(t)
  \/ Tick

Spec == Init /\ [][Next]_vars

(***************************************************************************)
(* Properties                                                              *)
(***************************************************************************)

\* The cursor stays inside the tuple and every lease names one credential.
TypeOK ==
  /\ now \in 1..MaxTime
  /\ cursor \in Slots
  /\ until \in [Slots -> Nat]
  /\ lease \in [Tasks -> SUBSET Slots]
  /\ \A t \in Tasks : \A c, d \in lease[t] : c = d
  /\ refused \subseteq Tasks
  /\ passed \in [Slots -> Nat]
  /\ rejectedAt \in [Slots -> 0..now]

\* Round robin: however calls, rejections and expiring cooldowns interleave,
\* the others are chosen at most N - 1 times while a credential is eligible.
NoneStarved == \A c \in Slots : passed[c] < N

\* A rejected credential is not leased again before its cooldown, counted from
\* the last rejection, has passed; only a stale clock reading can shorten it.
CooldownHonoured ==
  [][\A t \in Tasks : \A c \in lease'[t] \ lease[t] :
       rejectedAt[c] = 0 \/ now + MaxLag >= rejectedAt[c] + Cooldown]_vars

\* CredentialsUnavailable is raised only while every credential was rejected
\* less than a cooldown ago: a scan never misses a healthy one.
UnavailableOnlyWhenAllCooling ==
  [][\A t \in refused' \ refused : \A c \in Slots :
       rejectedAt[c] > 0 /\ now < rejectedAt[c] + Cooldown + MaxLag]_vars
=============================================================================
