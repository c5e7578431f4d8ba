--------------------------- MODULE Interpretation ---------------------------
(***************************************************************************)
(* Planner._interpret and Planner._invoke of app/services/planner.py over  *)
(* the two provider adapters of app/services/interpreter.py, each with its *)
(* CredentialPool, for several requests at once.                           *)
(*                                                                         *)
(* An action is what a task does between two suspension points, but for    *)
(* one cut: an answer and the second attempt it leads to are two actions,  *)
(* because _invoke reads the clock again and time may have passed.         *)
(*                                                                         *)
(* What a model answers is abstracted to how the planner tells it apart:   *)
(*   ok        an envelope that passes the guardrails                      *)
(*   invalid   an envelope that does not (GuardrailError)                  *)
(*   malformed no envelope (ModelOutputError)                              *)
(*   error     no answer (ProviderError)                                   *)
(* httpx's timeout=t bounds each wait of a call for the network, not the   *)
(* call: quiet is when the current wait began.                             *)
(***************************************************************************)
EXTENDS Naturals, Sequences

CONSTANTS
  Requests,
  PrimaryKeys,  \* credentials of the primary pool
  BackupKeys,   \* credentials of the backup pool
  HasBackup,    \* whether a backup provider is configured
  Cooldown,     \* llm_key_cooldown_seconds
  Silence,      \* llm_timeout_seconds, httpx's timeout
  Budget,       \* model_budget of _plan_within_deadline
  MinSecond,    \* minimum_second_attempt_seconds
  MaxTime       \* the clock stops here, to bound the runs

ASSUME InterpretationAssumption ==
  /\ PrimaryKeys \in Nat \ {0} /\ BackupKeys \in Nat \ {0}
  /\ HasBackup \in BOOLEAN
  /\ Cooldown \in Nat /\ MinSecond \in Nat /\ Silence \in Nat \ {0}
  /\ Budget \in Nat \ {0} /\ MaxTime \in Nat \ {0}

VARIABLES
  now,
  pCursor, pUntil, pLease, pRefused,   \* the primary's pool
  bCursor, bUntil, bLease, bRefused,   \* the backup's pool
  stage,     \* where each request is in _interpret
  deadline,  \* its model-stage deadline
  quiet,     \* since when its call in flight waits for the network
  calls,     \* the providers it has called (history)
  answer     \* what its last attempt brought (history)

P == INSTANCE CredentialPool WITH
       Tasks <- Requests, N <- PrimaryKeys, MaxLag <- 0,
       cursor <- pCursor, until <- pUntil, lease <- pLease, refused <- pRefused

B == INSTANCE CredentialPool WITH
       Tasks <- Requests, N <- BackupKeys, MaxLag <- 0,
       cursor <- bCursor, until <- bUntil, lease <- bLease, refused <- bRefused

pVars == <<pCursor, pUntil, pLease, pRefused>>
bVars == <<bCursor, bUntil, bLease, bRefused>>
vars == <<now, pVars, bVars, stage, deadline, quiet, calls, answer>>

Stages == {"idle", "first", "toRepair", "repair", "toBackup", "backup", "valid", "failed"}
Final == {"valid", "failed"}
Answers == {"ok", "invalid", "malformed", "error"}

InFlight(r) == stage[r] \in {"first", "repair", "backup"}
Busy(r) == stage[r] \notin {"idle"} \cup Final

Init ==
  /\ now = 1
  /\ P!PoolInit /\ B!PoolInit
  /\ stage = [r \in Requests |-> "idle"]
  /\ deadline = [r \in Requests |-> 0]
  /\ quiet = [r \in Requests |-> 0]
  /\ calls = [r \in Requests |-> <<>>]
  /\ answer = [r \in Requests |-> "none"]

Goes(r, place) == stage' = [stage EXCEPT ![r] = place]
Learns(r, a) == answer' = [answer EXCEPT ![r] = a]
Asks(r, provider) ==
  /\ quiet' = [quiet EXCEPT ![r] = now]
  /\ calls' = [calls EXCEPT ![r] = Append(@, provider)]
  /\ Learns(r, "none")

\* Slip: a repair that fails as a service is handed to the backup as well.
AfterFallingThrough(place, a) ==
  CASE a = "ok" -> "valid"
    [] a = "error" /\ place \in {"first", "repair"} ->
         IF HasBackup THEN "toBackup" ELSE "failed"
    [] place = "first" /\ a \in {"invalid", "malformed"} -> "toRepair"
    [] OTHER -> "failed"

\* Where _interpret continues once an attempt has brought a.
After(place, a) ==
  CASE a = "ok" -> "valid"
    [] place = "first" /\ a = "error" -> IF HasBackup THEN "toBackup" ELSE "failed"
    [] place = "first" /\ a \in {"invalid", "malformed"} -> "toRepair"
    [] OTHER -> "failed"

\* Slip: CredentialsUnavailable is not turned into a ProviderError.
BeginOrRaise(r) ==
  /\ stage[r] = "idle" /\ now + Budget <= MaxTime
  /\ deadline' = [deadline EXCEPT ![r] = now + Budget]
  /\ \/ P!Select(r, now) /\ Goes(r, "first") /\ Asks(r, "primary")
     \/ P!SelectFails(r, now) /\ Goes(r, "failed") /\ Learns(r, "error")
        /\ UNCHANGED <<quiet, calls>>
  /\ UNCHANGED <<now, bVars>>

\* The first attempt: the deadline is set, a primary credential selected and
\* the call sent; with every credential cooling the attempt is a ProviderError.
Begin(r) ==
  /\ stage[r] = "idle" /\ now + Budget <= MaxTime
  /\ deadline' = [deadline EXCEPT ![r] = now + Budget]
  /\ \/ P!Select(r, now) /\ Goes(r, "first") /\ Asks(r, "primary")
     \/ P!SelectFails(r, now) /\ Goes(r, After("first", "error")) /\ Learns(r, "error")
        /\ UNCHANGED <<quiet, calls>>
  /\ UNCHANGED <<now, bVars>>

\* The call in flight ends with a before its timeout; 401, 403 and 429 are
\* errors that also set the credential aside.
Answered(r, a) ==
  /\ InFlight(r)
  /\ IF stage[r] = "backup"
     THEN (B!Finish(r) \/ (a = "error" /\ B!Reject(r, now))) /\ UNCHANGED pVars
     ELSE (P!Finish(r) \/ (a = "error" /\ P!Reject(r, now))) /\ UNCHANGED bVars
  /\ Goes(r, After(stage[r], a)) /\ Learns(r, a)
  /\ UNCHANGED <<now, deadline, quiet, calls>>

\* The call in flight ends without an answer and without a rejection.
Fails(r) ==
  /\ IF stage[r] = "backup"
     THEN B!Finish(r) /\ UNCHANGED pVars
     ELSE P!Finish(r) /\ UNCHANGED bVars
  /\ Goes(r, After(stage[r], "error")) /\ Learns(r, "error")
  /\ UNCHANGED <<now, deadline, quiet, calls>>

\* A connection is made or some bytes arrive: httpx starts its timeout anew.
Progress(r) ==
  /\ InFlight(r) /\ quiet[r] < now
  /\ quiet' = [quiet EXCEPT ![r] = now]
  /\ UNCHANGED <<now, pVars, bVars, stage, deadline, calls, answer>>

\* httpx.TimeoutException: one wait lasted Silence.
GoesSilent(r) == InFlight(r) /\ now >= quiet[r] + Silence /\ Fails(r)

\* Slip: asyncio.timeout is only put around the second attempt.
TimesOutSecondOnly(r) ==
  stage[r] \in {"repair", "backup"} /\ now >= deadline[r] /\ Fails(r)

\* asyncio.timeout(remaining) cancels the call at the deadline: a ProviderError.
TimesOut(r) == InFlight(r) /\ now >= deadline[r] /\ Fails(r)

\* _invoke refuses a second attempt without the minimum budget.
EnoughBudget(r) == now < deadline[r] /\ now + MinSecond <= deadline[r]

GiveUp(r) ==
  /\ stage[r] \in {"toRepair", "toBackup"} /\ ~EnoughBudget(r)
  /\ Goes(r, "failed")
  /\ UNCHANGED <<now, pVars, bVars, deadline, quiet, calls, answer>>

Repair(r) ==
  /\ stage[r] = "toRepair" /\ EnoughBudget(r)
  /\ \/ P!Select(r, now) /\ Goes(r, "repair") /\ Asks(r, "primary")
     \/ P!SelectFails(r, now) /\ Goes(r, "failed") /\ UNCHANGED <<quiet, calls, answer>>
  /\ UNCHANGED <<now, bVars, deadline>>

\* Slip: the backup adapter is built over the primary's pool.
CallBackupWithPrimaryKey(r) ==
  /\ stage[r] = "toBackup" /\ EnoughBudget(r)
  /\ \/ P!Select(r, now) /\ Goes(r, "backup") /\ Asks(r, "backup")
     \/ P!SelectFails(r, now) /\ Goes(r, "failed") /\ UNCHANGED <<quiet, calls, answer>>
  /\ UNCHANGED <<now, bVars, deadline>>

CallBackup(r) ==
  /\ stage[r] = "toBackup" /\ EnoughBudget(r)
  /\ \/ B!Select(r, now) /\ Goes(r, "backup") /\ Asks(r, "backup")
     \/ B!SelectFails(r, now) /\ Goes(r, "failed") /\ UNCHANGED <<quiet, calls, answer>>
  /\ UNCHANGED <<now, pVars, deadline>>

\* The loop fires a due timer and runs a ready task before time moves on.
Tick ==
  /\ now < MaxTime
  /\ \A r \in Requests : Busy(r) => now < deadline[r]
  /\ \A r \in Requests : InFlight(r) => now < quiet[r] + Silence
  /\ now' = now + 1
  /\ UNCHANGED <<pVars, bVars, stage, deadline, quiet, calls, answer>>

Next ==
  \/ \E r \in Requests :
       \/ Begin(r) \/ Progress(r) \/ GoesSilent(r) \/ TimesOut(r)
       \/ GiveUp(r) \/ Repair(r) \/ CallBackup(r)
       \/ \E a \in Answers : Answered(r, a)
  \/ Tick

Spec == Init /\ [][Next]_vars

\* Timers fire and ready tasks run; no provider is obliged to answer.
FairSpec ==
  /\ Spec /\ WF_vars(Tick)
  /\ \A r \in Requests : WF_vars(GoesSilent(r)) /\ WF_vars(TimesOut(r))
                         /\ WF_vars(GiveUp(r)) /\ WF_vars(Repair(r))
                         /\ WF_vars(CallBackup(r))

(***************************************************************************)
(* Properties                                                              *)
(***************************************************************************)

\* Besides the types: a request holds a credential of exactly the pool its
\* call in flight was sent with, and none at any other time.
TypeOK ==
  /\ now \in 1..MaxTime
  /\ stage \in [Requests -> Stages]
  /\ deadline \in [Requests -> 0..MaxTime] /\ quiet \in [Requests -> 0..now]
  /\ calls \in [Requests -> Seq({"primary", "backup"})]
  /\ answer \in [Requests -> Answers \cup {"none"}]
  /\ pCursor \in P!Slots /\ bCursor \in B!Slots
  /\ pUntil \in [P!Slots -> Nat] /\ bUntil \in [B!Slots -> Nat]
  /\ pLease \in [Requests -> SUBSET P!Slots] /\ bLease \in [Requests -> SUBSET B!Slots]
  /\ \A r \in Requests :
       /\ pLease[r] # {} <=> stage[r] \in {"first", "repair"}
       /\ bLease[r] # {} <=> stage[r] = "backup"

\* The planner's promise about model calls: at most two, one repair by the
\* primary or one backup call, never a call after a verdict.
Policy == INSTANCE AttemptPolicy WITH
            verdict <- [r \in Requests |-> IF stage[r] \in Final THEN stage[r] ELSE "open"]

FollowsAttemptPolicy == Policy!Spec

\* The provider a second attempt would go to can take it now.
SecondPossible(r) ==
  /\ EnoughBudget(r)
  /\ IF answer[r] = "error"
     THEN HasBackup /\ \E c \in B!Slots : bUntil[c] <= now
     ELSE \E c \in P!Slots : pUntil[c] <= now

\* A request fails early only when it must: unless its second attempt failed
\* too, no second provider could have been asked at that moment, whatever the
\* other requests did to the pools and however long the first attempt took.
FailsOnlyWhenImpossible ==
  [][\A r \in Requests :
       (stage[r] \notin Final /\ stage'[r] = "failed")
         => \/ stage[r] \in {"repair", "backup"}
            \/ stage[r] \in {"idle", "first"} /\ ~HasBackup
            \/ stage[r] \in {"toRepair", "toBackup"} /\ ~SecondPossible(r)]_vars

\* LLM_TIMEOUT_SECONDS is the "timeout for one provider attempt": the first
\* attempt is over when it has passed.
AttemptTimeoutHolds ==
  \A r \in Requests :
    stage[r] = "first" => now <= (deadline[r] - Budget) + Silence

\* Every interpretation ends, although no provider need ever answer.
EveryInterpretationEnds ==
  \A r \in Requests : Busy(r) ~> stage[r] \in Final
=============================================================================
