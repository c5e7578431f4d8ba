---------------------------- MODULE AttemptPolicy ----------------------------
(***************************************************************************)
(* How many model calls a request may make and whom it may ask next, with  *)
(* no pools, no deadlines and no providers: at most two calls, a repair    *)
(* only by the model that gave the unusable answer, the backup only while  *)
(* the primary has failed as a service, and a verdict that stands.         *)
(***************************************************************************)
EXTENDS Naturals, Sequences

CONSTANT Requests

VARIABLES
  calls,    \* the providers each request has called, in order
  answer,   \* what its last attempt brought
  verdict   \* whether its interpretation is accepted

vars == <<calls, answer, verdict>>

Unusable == {"invalid", "malformed"}

Init ==
  /\ calls = [r \in Requests |-> <<>>]
  /\ answer = [r \in Requests |-> "none"]
  /\ verdict = [r \in Requests |-> "open"]

Call(r, provider) ==
  /\ verdict[r] = "open"
  /\ calls' = [calls EXCEPT ![r] = Append(@, provider)]
  /\ answer' = [answer EXCEPT ![r] = "none"]
  /\ UNCHANGED verdict

AskPrimary(r) == calls[r] = <<>> /\ answer[r] = "none" /\ Call(r, "primary")
AskRepair(r) == calls[r] = <<"primary">> /\ answer[r] \in Unusable /\ Call(r, "primary")
AskBackup(r) == calls[r] \in {<<>>, <<"primary">>} /\ answer[r] = "error" /\ Call(r, "backup")

\* An answer arrives and may settle the request: an accepted one does.
Learn(r, a) ==
  /\ verdict[r] = "open" /\ answer[r] = "none"
  /\ calls[r] = <<>> => a = "error"
  /\ answer' = [answer EXCEPT ![r] = a]
  /\ \E v \in {"open", "failed"} :
       verdict' = [verdict EXCEPT ![r] = IF a = "ok" THEN "valid" ELSE v]
  /\ UNCHANGED calls

\* Time, a missing backup or an exhausted pool ends the request.
GiveUp(r) ==
  /\ verdict[r] = "open"
  /\ verdict' = [verdict EXCEPT ![r] = "failed"]
  /\ UNCHANGED <<calls, answer>>

Next ==
  \E r \in Requests :
    \/ AskPrimary(r) \/ AskRepair(r) \/ AskBackup(r) \/ GiveUp(r)
    \/ \E a \in Unusable \cup {"ok", "error"} : Learn(r, a)

Spec == Init /\ [][Next]_vars
=============================================================================
