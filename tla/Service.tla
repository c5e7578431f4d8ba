------------------------------- MODULE Service -------------------------------
(***************************************************************************)
(* The application as the server runs it: RequestFront before the handler  *)
(* and Lifecycle round it.  The handler takes the planner and answers;     *)
(* what happens in between is RequestPath.                                 *)
(***************************************************************************)
EXTENDS RequestFront, Lifecycle

VARIABLE served   \* the planner that each request was given (history)

vars == <<frontVars, lifeVars, served>>

Init == FrontInit /\ LifeInit /\ served = [r \in Requests |-> NoPlanner]

InProgress == {r \in Requests : stage[r] \notin {"idle", "done"}}

\* The handler was given a planner.
Plans(r, which) ==
  /\ Goes(r, "planning") /\ served' = [served EXCEPT ![r] = which]
  /\ UNCHANGED <<claim, left, held, gone, payload, request, status>>

\* Slip: the planner built for a request is not kept.
HandleForgetting(r) ==
  /\ stage[r] = "handling"
  /\ IF planner # NoPlanner
     THEN Plans(r, planner) /\ UNCHANGED lifeVars
     ELSE /\ ConfigurationValid /\ Plans(r, DefaultPlanner) /\ builds' = builds + 1
          /\ UNCHANGED <<phase, lifespan, config, planner, turn, closed, closes>>

\* Without a lifespan the first request builds the planner, and keeps it.
Handle(r) ==
  /\ stage[r] = "handling"
  /\ \/ planner # NoPlanner /\ Plans(r, planner) /\ UNCHANGED lifeVars
     \/ /\ planner = NoPlanner /\ ConfigurationValid
        /\ planner' = DefaultPlanner /\ builds' = builds + 1
        /\ Plans(r, DefaultPlanner)
        /\ UNCHANGED <<phase, lifespan, config, turn, closed, closes>>
     \/ /\ planner = NoPlanner /\ ~ConfigurationValid
        /\ Answers(r, 500)
        /\ UNCHANGED <<claim, left, held, gone, payload, request, served, lifeVars>>

\* Slip: the handler closes the planner behind its request.
RespondClosing(r) ==
  /\ stage[r] = "planning" /\ Answers(r, 200)
  /\ closes' = IF planner.primary.hook THEN Append(closes, planner.primary) ELSE closes
  /\ UNCHANGED <<claim, left, held, gone, payload, request, served>>
  /\ UNCHANGED <<phase, lifespan, config, planner, builds, turn, closed>>

\* A plan, or the 500 that stands for every failure.
Respond(r) ==
  /\ stage[r] = "planning"
  /\ \E code \in {200, 500} : Answers(r, code)
  /\ UNCHANGED <<claim, left, held, gone, payload, request, served, lifeVars>>

\* Steps before the handler; the server takes requests until it is told to stop.
Front(r) ==
  /\ \/ phase = "serving" /\ Arrive(r)
     \/ Receive(r) \/ Disconnected(r) \/ Leave(r) \/ Parse(r)
  /\ UNCHANGED <<lifeVars, served>>

\* The server ends the lifespan when every request has ended.
Shut ==
  /\ StartUp \/ Stop \/ (InProgress = {} /\ Drained) \/ CloseNext
  /\ UNCHANGED <<frontVars, served>>

Next == Shut \/ \E r \in Requests : Front(r) \/ Handle(r) \/ Respond(r)

Spec == Init /\ [][Next]_vars

\* The loop runs ready tasks, handlers end (EveryRequestAnswered of RequestPath)
\* and a server told to stop goes through with it.  Clients need not do anything.
FairSpec ==
  /\ Spec
  /\ WF_vars((InProgress = {} /\ Drained) /\ UNCHANGED <<frontVars, served>>)
  /\ WF_vars(CloseNext /\ UNCHANGED <<frontVars, served>>)
  /\ \A r \in Requests :
       /\ WF_vars((Disconnected(r) \/ Parse(r)) /\ UNCHANGED <<lifeVars, served>>)
       /\ WF_vars(Handle(r)) /\ WF_vars(Respond(r))

(***************************************************************************)
(* Properties                                                              *)
(***************************************************************************)

\* Besides the types of both parts: a request in the planner has one.
TypeOK ==
  /\ FrontTypeOK /\ LifeTypeOK
  /\ \A r \in Requests : stage[r] = "planning" => served[r] # NoPlanner

\* Whoever comes first and whether or not there is a lifespan, all requests
\* share one planner, with its credential pools; unless it was given, it was
\* built once, from a complete configuration, with a backup if one is configured.
PlannedByOne ==
  /\ \A r \in Requests : served[r] \in {NoPlanner, planner}
  /\ planner \notin {d.planner : d \in Deployments} \union {NoPlanner} =>
       /\ builds = 1 /\ config.geminiModel = "text" /\ "text" \in Range(config.geminiKeys)
       /\ planner.backup # NoAdapter <=>
            (config.groqModel = "text" /\ "text" \in Range(config.groqKeys))

\* No adapter is closed while a request may still use it.
OpenWhileInUse == closes # <<>> => InProgress = {}

\* Once its body is complete a request ends, although its client may have gone
\* unnoticed and the server has nothing more to receive.
CompleteRequestsEnd ==
  \A r \in Requests : stage[r] \in {"parsing", "handling", "planning"} ~> stage[r] = "done"

\* Nothing but a body that never comes keeps a server that is told to stop from
\* stopping: no deadline covers the middleware.
StopsUnlessReading ==
  phase = "stopping" ~> (phase = "down" \/ \E r \in Requests : stage[r] = "reading")
=============================================================================
