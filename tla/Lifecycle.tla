------------------------------ MODULE Lifecycle ------------------------------
(***************************************************************************)
(* The planner of the application: given to create_app, or built from the  *)
(* configuration when the lifespan starts, or by the first request when    *)
(* the server runs no lifespan; closed when the lifespan ends.             *)
(*                                                                         *)
(* A setting is absent, blank or a text; the keys of a provider are a      *)
(* tuple of such.  An adapter is a record: who it is, and whether it       *)
(* exposes aclose.                                                         *)
(***************************************************************************)
EXTENDS Naturals, Sequences

CONSTANTS
  Deployments,   \* an environment, and the planner given to create_app, if any
  NoPlanner, NoAdapter

\* The adapters that DefaultPlanner makes.
BuiltAdapters == [name : {"gemini", "groq"}, build : {1}, hook : {TRUE}]

ASSUME LifeAssumption ==
  /\ NoAdapter \notin BuiltAdapters
  /\ NoPlanner \notin [primary : BuiltAdapters, backup : BuiltAdapters \union {NoAdapter}]

VARIABLES
  phase,      \* of the server
  lifespan,   \* the server runs the lifespan
  config,
  planner,    \* application.state.planner
  builds,     \* how many planners were built (history)
  turn,       \* place in (primary, backup) of the loop of aclose
  closed,     \* the loop's set of adapters it has met
  closes      \* the adapters whose close() was called, in order (history)

lifeVars == <<phase, lifespan, config, planner, builds, turn, closed, closes>>

LifeInit ==
  /\ phase = "starting"
  /\ lifespan \in BOOLEAN
  /\ \E d \in Deployments : config = d.config /\ planner = d.planner
  /\ builds = 0 /\ turn = 1 /\ closed = {} /\ closes = <<>>

\* _keys: the numbers of the keys that are not blank.
Keys(values) == {n \in DOMAIN values : values[n] = "text"}

\* validate_provider_configuration.
ConfigurationValid ==
  /\ config.geminiModel = "text" /\ Keys(config.geminiKeys) # {}
  /\ config.groqModel = "text" <=> Keys(config.groqKeys) # {}

\* GeminiProvider and, with a model and keys, GroqProvider; both have aclose.
DefaultPlanner ==
  [primary |-> [name |-> "gemini", build |-> builds + 1, hook |-> TRUE],
   backup  |-> IF config.groqModel # "absent" /\ Keys(config.groqKeys) # {}
               THEN [name |-> "groq", build |-> builds + 1, hook |-> TRUE]
               ELSE NoAdapter]

\* Start-up builds the planner unless there is one; if it cannot, nothing is served.
StartUp ==
  /\ phase = "starting"
  /\ IF lifespan /\ planner = NoPlanner
     THEN IF ConfigurationValid
          THEN phase' = "serving" /\ planner' = DefaultPlanner /\ builds' = builds + 1
          ELSE phase' = "failed" /\ UNCHANGED <<planner, builds>>
     ELSE phase' = "serving" /\ UNCHANGED <<planner, builds>>
  /\ UNCHANGED <<lifespan, config, turn, closed, closes>>

\* The server is told to stop: it takes no more requests and drains.
Stop ==
  /\ phase = "serving" /\ phase' = "stopping"
  /\ UNCHANGED <<lifespan, config, planner, builds, turn, closed, closes>>

\* With the last request gone the lifespan ends, if there is one.
Drained ==
  /\ phase = "stopping" /\ phase' = IF lifespan THEN "closing" ELSE "down"
  /\ UNCHANGED <<lifespan, config, planner, builds, turn, closed, closes>>

\* Slip: an adapter in both roles is closed twice.
CloseNextUnchecked ==
  /\ phase = "closing" /\ turn' = turn + 1
  /\ LET adapter == IF turn = 1 THEN planner.primary ELSE planner.backup
     IN IF turn > 2
        THEN phase' = "down" /\ UNCHANGED <<closed, closes>>
        ELSE /\ UNCHANGED <<phase, closed>>
             /\ closes' = IF adapter # NoAdapter /\ adapter.hook
                          THEN Append(closes, adapter) ELSE closes
  /\ UNCHANGED <<lifespan, config, planner, builds>>

\* One turn of the loop of aclose.  A close() that raises ends the loop.
CloseNext ==
  /\ phase = "closing"
  /\ LET adapter == IF turn = 1 THEN planner.primary ELSE planner.backup
     IN \/ /\ turn > 2 /\ phase' = "down"
           /\ UNCHANGED <<turn, closed, closes>>
        \/ /\ turn <= 2 /\ (adapter = NoAdapter \/ adapter \in closed)
           /\ turn' = turn + 1
           /\ UNCHANGED <<phase, closed, closes>>
        \/ /\ turn <= 2 /\ adapter # NoAdapter /\ adapter \notin closed
           /\ closed' = closed \union {adapter}
           /\ IF adapter.hook
              THEN /\ closes' = Append(closes, adapter)
                   /\ \/ phase' = "closing" /\ turn' = turn + 1
                      \/ phase' = "down" /\ UNCHANGED turn
              ELSE turn' = turn + 1 /\ UNCHANGED <<phase, closes>>
  /\ UNCHANGED <<lifespan, config, planner, builds>>

(***************************************************************************)
(* Properties                                                              *)
(***************************************************************************)

Phases == {"starting", "serving", "stopping", "closing", "down", "failed"}

\* Besides the types: the loop of aclose has a planner to close.
LifeTypeOK ==
  /\ phase \in Phases /\ lifespan \in BOOLEAN /\ config \in {d.config : d \in Deployments}
  /\ phase = "closing" => planner # NoPlanner
  /\ builds \in 0..1 /\ turn \in 1..3
  /\ closed \subseteq (IF planner = NoPlanner THEN {} ELSE {planner.primary, planner.backup})
  /\ closes \in Seq(closed)

\* However the two roles are filled, aclose calls the close() of an adapter at
\* most once, and when it has met both it called all there are: only a close()
\* that raised, the last one called, leaves another adapter open.
ClosesEachOnce ==
  /\ \A i, j \in DOMAIN closes : closes[i] = closes[j] => i = j
  /\ (phase = "down" /\ lifespan /\ turn > 2) =>
       \A a \in {planner.primary, planner.backup} \ {NoAdapter} :
         a.hook => \E i \in DOMAIN closes : closes[i] = a
=============================================================================
