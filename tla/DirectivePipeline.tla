-------------------------- MODULE DirectivePipeline --------------------------
(***************************************************************************)
(* From a model's answer to the optimizer's arrays: the Guardrails and,    *)
(* for an answer they accept, the DirectiveCompiler                        *)
(* (Planner._plan_within_deadline).  The reference the properties compare  *)
(* with reads the traces alone: what hours a trace names, walking the      *)
(* clock from its start, and what number it states.                        *)
(***************************************************************************)
EXTENDS Guardrails

CONSTANTS
  Slack,        \* abs_tol of the compiler's isclose
  Solar,        \* hours[h].solar_kwh of the request
  BaseMinimum   \* battery.minimum_energy_kwh of the request

ASSUME PipelineAssumption ==
  /\ Slack \in Nat /\ Solar \in [Hours -> Nat]
  /\ BaseMinimum \in Nat /\ BaseMinimum <= Capacity * One

VARIABLES
  next, status, effective_solar, active_minimum, charge_allowed, discharge_allowed,
  grid_upper_bound, solar_factor

arrays == <<effective_solar, active_minimum, charge_allowed, discharge_allowed,
            grid_upper_bound, solar_factor>>
compilerVars == <<next, status, arrays>>
pipelineVars == <<vars, compilerVars>>

\* The validated directive as the compiler sees it.
Plain(d) ==
  [kind |-> d.kind,
   hours |-> UNION {Elements(a.hours) : a \in d.adjustment},
   amount |-> IF d.adjustment = {} THEN 0 ELSE (CHOOSE a \in d.adjustment : TRUE).amount]

\* All of them: what compile_directives may be called with.
PlainDirectives ==
  {d \in [kind : DirectiveKinds, hours : SUBSET Hours, amount : Nat] :
     d.kind = "solar_reduction" => d.amount <= One}

Compiler == INSTANCE DirectiveCompiler WITH
              Requests <- Seq(PlainDirectives),
              directives <- [k \in DOMAIN directives |-> Plain(directives[k])]

Init == GuardrailsInit /\ Compiler!CompilerInit

Validate == GuardrailsNext /\ UNCHANGED compilerVars

\* compile_directives runs on what the guardrails returned.
Compile == verdict = "accepted" /\ UNCHANGED vars /\ Compiler!Next

Next == Validate \/ Compile

Spec == Init /\ [][Next]_pipelineVars

(***************************************************************************)
(* What the traces say                                                     *)
(***************************************************************************)

\* The hours from start until end is reached, going round the clock; 24 as the
\* end of the day is the 0 of the next one.
Walked(w) ==
  LET steps == IF w.end = H THEN H - w.start ELSE (w.end + H - w.start) % H
  IN {(w.start + k) % H : k \in 0..(steps - 1)}

TracedHours(t) ==
  UNION ({Walked(w) : w \in t.window} \cup {Elements(s) : s \in t.explicit})

Unordered(s) == \E j, k \in DOMAIN s : j < k /\ s[j] >= s[k]

TimeClear(t) ==
  \/ t.explicit = {} /\ \E w \in t.window : Walked(w) # {}
  \/ t.window = {} /\ \E s \in t.explicit : s # <<>> /\ ~Unordered(s)

\* The numbers a trace can mean for a directive of this kind: a fraction for
\* solar, hundredths of kWh for the others, 0 where none may be stated.
Meant(kind, t) ==
  LET stated(b) == {v \in UNION {x.value : x \in {y \in t.basis : y.kind = b}} : TRUE}
      fraction(b) == {v \in stated(b) : v <= One}
  IN CASE kind = "solar_reduction" ->
            fraction("usable_fraction") \cup {One - v : v \in fraction("reduction_fraction")}
       [] kind = "minimum_battery_reserve" ->
            stated("absolute_kwh") \cup {Capacity * v : v \in fraction("capacity_fraction")}
       [] kind = "max_grid_window" -> stated("absolute_grid_kwh")
       [] OTHER -> {0 : x \in {y \in t.basis : y.kind = "none" /\ y.value = {}}}

Near(a, b) == a \in (b - Tolerance)..(b + Tolerance)

Numeric(kind) == NumericField(kind) # {}

\* The directive says what its trace says.
Consistent(d, t) ==
  IF d.kind = "no_op"
  THEN t.window = {} /\ t.explicit = {} /\ t.basis = {}
  ELSE /\ TimeClear(t) /\ Meant(d.kind, t) # {}
       /\ \E a \in d.adjustment :
            /\ Elements(a.hours) = TracedHours(t) /\ ~Unordered(a.hours)
            /\ Numeric(d.kind) => \E m \in Meant(d.kind, t) : Near(a.amount, m)
            /\ d.kind = "minimum_battery_reserve" => a.amount <= Capacity * One

Covers(list) == [k \in DOMAIN list |-> list[k].note] = [k \in 1..answer.count |-> k - 1]

(***************************************************************************)
(* Properties                                                              *)
(***************************************************************************)

\* Besides the types: what left the parser can be indexed by hour, so that
\* compile_directives never raises on an hour.
TypeOK ==
  /\ at \in 1..(Len(answer.directives) + 1)
  /\ verdict \in {"parsing", "checking", "malformed", "rejected", "accepted"}
  /\ \A d \in Elements(directives) : \A a \in d.adjustment :
       Elements(a.hours) \subseteq Hours /\ a.amount \in Nat
  /\ Compiler!TypeOK
  /\ status # "compiling" => verdict = "accepted"

\* The guardrails accept an answer exactly when every note has one directive
\* that says what its own trace says: a window across midnight or to the end
\* of the day, a fraction used or cut, an absolute or a relative reserve.
GuardrailsExact ==
  LET consistent == /\ Covers(directives) /\ Covers(answer.traces)
                    /\ \A k \in DOMAIN directives : Consistent(directives[k], answer.traces[k])
  IN (verdict = "accepted" => consistent) /\ (verdict = "rejected" => ~consistent)

\* The two schemas of Groq agree but for one thing: an answer that follows the
\* wire schema and the instructions is malformed exactly if it explains a
\* directive with nothing but blanks, which only the internal schema refuses.
WireSchemaParses ==
  (/\ answer.provider = "groq" /\ verdict # "parsing"
   /\ \A d \in Elements(answer.directives) : WireConforms(d) /\ Instructed(d)) =>
    (verdict = "malformed" <=> \E d \in Elements(answer.directives) : d.blank)

\* What directive d says: of an adjustment, the hours, the numeric keys that have
\* a number, and the number.
Says(d) ==
  [note |-> d.note, applies |-> d.applies, kind |-> d.kind,
   adjustment |-> {[hours |-> a.hours, fields |-> a.fields, amount |-> a.amount] :
                     a \in d.adjustment}]

\* No number is dropped silently: whatever keys an answer came with, following
\* the wire schema or not, if it is parsed then with every directive in its
\* place, its hours and all the numbers it had, and none besides.
ParsedAsSent ==
  verdict \in {"checking", "rejected", "accepted"} =>
    [k \in DOMAIN directives |-> Says(directives[k])]
      = [k \in DOMAIN answer.directives |-> Says(answer.directives[k])]

\* Notes that mean something for hour h, by position.
About(kind, h) ==
  {k \in DOMAIN directives : directives[k].kind = kind /\ h \in TracedHours(answer.traces[k])}

\* The arrays of an accepted answer hold what its traces say, within the
\* tolerance: reserves and caps bind to the strictest, outages in exactly
\* their hours, the sun to the fraction meant.
ArraysFollowTraces ==
  status = "compiled" =>
    \A h \in Hours :
      /\ \A k \in About("minimum_battery_reserve", h) :
           \E m \in Meant("minimum_battery_reserve", answer.traces[k]) :
             active_minimum[h] >= m - Tolerance
      /\ active_minimum[h] <= Capacity * One
      /\ \A k \in About("max_grid_window", h) :
           \E m \in Meant("max_grid_window", answer.traces[k]), b \in grid_upper_bound[h] :
             b <= m + Tolerance
      /\ charge_allowed[h] <=> About("no_charge_window", h) = {}
      /\ discharge_allowed[h] <=> About("no_discharge_window", h) = {}
      /\ \A k \in About("solar_reduction", h) :
           \E m \in Meant("solar_reduction", answer.traces[k]) :
             /\ effective_solar[h] <= Solar[h] * (m + Tolerance + Slack * Len(directives))
             /\ effective_solar[h] >= Solar[h] * (m - Tolerance - Slack * Len(directives))
=============================================================================
