----------------------------- MODULE Guardrails -----------------------------
(***************************************************************************)
(* What becomes of a model's answer: the Groq wire parser of               *)
(* app/services/interpreter.py, the schema of app/schemas.py and           *)
(* validate_interpretation of app/services/guardrails.py.                  *)
(*                                                                         *)
(* Numbers are integers, in hundredths: One is 1.0 and Tolerance is the    *)
(* TOLERANCE of 0.01.  An optional value is a set of at most one.  A       *)
(* directive of the answer is [note, applies, kind, adjustment, blank],    *)
(* blank if its explanation is nothing but blanks; its adjustment is       *)
(* [hours, fields, nulls, other, amount]: the list of hours, the numeric   *)
(* keys with a number, those with null, whether there is any other key,    *)
(* and the number.  A trace is [note, window, explicit, basis].            *)
(***************************************************************************)
EXTENDS Integers, Sequences

CONSTANTS
  H,          \* hours of the day, 24 in the program
  One,        \* 1.0
  Tolerance,  \* TOLERANCE
  Capacity,   \* battery.capacity_kwh of the request, in kWh
  Answers     \* the answers of the runs: [provider, count, directives, traces]

ASSUME GuardrailsAssumption ==
  H \in Nat \ {0} /\ One \in Nat /\ Tolerance \in Nat /\ Capacity \in Nat

Hours == 0..(H - 1)

(***************************************************************************)
(* The shapes of app/schemas.py; what is optional is a set of at most one  *)
(***************************************************************************)

Optional(S) == {s \in SUBSET S : \A x, y \in s : x = y}

Fields == {"factor", "minimum_energy_kwh", "max_grid_kwh"}

DirectiveKinds == {"solar_reduction", "minimum_battery_reserve", "no_charge_window",
                   "no_discharge_window", "max_grid_window", "no_op"}

BasisKinds == {"usable_fraction", "reduction_fraction", "absolute_kwh", "capacity_fraction",
               "absolute_grid_kwh", "none"}

\* As the provider sends it: the hours and the keys are not checked yet.
AdjustmentType ==
  [hours : Seq(Int), fields : SUBSET Fields, nulls : SUBSET Fields, other : BOOLEAN, amount : Nat]

DirectiveType ==
  [note : Nat, applies : BOOLEAN, kind : DirectiveKinds, adjustment : Optional(AdjustmentType),
   blank : BOOLEAN]

TraceType ==
  [note : Nat, window : Optional([start : Hours, end : 0..H]), explicit : Optional(Seq(Hours)),
   basis : Optional([kind : BasisKinds, value : Optional(Nat)])]

ASSUME AnswersAssumption ==
  Answers \subseteq [provider : {"gemini", "groq"}, count : Nat,
                     directives : Seq(DirectiveType), traces : Seq(TraceType)]

VARIABLES
  answer,      \* what the provider returned, with the number of notes asked about
  directives,  \* envelope.directive_interpretation once parsed
  at,          \* position of the pair of directive and trace under check
  verdict      \* parsing, checking, malformed, rejected or accepted

vars == <<answer, directives, at, verdict>>

GuardrailsInit ==
  /\ answer \in Answers
  /\ directives = <<>> /\ at = 1 /\ verdict = "parsing"

Elements(s) == {s[k] : k \in DOMAIN s}

(***************************************************************************)
(* The wire and the schema                                                 *)
(***************************************************************************)

\* The numeric field a kind of directive must have.
NumericField(kind) ==
  CASE kind = "solar_reduction" -> {"factor"}
    [] kind = "minimum_battery_reserve" -> {"minimum_energy_kwh"}
    [] kind = "max_grid_window" -> {"max_grid_kwh"}
    [] OTHER -> {}

\* The schema sent to Groq: an adjustment is null or has hours and all three
\* numeric keys, each with a number in its range or null, and nothing else.  Of
\* an explanation it asks for a length, which blanks have as well.
WireConforms(d) ==
  \A a \in d.adjustment :
    /\ Elements(a.hours) \subseteq Hours /\ ~a.other
    /\ a.nulls = Fields \ a.fields
    /\ "factor" \in a.fields => a.amount <= One

\* What the instructions ask beyond it: exactly the slot of the kind is filled.
Instructed(d) ==
  /\ d.applies <=> d.kind # "no_op"
  /\ d.adjustment = {} <=> d.kind = "no_op"
  /\ \A a \in d.adjustment : a.fields = NumericField(d.kind)

\* Slip: a conflicting number is left behind like any other key.
GroqParsesConflicting(d) ==
  d.kind = "no_op" \/ \A a \in d.adjustment : NumericField(d.kind) \subseteq a.fields

\* _parse_groq_envelope looks for the one field and for no conflicting number.
GroqParses(d) ==
  d.kind = "no_op" \/ \A a \in d.adjustment : a.fields = NumericField(d.kind)

\* Slip: the placeholders of the unused slots stay in the adjustment.
GroqNormalizedWithNulls(d) ==
  IF d.kind = "no_op" THEN d
  ELSE [d EXCEPT !.adjustment =
          {[a EXCEPT !.fields = NumericField(d.kind), !.other = FALSE] : a \in @}]

\* It copies hours and the one field and leaves every other key behind.
GroqNormalized(d) ==
  IF d.kind = "no_op" THEN d
  ELSE [d EXCEPT !.adjustment =
          {[a EXCEPT !.fields = NumericField(d.kind), !.nulls = {}, !.other = FALSE] : a \in @}]

\* Slip: the hours of an adjustment are any integers.
AdjustmentParsesAnyHour(a) ==
  /\ ~a.other /\ a.nulls = {}
  /\ \E f \in Fields : a.fields \subseteq {f}
  /\ "factor" \in a.fields => a.amount <= One

\* One member of the union Adjustment has exactly the keys of a, and takes them.
AdjustmentParses(a) ==
  /\ ~a.other /\ a.nulls = {}
  /\ \E f \in Fields : a.fields \subseteq {f}
  /\ "factor" \in a.fields => a.amount <= One
  /\ Elements(a.hours) \subseteq Hours

\* DirectiveInterpretation.validate_shape; every adjustment is an instance of
\* HoursAdjustment, which is all it asks of an outage.
ShapeFits(d) ==
  IF d.kind = "no_op"
  THEN ~d.applies /\ d.adjustment = {}
  ELSE d.applies /\ \E a \in d.adjustment : NumericField(d.kind) \subseteq a.fields

\* With validate_explanation, which refuses an explanation of blanks.
SchemaFits(d) == ~d.blank /\ (\A a \in d.adjustment : AdjustmentParses(a)) /\ ShapeFits(d)

Normalized(d) == IF answer.provider = "groq" THEN GroqNormalized(d) ELSE d

WireFits(d) ==
  /\ answer.provider = "groq" => GroqParses(d)
  /\ SchemaFits(Normalized(d))

Parse ==
  /\ verdict = "parsing"
  /\ \A d \in Elements(answer.directives) : WireFits(d)
  /\ directives' = [k \in DOMAIN answer.directives |-> Normalized(answer.directives[k])]
  /\ verdict' = "checking"
  /\ UNCHANGED <<answer, at>>

\* ModelOutputError.
Malformed ==
  /\ verdict = "parsing"
  /\ \E d \in Elements(answer.directives) : ~WireFits(d)
  /\ verdict' = "malformed"
  /\ UNCHANGED <<answer, directives, at>>

(***************************************************************************)
(* validate_interpretation                                                 *)
(***************************************************************************)

\* Every note has its entry, in order.
OnePerNote(list) ==
  /\ Len(list) = answer.count
  /\ \A k \in DOMAIN list : list[k].note = k - 1

IndicesFit == OnePerNote(directives) /\ OnePerNote(answer.traces)

D == directives[at]
T == answer.traces[at]
Adj == CHOOSE a \in D.adjustment : TRUE

Ascending(s) == \A j, k \in DOMAIN s : j < k => s[j] < s[k]

\* Slip: a window that crosses midnight ends there.
ExpandWindowToMidnight(w) ==
  IF w.end = H THEN w.start..(H - 1)
  ELSE IF w.start < w.end THEN w.start..(w.end - 1)
  ELSE w.start..(H - 1)

\* _expand_window of a window whose ends differ.
ExpandWindow(w) ==
  IF w.end = H THEN w.start..(H - 1)
  ELSE IF w.start < w.end THEN w.start..(w.end - 1)
  ELSE w.start..(H - 1) \cup 0..(w.end - 1)

\* The hours of the directive and those of its trace, given exactly one way.
HoursFit ==
  /\ Adj.hours # <<>> /\ Ascending(Adj.hours)
  /\ T.window = {} <=> T.explicit # {}
  /\ \A w \in T.window : w.start # w.end /\ Elements(Adj.hours) = ExpandWindow(w)
  /\ \A s \in T.explicit : Ascending(s) /\ Adj.hours = s

\* _require_close.
RequireClose(actual, expected) ==
  actual - expected <= Tolerance /\ expected - actual <= Tolerance

AtKind(kinds) ==
  /\ verdict = "checking" /\ IndicesFit /\ at <= Len(directives)
  /\ D.kind \in kinds

\* The trace has a basis of kind b with a number that satisfies Fits.
Basis(b, Fits(_)) == \E x \in T.basis : x.kind = b /\ \E v \in x.value : Fits(v)

NoOpFits == AtKind({"no_op"}) /\ T.window = {} /\ T.explicit = {} /\ T.basis = {}

SolarFits ==
  /\ AtKind({"solar_reduction"}) /\ HoursFit
  /\ \/ Basis("usable_fraction", LAMBDA v : v <= One /\ RequireClose(Adj.amount, v))
     \/ Basis("reduction_fraction", LAMBDA v : v <= One /\ RequireClose(Adj.amount, One - v))

\* Slip: the reserve is not compared with the capacity.
ReserveFitsAnyBattery ==
  /\ AtKind({"minimum_battery_reserve"}) /\ HoursFit
  /\ \/ Basis("absolute_kwh", LAMBDA v : RequireClose(Adj.amount, v))
     \/ Basis("capacity_fraction",
              LAMBDA v : v <= One /\ RequireClose(Adj.amount, Capacity * v))

ReserveFits ==
  /\ AtKind({"minimum_battery_reserve"}) /\ HoursFit
  /\ \/ Basis("absolute_kwh", LAMBDA v : RequireClose(Adj.amount, v))
     \/ Basis("capacity_fraction",
              LAMBDA v : v <= One /\ RequireClose(Adj.amount, Capacity * v))
  /\ Adj.amount <= Capacity * One

GridCapFits ==
  /\ AtKind({"max_grid_window"}) /\ HoursFit
  /\ Basis("absolute_grid_kwh", LAMBDA v : RequireClose(Adj.amount, v))

OutageFits ==
  /\ AtKind({"no_charge_window", "no_discharge_window"}) /\ HoursFit
  /\ \E x \in T.basis : x.kind = "none" /\ x.value = {}

NoteFits == NoOpFits \/ SolarFits \/ ReserveFits \/ GridCapFits \/ OutageFits

\* The loop is done with one pair of directive and trace.
PassNote ==
  /\ NoteFits
  /\ at' = at + 1
  /\ UNCHANGED <<answer, directives, verdict>>

\* GuardrailError: of the indices before the loop, or of a pair in it.
Reject ==
  /\ verdict = "checking"
  /\ ~IndicesFit \/ (at <= Len(directives) /\ ~NoteFits)
  /\ verdict' = "rejected"
  /\ UNCHANGED <<answer, directives, at>>

Accept ==
  /\ verdict = "checking" /\ IndicesFit /\ at > Len(directives)
  /\ verdict' = "accepted"
  /\ UNCHANGED <<answer, directives, at>>

GuardrailsNext == Parse \/ Malformed \/ PassNote \/ Reject \/ Accept
=============================================================================
