-------------------------- MODULE DirectiveCompiler --------------------------
(***************************************************************************)
(* compile_directives of app/services/directive_engine.py: the loop that   *)
(* turns the validated directives of a request into the per-hour arrays    *)
(* the optimizer takes its bounds from, one action per directive.          *)
(*                                                                         *)
(* A directive is a record [kind, hours, amount]; hours is a set, because  *)
(* the guardrails have made the list ascending and unique and the loop     *)
(* treats its hours alike.  A solar factor is an integer number of parts   *)
(* of One.  None is the empty set and a value v is {v}.  The isinstance    *)
(* guards of the loop repeat what DirectiveInterpretation.validate_shape   *)
(* of app/schemas.py has established; here they hold by the record.        *)
(***************************************************************************)
EXTENDS Integers, Sequences

CONSTANTS
  H,           \* hours of the day, 24 in the program
  One,         \* the solar factor 1.0
  Slack,       \* abs_tol of isclose, in parts of One
  Solar,       \* hours[h].solar_kwh of the request
  BaseMinimum, \* battery.minimum_energy_kwh of the request
  Requests     \* the lists of directives of the runs

Hours == 0..(H - 1)

Kinds == {"solar_reduction", "minimum_battery_reserve", "no_charge_window",
          "no_discharge_window", "max_grid_window", "no_op"}

DirectiveType == {d \in [kind : Kinds, hours : SUBSET Hours, amount : Nat] :
                    d.kind = "solar_reduction" => d.amount <= One}

ASSUME CompilerAssumption ==
  /\ H \in Nat /\ One \in Nat /\ Slack \in Nat
  /\ Solar \in [Hours -> Nat] /\ BaseMinimum \in Nat
  /\ Requests \subseteq Seq(DirectiveType)

VARIABLES
  directives,
  next,               \* position of the directive the loop is at
  status,             \* compiling, compiled or conflict
  effective_solar, active_minimum, charge_allowed, discharge_allowed,
  grid_upper_bound, solar_factor

arrays == <<effective_solar, active_minimum, charge_allowed, discharge_allowed,
            grid_upper_bound, solar_factor>>
vars == <<directives, next, status, arrays>>

CompilerInit ==
  /\ next = 1 /\ status = "compiling"
  /\ effective_solar = [h \in Hours |-> Solar[h] * One]
  /\ active_minimum = [h \in Hours |-> BaseMinimum]
  /\ charge_allowed = [h \in Hours |-> TRUE]
  /\ discharge_allowed = [h \in Hours |-> TRUE]
  /\ grid_upper_bound = [h \in Hours |-> {}]
  /\ solar_factor = [h \in Hours |-> {}]

Init == directives \in Requests /\ CompilerInit

Close(a, b) == a - b <= Slack /\ b - a <= Slack

\* The loop is at a directive of this kind.
AtKind(kind) ==
  /\ status = "compiling" /\ next <= Len(directives)
  /\ directives[next].kind = kind

Named(h) == h \in directives[next].hours
Amount == directives[next].amount

\* On with the loop.
Advance == next' = next + 1 /\ UNCHANGED <<directives, status>>

\* The array with value(h) at the hours the directive names.
Replaced(array, value(_)) == [h \in Hours |-> IF Named(h) THEN value(h) ELSE array[h]]

SkipNoOp == AtKind("no_op") /\ Advance /\ UNCHANGED arrays

\* Slip: the previous factor is remembered once, not per hour.
ConflictingAnywhere == \E h \in Hours : \E f \in solar_factor[h] : ~Close(f, Amount)

\* A factor recorded for an hour the directive names differs from its own.
Conflicting == \E h \in directives[next].hours : \E f \in solar_factor[h] : ~Close(f, Amount)

ReduceSolar ==
  /\ AtKind("solar_reduction") /\ ~Conflicting
  /\ solar_factor' = Replaced(solar_factor, LAMBDA h : {Amount})
  /\ effective_solar' = Replaced(effective_solar, LAMBDA h : Solar[h] * Amount)
  /\ Advance
  /\ UNCHANGED <<active_minimum, charge_allowed, discharge_allowed, grid_upper_bound>>

\* DirectiveConflictError: the arrays of this call are dropped.
RaiseConflict ==
  /\ AtKind("solar_reduction") /\ Conflicting
  /\ status' = "conflict"
  /\ UNCHANGED <<directives, next, arrays>>

Higher(a, b) == IF a >= b THEN a ELSE b

RaiseReserve ==
  /\ AtKind("minimum_battery_reserve")
  /\ active_minimum' = Replaced(active_minimum, LAMBDA h : Higher(active_minimum[h], Amount))
  /\ Advance
  /\ UNCHANGED <<effective_solar, charge_allowed, discharge_allowed, grid_upper_bound,
                 solar_factor>>

\* Slip: the outage is taken to last from its first to its last hour.
ForbidChargeThroughout ==
  /\ AtKind("no_charge_window")
  /\ charge_allowed' = [h \in Hours |->
       IF \E a, b \in directives[next].hours : a <= h /\ h <= b
       THEN FALSE ELSE charge_allowed[h]]
  /\ Advance
  /\ UNCHANGED <<effective_solar, active_minimum, discharge_allowed, grid_upper_bound,
                 solar_factor>>

ForbidCharge ==
  /\ AtKind("no_charge_window")
  /\ charge_allowed' = Replaced(charge_allowed, LAMBDA h : FALSE)
  /\ Advance
  /\ UNCHANGED <<effective_solar, active_minimum, discharge_allowed, grid_upper_bound,
                 solar_factor>>

ForbidDischarge ==
  /\ AtKind("no_discharge_window")
  /\ discharge_allowed' = Replaced(discharge_allowed, LAMBDA h : FALSE)
  /\ Advance
  /\ UNCHANGED <<effective_solar, active_minimum, charge_allowed, grid_upper_bound,
                 solar_factor>>

Lower(a, b) == IF a <= b THEN a ELSE b

\* Slip: the last cap replaces the ones before it.
CappedByLast(h) == {Amount}

\* Slip: the caps of an hour are collected instead of compared.
CappedByBoth(h) == grid_upper_bound[h] \cup {Amount}

\* The caps of an hour once the directive has been added to those in force.
Capped(h) == IF grid_upper_bound[h] = {} THEN {Amount}
             ELSE {Lower(b, Amount) : b \in grid_upper_bound[h]}

CapGrid ==
  /\ AtKind("max_grid_window")
  /\ grid_upper_bound' = Replaced(grid_upper_bound, Capped)
  /\ Advance
  /\ UNCHANGED <<effective_solar, active_minimum, charge_allowed, discharge_allowed,
                 solar_factor>>

Return ==
  /\ status = "compiling" /\ next > Len(directives)
  /\ status' = "compiled"
  /\ UNCHANGED <<directives, next, arrays>>

Apply ==
  \/ SkipNoOp \/ ReduceSolar \/ RaiseReserve \/ ForbidCharge \/ ForbidDischarge \/ CapGrid

Next == Apply \/ RaiseConflict \/ Return

Spec == Init /\ [][Next]_vars

(***************************************************************************)
(* Properties                                                              *)
(***************************************************************************)

\* Besides the types: an hour has at most one factor and at most one cap, and
\* never more sun than the request says.
TypeOK ==
  /\ directives \in Seq(DirectiveType) /\ next \in 1..(Len(directives) + 1)
  /\ status \in {"compiling", "compiled", "conflict"}
  /\ effective_solar \in [Hours -> Nat]
  /\ active_minimum \in [Hours -> Nat]
  /\ charge_allowed \in [Hours -> BOOLEAN] /\ discharge_allowed \in [Hours -> BOOLEAN]
  /\ grid_upper_bound \in [Hours -> SUBSET Nat] /\ solar_factor \in [Hours -> SUBSET Nat]
  /\ \A h \in Hours :
       /\ \A a, b \in grid_upper_bound[h] : a = b
       /\ \A a, b \in solar_factor[h] : a = b
       /\ effective_solar[h] <= Solar[h] * One

\* The directives the loop has applied, as positions in the list, and those
\* of one kind that name hour h.
Applied == 1..(next - 1)
Naming(kind, h) == {i \in Applied : directives[i].kind = kind /\ h \in directives[i].hours}

\* No directive is undone by a later one: however the notes overlap and in
\* whatever order they come, every reserve, outage and cap applied so far
\* binds in each of its hours, and the sun of an hour is within one Slack per
\* later directive of what each solar reduction of that hour asks for.
EveryDirectiveBinds ==
  \A h \in Hours :
    /\ \A i \in Naming("minimum_battery_reserve", h) : active_minimum[h] >= directives[i].amount
    /\ \A i \in Naming("max_grid_window", h) :
         \E b \in grid_upper_bound[h] : b <= directives[i].amount
    /\ Naming("no_charge_window", h) # {} => ~charge_allowed[h]
    /\ Naming("no_discharge_window", h) # {} => ~discharge_allowed[h]
    /\ \A i \in Naming("solar_reduction", h) :
         \E f \in solar_factor[h] :
           /\ effective_solar[h] = Solar[h] * f
           /\ f - directives[i].amount <= Slack * (next - 1 - i)
           /\ directives[i].amount - f <= Slack * (next - 1 - i)

\* Nothing binds that no note asked for: what an hour's arrays hold is the
\* request's own value or the amount of a directive that names the hour.
OnlyDirectivesBind ==
  \A h \in Hours :
    /\ \/ active_minimum[h] = BaseMinimum
       \/ \E i \in Naming("minimum_battery_reserve", h) : active_minimum[h] = directives[i].amount
    /\ active_minimum[h] >= BaseMinimum
    /\ \A b \in grid_upper_bound[h] :
         \E i \in Naming("max_grid_window", h) : b = directives[i].amount
    /\ ~charge_allowed[h] => Naming("no_charge_window", h) # {}
    /\ ~discharge_allowed[h] => Naming("no_discharge_window", h) # {}
    /\ \/ solar_factor[h] = {} /\ effective_solar[h] = Solar[h] * One
       \/ \E i \in Naming("solar_reduction", h) : solar_factor[h] = {directives[i].amount}

\* A request fails with DirectiveConflictError only when two of its solar
\* reductions name one hour and differ there by more than the slack.
ConflictHasCause ==
  status = "conflict" =>
    \E i, j \in 1..Len(directives) :
      /\ directives[i].kind = "solar_reduction" /\ directives[j].kind = "solar_reduction"
      /\ directives[i].hours \cap directives[j].hours # {}
      /\ ~Close(directives[i].amount, directives[j].amount)
=============================================================================
