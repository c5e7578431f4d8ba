--------------------------- MODULE ScheduleReplay ---------------------------
(***************************************************************************)
(* From the LP's solution to the verdict on the plan: build_response of    *)
(* app/services/response_builder.py and validate_plan of                   *)
(* app/services/plan_validator.py, hour by hour, on a solution that meets  *)
(* the bounds and equalities of solve_schedule (app/services/optimizer.py) *)
(* as far as the solver's feasibility tolerance makes it.                  *)
(*                                                                         *)
(* Energy is an integer.  Quantum is ACTION_EPSILON, the last decimal that *)
(* round keeps; it is odd, so that nothing lies halfway between two of its *)
(* multiples.  Tolerance is the validator's TOLERANCE, 10000 quanta in the *)
(* program.  Money is an integer too and Quantum its sixth decimal; a      *)
(* tariff is what one quantum of energy costs.                             *)
(***************************************************************************)
EXTENDS Integers, Sequences, Functions

CONSTANTS
  H,            \* hours of the day, 24 in the program
  Quantum, Tolerance,
  Capacity, MaxCharge, MaxDischarge,   \* of the battery
  SolverSlack,  \* by how much the LP solver may miss a bound or a row
  Cases         \* the LPs and solutions of the runs: [given, solution]

ASSUME ReplayAssumption ==
  /\ H \in Nat \ {0} /\ Quantum \in Nat \ {0} /\ Quantum % 2 = 1
  /\ Tolerance \in Nat /\ SolverSlack \in Nat
  /\ Capacity \in Nat /\ MaxCharge \in Nat /\ MaxDischarge \in Nat

Hours == 1..H

\* Amounts of a request are not negative; those of a solution may be.
ASSUME CasesAssumption ==
  \A c \in Cases :
    /\ c.given \in [initial : Nat, minimum : [Hours -> Nat],
                    charge_allowed : [Hours -> BOOLEAN], discharge_allowed : [Hours -> BOOLEAN],
                    solar : [Hours -> Nat], grid_cap : [Hours -> Nat],
                    tariff : [Hours -> Nat], demand : [Hours -> Nat]]
    /\ c.solution \in [energy_after : [Hours -> Int], battery_flow : [Hours -> Int],
                       grid : [Hours -> Int], solar_used : [Hours -> Int]]

\* Twice what one hour can add to the drift: a quantum and a half for its flow,
\* rounded or dropped, and what the solver misses the hour's state row by.
HourDrift == 3 * Quantum + 2 * SolverSlack

\* The validator's tolerance covers what a day of hours, and the terms of one
\* balance, can add up to.
ASSUME ToleranceAssumption ==
  /\ SolverSlack <= Quantum
  /\ 2 * Tolerance >= HourDrift * H + 2 * SolverSlack
  /\ 2 * Tolerance >= 7 * Quantum + 2 * SolverSlack

VARIABLES
  given,     \* the request and its compiled directives
  solution,  \* OptimizationSolution
  phase,     \* building, replaying, accepted, rejected or unserializable
  plan,      \* response.hourly_plan as far as it is built
  hour,      \* the hour the loop of this phase is at
  totals,    \* of the response: total_grid_kwh, total_cost_bdt, peak_grid_kwh
  energy,    \* the running energy of the loop of this phase
  reason     \* why the plan was rejected (history)

vars == <<given, solution, phase, plan, totals, hour, energy, reason>>

(***************************************************************************)
(* The linear program                                                      *)
(***************************************************************************)

Before(g, s, h) == IF h = 1 THEN g.initial ELSE s.energy_after[h - 1]

\* Between the bounds, but for the solver's slack.
Within(lower, x, upper) == lower - SolverSlack <= x /\ x <= upper + SolverSlack

\* Equal, but for the solver's slack.
Meets(x, value) == Within(value, x, value)

\* The rows and bounds of solve_schedule hold for solution s.  linprog gets no
\* tolerance option: the solver's own applies to the rows as to the bounds.
Solves(g, s) ==
  /\ \A h \in Hours :
       /\ Meets(s.grid[h] + s.solar_used[h] - s.battery_flow[h], g.demand[h])
       /\ Meets(s.energy_after[h] - s.battery_flow[h], Before(g, s, h))
       /\ Within(0, s.grid[h], g.grid_cap[h]) /\ Within(0, s.solar_used[h], g.solar[h])
       /\ Within(IF g.discharge_allowed[h] THEN -MaxDischarge ELSE 0, s.battery_flow[h],
                 IF g.charge_allowed[h] THEN MaxCharge ELSE 0)
       /\ Within(g.minimum[h], s.energy_after[h], Capacity)
  /\ Meets(s.energy_after[H], g.initial)

Init ==
  /\ \E c \in Cases : Solves(c.given, c.solution) /\ given = c.given /\ solution = c.solution
  /\ phase = "building" /\ plan = <<>> /\ hour = 1
  /\ totals = [grid |-> 0, cost |-> 0, peak |-> 0]
  /\ energy = given.initial /\ reason = "none"

(***************************************************************************)
(* build_response                                                          *)
(***************************************************************************)

Size(v) == IF v < 0 THEN -v ELSE v

\* Slip: the digits beyond the sixth are cut off.
Truncated(v) == IF v < 0 THEN -(((-v) \div Quantum) * Quantum) ELSE (v \div Quantum) * Quantum

\* _rounded.
Rounded(v) ==
  IF Size(v) < Quantum THEN 0 ELSE ((2 * v + Quantum) \div (2 * Quantum)) * Quantum

\* The signed energy the plan moves for flow f; idle up to one quantum.
Moved(f) == IF Size(Rounded(f)) > Quantum THEN Rounded(f) ELSE 0

NotNegative(v) == IF Rounded(v) < 0 THEN 0 ELSE Rounded(v)

\* Slip: the energy of the hour is taken before the battery acts.
EnergyReportedBefore(h) == Rounded(energy)

\* Slip: the running energy is not rounded.
EnergyReportedRaw(h) == energy + Moved(solution.battery_flow[h])

\* The energy after hour h, rounded anew each hour.
EnergyReported(h) == Rounded(energy + Moved(solution.battery_flow[h]))

\* _nonnegative and the NonNegative fields of HourPlan take the values of h.
Serializable(h) ==
  /\ solution.grid[h] >= -Quantum /\ solution.solar_used[h] >= -Quantum
  /\ EnergyReported(h) >= 0

Item(h) ==
  [grid |-> NotNegative(solution.grid[h]), solar_used |-> NotNegative(solution.solar_used[h]),
   moved |-> Moved(solution.battery_flow[h]), energy_after |-> EnergyReported(h)]

BuildHour ==
  /\ phase = "building" /\ hour <= H /\ Serializable(hour)
  /\ plan' = Append(plan, Item(hour))
  /\ energy' = EnergyReported(hour)
  /\ hour' = hour + 1
  /\ UNCHANGED <<given, solution, phase, totals, reason>>

\* ValueError, pydantic's ValidationError included: HTTP 500.
BuildFails ==
  /\ phase = "building" /\ hour <= H /\ ~Serializable(hour)
  /\ phase' = "unserializable"
  /\ UNCHANGED <<given, solution, plan, totals, hour, energy, reason>>

Total(f) == FoldFunction(+, 0, f)

Grid == [h \in DOMAIN plan |-> plan[h].grid]

\* Slip: each hour pays the tariff of the hour before it.
CostShifted == [h \in DOMAIN plan |-> (plan[h].grid \div Quantum) * given.tariff[IF h = 1 THEN H ELSE h - 1]]

Cost == [h \in DOMAIN plan |-> (plan[h].grid \div Quantum) * given.tariff[h]]

Peak == CHOOSE v \in Range(Grid) : \A w \in Range(Grid) : v >= w

\* The response is complete; validate_plan starts from the request again.
Built ==
  /\ phase = "building" /\ hour > H
  /\ totals' = [grid |-> Rounded(Total(Grid)), cost |-> Rounded(Total(Cost)),
                peak |-> Rounded(Peak)]
  /\ phase' = "replaying" /\ hour' = 1 /\ energy' = given.initial
  /\ UNCHANGED <<given, solution, plan, reason>>

(***************************************************************************)
(* validate_plan                                                           *)
(***************************************************************************)

CloseTo(a, b) == Size(a - b) <= Tolerance

\* The first check in the validator's loop that hour h fails.
Verdict(h) ==
  LET x == plan[h]
      after == energy + x.moved
  IN CASE x.moved # 0 /\ Size(x.moved) <= Tolerance -> "zero magnitude"
       [] x.moved > MaxCharge + Tolerance -> "charge rate"
       [] -x.moved > MaxDischarge + Tolerance -> "discharge rate"
       [] x.moved > Tolerance /\ ~given.charge_allowed[h] -> "charge forbidden"
       [] -x.moved > Tolerance /\ ~given.discharge_allowed[h] -> "discharge forbidden"
       [] ~CloseTo(x.energy_after, after) -> "transition"
       [] after < given.minimum[h] - Tolerance -> "minimum"
       [] after > Capacity + Tolerance -> "capacity"
       [] x.solar_used > given.solar[h] + Tolerance -> "solar"
       [] x.grid > given.grid_cap[h] + Tolerance -> "grid cap"
       [] ~CloseTo(x.grid + x.solar_used - x.moved, given.demand[h]) -> "balance"
       [] OTHER -> "none"

ReplayHour ==
  /\ phase = "replaying" /\ hour <= H /\ Verdict(hour) = "none"
  /\ energy' = energy + plan[hour].moved
  /\ hour' = hour + 1
  /\ UNCHANGED <<given, solution, phase, plan, totals, reason>>

\* What the check the loop, or what follows it, has come to says.
Finding ==
  CASE hour <= H -> Verdict(hour)
    [] hour > H /\ ~CloseTo(energy, given.initial) -> "neutrality"
    [] hour > H /\ ~CloseTo(totals.grid, Total(Grid)) -> "total grid"
    [] hour > H /\ ~CloseTo(totals.cost, Total(Cost)) -> "total cost"
    [] hour > H /\ ~CloseTo(totals.peak, Peak) -> "peak"
    [] OTHER -> "none"

\* PlanValidationError: HTTP 500.
ReplayFails ==
  /\ phase = "replaying" /\ Finding # "none"
  /\ phase' = "rejected" /\ reason' = Finding
  /\ UNCHANGED <<given, solution, plan, totals, hour, energy>>

Accept ==
  /\ phase = "replaying" /\ hour > H /\ Finding = "none"
  /\ phase' = "accepted"
  /\ UNCHANGED <<given, solution, plan, totals, hour, energy, reason>>

Next == BuildHour \/ BuildFails \/ Built \/ ReplayHour \/ ReplayFails \/ Accept

Spec == Init /\ [][Next]_vars

(***************************************************************************)
(* Properties                                                              *)
(***************************************************************************)

\* Besides the types: every number of the plan is a whole number of quanta and
\* none but a discharge is negative.
TypeOK ==
  /\ phase \in {"building", "replaying", "accepted", "rejected", "unserializable"}
  /\ hour \in 1..(H + 1) /\ energy \in Int
  /\ Len(plan) <= H /\ (phase = "building" => Len(plan) = hour - 1)
  /\ \A h \in DOMAIN plan :
       /\ \A v \in {plan[h].grid, plan[h].solar_used, plan[h].energy_after} :
            v >= 0 /\ v % Quantum = 0
       /\ plan[h].moved % Quantum = 0

\* Rounding flows and dropping small ones takes the replayed battery away from
\* the LP's by at most one and a half quanta an hour, besides what the solver
\* itself missed the state rows by; the energy the plan reports may be a whole
\* quantum further away, for a fractional start.
DriftBounded ==
  /\ phase = "replaying" /\ hour > 1 =>
       2 * Size(energy - solution.energy_after[hour - 1]) <= HourDrift * (hour - 1)
  /\ \A h \in DOMAIN plan :
       2 * Size(plan[h].energy_after - solution.energy_after[h]) <= HourDrift * h + 2 * Quantum

\* The replay rejects a plan built from a solution of the LP for one reason
\* only, a battery action of more than one quantum within the tolerance; and
\* the plan cannot be written down for one reason only, an energy that is
\* close to 0 in the solution and is rounded below it.
RejectionsExplained ==
  /\ phase = "rejected" =>
       /\ reason = "zero magnitude"
       /\ \E h \in Hours : /\ Size(solution.battery_flow[h]) > Quantum
                           /\ 2 * Size(solution.battery_flow[h]) <= 2 * Tolerance + Quantum
  /\ phase = "unserializable" =>
       2 * solution.energy_after[hour] <= HourDrift * hour + 2 * Quantum

\* The totals of an accepted plan are those of the solution, too: the energy is
\* off by at most a quantum an hour, the peak by a quantum, the cost by what a
\* quantum an hour costs and one quantum of money.
TotalsFaithful ==
  phase = "accepted" =>
    /\ Size(totals.grid - Total(solution.grid)) <= H * Quantum
    /\ \A h \in Hours : solution.grid[h] < totals.peak + Quantum
    /\ \E h \in Hours : Size(solution.grid[h] - totals.peak) <= Quantum
    /\ 2 * Size(Quantum * totals.cost - Total([h \in Hours |-> solution.grid[h] * given.tariff[h]]))
         <= Quantum * (2 * Total(given.tariff) + 2 * Quantum)

\* HourPlan declares battery_energy_after_kwh to be NonNegative: a solution of
\* the LP, whose energies are, can be written down.
SolutionsSerializable == phase # "unserializable"
=============================================================================
