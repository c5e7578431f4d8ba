-------------------------- MODULE MCScheduleReplay --------------------------
\* Three hours; the quantum is 3 units, so that the rounding of 1 and 2 units
\* differs, and the tolerance six quanta, more than three hours can drift.
\* The levels give flows below, at and above one quantum and the tolerance.
\* The solver misses the state rows, neutrality and the balances by its slack.
EXTENDS ScheduleReplay

Levels == {-1, 0, 4, 5, 7, 10, 19, 20, 22, 24, 40, 41}

\* What the grid and the sun give in an hour, and over the day.
Supplies == {<<-SolverSlack, 41>>, <<44, 0>>, <<22, 20>>}
Days == {[h \in Hours |-> IF h = 2 THEN y ELSE x] : x, y \in Supplies}

\* By how much a solution misses the rows of each kind.
Misses ==
  {[state |-> SolverSlack * m[1], end |-> SolverSlack * m[2], balance |-> SolverSlack * m[3]] :
     m \in {<<0, 0, 0>>, <<1, 1, 1>>, <<-1, 1, -1>>, <<1, -1, 0>>, <<-1, -1, 1>>}}

Solution(initial, level, supply, miss) ==
  LET after == [h \in Hours |-> IF h = H THEN initial + miss.end ELSE level[h]]
  IN [energy_after |-> after,
      battery_flow |-> [h \in Hours |-> after[h] - (IF h = 1 THEN initial ELSE after[h - 1])
                                          - miss.state],
      grid |-> [h \in Hours |-> supply[h][1]],
      solar_used |-> [h \in Hours |-> supply[h][2]]]

Given(initial, low, charging, discharging, s, miss) ==
  [initial |-> initial, minimum |-> [h \in Hours |-> low],
   charge_allowed |-> [h \in Hours |-> h # charging],
   discharge_allowed |-> [h \in Hours |-> h # discharging],
   solar |-> [h \in Hours |-> 41], grid_cap |-> [h \in Hours |-> 44],
   tariff |-> [h \in Hours |-> 7 * h - 6],
   demand |-> [h \in Hours |-> s.grid[h] + s.solar_used[h] - s.battery_flow[h] - miss.balance]]

\* A demand is not negative.
MCCases ==
  {c \in {LET x == Solution(i, l, s, m)
           IN [solution |-> x, given |-> Given(i, low, d, d, x, m)] :
            i \in {0, 2, 4, 20, 40}, l \in [1..(H - 1) -> Levels], s \in Days,
            low \in {0, 4}, d \in {0, 2}, m \in Misses} :
     \A h \in Hours : c.given.demand[h] >= 0}
=============================================================================
