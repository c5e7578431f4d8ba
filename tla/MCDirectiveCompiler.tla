------------------------- MODULE MCDirectiveCompiler -------------------------
\* All lists of three directives (no_op stands in for shorter ones) over a
\* window with a gap, the hour in that gap and the whole day.  Factors 4, 5
\* and 6 form a chain within the slack of 1.
EXTENDS DirectiveCompiler

MCSolar == [h \in 0..(H - 1) |-> h]

Windows == {{0, 2}, {1}, {0, 1, 2}}

Entries(kind, amounts) == [kind : {kind}, hours : Windows, amount : amounts]

Choices ==
  Entries("solar_reduction", {4, 5, 6}) \cup Entries("minimum_battery_reserve", {1, 3, 4})
    \cup Entries("max_grid_window", {2, 5}) \cup Entries("no_charge_window", {0})
    \cup Entries("no_discharge_window", {0})
    \cup [kind : {"no_op"}, hours : {{}}, amount : {0}]

MCRequests == {<<d, e, f>> : d, e, f \in Choices}
=============================================================================
