------------------------- MODULE MCDirectivePipeline -------------------------
\* Answers about one or two notes, for a day of three hours and a battery of
\* two kWh: every way to state and to mistake the time, the number, the keys
\* and the indices, and all pairs of a pool of sound interpretations.
EXTENDS DirectivePipeline, TLC

MCSolar == [h \in 0..(H - 1) |-> h]

Change(hours, fields, amount) ==
  [hours |-> hours, fields |-> fields, nulls |-> {}, other |-> FALSE, amount |-> amount]
Entry(kind, adjustment) ==
  [kind |-> kind, applies |-> kind # "no_op", adjustment |-> adjustment, blank |-> FALSE]
Trace(window, explicit, basis) == [window |-> window, explicit |-> explicit, basis |-> basis]
Basis0 == {[kind |-> "none", value |-> {}]}
BasisOf(b, v) == {[kind |-> b, value |-> {v}]}

Noted(x, n) == [note |-> n] @@ x

Answer(provider, d, t) ==
  [provider |-> provider, count |-> 1, directives |-> <<Noted(d, 0)>>, traces |-> <<Noted(t, 0)>>]

Providers == {"gemini", "groq"}

\* How the time is stated.
Lists == {<<0>>, <<1>>, <<2>>, <<0, 1>>, <<1, 2>>, <<0, 2>>, <<0, 1, 2>>, <<2, 0>>, <<1, 1>>, <<>>,
          <<2, 3>>}
Windows == [start : Hours, end : 0..H]
Times ==
  {<<{w}, {}>> : w \in Windows} \cup {<<{}, {s}>> : s \in {<<0, 2>>, <<2, 0>>, <<1, 1>>, <<>>}}
    \cup {<<{}, {}>>} \cup {<<{w}, {<<1>>}>> : w \in [start : {1}, end : {2}]}
TimeAnswers ==
  {Answer("gemini", Entry("no_charge_window", {Change(s, {}, 0)}), Trace(t[1], t[2], Basis0)) :
     s \in Lists, t \in Times}

\* How the number is stated.
Bases == {{}} \cup {{[kind |-> b, value |-> v]} :
                      b \in BasisKinds, v \in {{}, {0}, {50}, {52}, {101}, {200}}}
FieldSets == {{}, {"factor", "max_grid_kwh"}} \cup {{f} : f \in Fields}
NumberAnswers ==
  {Answer(p, Entry(k, {Change(<<1>>, fs, a)}), Trace({}, {<<1>>}, b)) :
     p \in Providers, k \in Compiler!Kinds \ {"no_op"}, fs \in FieldSets,
     a \in {0, 49, 51, 100, 200, 201}, b \in Bases}

\* Keys, flags and explanations that do not belong.
WireAnswers ==
  {Answer(p, [kind |-> k, applies |-> on, adjustment |-> adj, blank |-> empty],
          Trace({}, {<<1>>}, b)) :
     p \in Providers, k \in Compiler!Kinds, on \in BOOLEAN, empty \in BOOLEAN, b \in {{}, Basis0},
     adj \in {{}, {Change(<<1>>, {}, 0)}}
             \cup UNION {{{[hours |-> <<1>>, fields |-> fs, nulls |-> ns, other |-> o, amount |-> 50]} :
                            ns \in {{}, {"max_grid_kwh"}, Fields \ fs}, o \in BOOLEAN} : fs \in FieldSets}}
NoOpTrace == Trace({}, {}, {})
NoOpAnswers ==
  {Answer("gemini", Entry("no_op", {}), t) :
     t \in {NoOpTrace, Trace({}, {<<1>>}, {}), Trace({}, {}, Basis0),
            Trace({[start |-> 0, end |-> 1]}, {}, {})}}

\* Notes missing, doubled or out of order.
Indices == {<<>>, <<0>>, <<1>>, <<0, 1>>, <<1, 0>>, <<0, 0>>}
IndexAnswers ==
  {[provider |-> "gemini", count |-> n,
    directives |-> [k \in DOMAIN ds |-> Noted(Entry("no_op", {}), ds[k])],
    traces |-> [k \in DOMAIN ts |-> Noted(NoOpTrace, ts[k])]] :
     n \in 1..2, ds \in Indices, ts \in Indices}

\* Two sound interpretations, in every order and overlap.
Sound(kind, fields, amounts, basis) ==
  {<<Entry(kind, {Change(t[1], fields, a)}), Trace(t[2], t[3], basis)>> :
     t \in {<<<<0, 2>>, {[start |-> 2, end |-> 1]}, {}>>, <<<<1, 2>>, {}, {<<1, 2>>}>>},
     a \in amounts}
Pool ==
  Sound("solar_reduction", {"factor"}, {49, 50, 51}, BasisOf("usable_fraction", 50))
    \cup Sound("solar_reduction", {"factor"}, {50}, BasisOf("reduction_fraction", 50))
    \cup Sound("solar_reduction", {"factor"}, {20}, BasisOf("reduction_fraction", 80))
    \cup Sound("minimum_battery_reserve", {"minimum_energy_kwh"}, {99, 101},
               BasisOf("capacity_fraction", 50))
    \cup Sound("minimum_battery_reserve", {"minimum_energy_kwh"}, {150}, BasisOf("absolute_kwh", 151))
    \cup Sound("max_grid_window", {"max_grid_kwh"}, {30, 31}, BasisOf("absolute_grid_kwh", 30))
    \cup Sound("max_grid_window", {"max_grid_kwh"}, {60}, BasisOf("absolute_grid_kwh", 60))
    \cup Sound("no_charge_window", {}, {0}, Basis0)
    \cup Sound("no_discharge_window", {}, {0}, Basis0)
    \cup {<<Entry("no_op", {}), NoOpTrace>>}
PairAnswers ==
  {[provider |-> "gemini", count |-> 2,
    directives |-> <<Noted(x[1], 0), Noted(y[1], 1)>>,
    traces |-> <<Noted(x[2], 0), Noted(y[2], 1)>>] : x, y \in Pool}

MCAnswers ==
  UNION {TimeAnswers, NumberAnswers, WireAnswers, NoOpAnswers, IndexAnswers, PairAnswers}
=============================================================================
