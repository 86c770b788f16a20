------------------------------ MODULE MCAnalysis ------------------------------
(* The analysis service on small instances. *)
EXTENDS AnalysisCycle, TLC

S(v, q) == [value |-> v, quality |-> q]
Plain   == S(2, "Good")
Setup(tag, inputs, failing, outages, equations) ==
  [tag |-> tag, inputs |-> inputs, failing |-> failing, outages |-> outages, equations |-> equations]

\* Samples of the tag with rules; inputs of the KPIs; jobs that fail.
Several ==
  {Setup({S(9, "Uncertain")}, {}, {}, TRUE, <<"sum">>),
   Setup({Plain, S(Null, "BadNoCommunication")}, {}, {"events"}, FALSE, <<"sum">>),
   Setup({}, {Plain, S(2, "Uncertain")}, {}, FALSE, <<"ratio">>),
   Setup({}, {S(0, "Good"), S(Null, "Bad")}, {}, FALSE, <<"ratio">>),
   Setup({}, {}, {"quality", "alerts"}, TRUE, <<"ratio", "sum", "broken">>),
   Setup({}, {}, {"kpis"}, FALSE, <<"sum">>)}
Stuck == {Setup({Plain}, {}, {}, FALSE, <<"sum">>)}

\* Two units, one with its coal measured below it; both are fed from one bunker.
Els    == {"station", "unit1", "boiler", "unit2"}
Tree   == [station |-> "none", unit1 |-> "station", boiler |-> "unit1", unit2 |-> "station"]
Tagged == [station |-> <<>>, unit1 |-> [Generation |-> "mw"], boiler |-> [CoalFlow |-> "coal"],
           unit2 |-> [Generation |-> "mw2", CoalFlow |-> "coal"]]
Wants  == [num |-> "CoalFlow", den |-> "Generation"]

Intervals == [kpis |-> 2, quality |-> 2, events |-> 2, alerts |-> 3, capacity |-> 2]
Limits(frozen) == [low |-> 0, high |-> 5, rate |-> 4, percent |-> 20, gate |-> 1, frozen |-> frozen, stale |-> 1]
Short  == Limits(1)
\* U1_GEN_STATOR_TEMP: a window as long as the lookback.
Long   == Limits(Lookback)
=============================================================================
