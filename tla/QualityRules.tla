---------------------------- MODULE QualityRules ----------------------------
(***************************************************************************)
(* engine/quality.py: the rules of one tag, over the samples of its last    *)
(* `Lookback'.  A history maps ages to samples; an age is a number of ticks  *)
(* before now, so the newest sample has the smallest.  r is the tag's rows    *)
(* of quality_rule.                                                          *)
(***************************************************************************)
EXTENDS Integers, FiniteSets, FiniteSetsExt

CONSTANT Lookback      \* evaluate_tag's lookback_s, in ticks
ASSUME LookbackAssumption == Lookback \in Nat \ {0}

Null == -1             \* the value of a sample without one

Severe    == {"Bad", "BadNoCommunication"}     \* the codes of severity 2
Qualities == {"Good", "Uncertain"} \cup Severe

Rules    == {"range", "rate_of_change", "cross_tag", "frozen", "stale"}
BadRules == {"range", "stale"}     \* the others make a sample Uncertain

Newest(h) == Min(DOMAIN h)
Oldest(h) == Max(DOMAIN h)
Older(h, a) == {b \in DOMAIN h : b > a}

Distance(a, b) == IF a > b THEN a - b ELSE b - a

CheckRange(value, r) == value # Null /\ (value < r.low \/ value > r.high)

CheckRate(value, previous, ticks, r) ==
  value # Null /\ previous # Null /\ ticks > 0 /\ Distance(value, previous) > r.rate * ticks

\* Within r.percent of the other tag's value, when the unit is in the regime
\* that the gate tag tells.
CheckCross(value, other, gate, r) ==
  /\ gate # Null /\ gate >= r.gate
  /\ value # Null /\ other # Null /\ other # 0
  /\ 100 * Distance(value, other) > r.percent * other

\* Mutant of CheckFrozen: only the samples inside the window are to span it.
CheckFrozen_SpansSlice(h, r) ==
  LET cutoff == Newest(h) + r.frozen
      inside == {a \in DOMAIN h : a < cutoff}
  IN /\ Max(inside) >= cutoff
     /\ \A a, b \in inside : h[a].value = h[b].value

\* The history reaches back across the window, and inside it nothing moved.
CheckFrozen(h, r) ==
  LET cutoff  == Newest(h) + r.frozen
      present == {a \in DOMAIN h : a <= cutoff /\ h[a].value # Null}
  IN /\ Cardinality(DOMAIN h) >= 2 /\ Oldest(h) >= cutoff
     /\ Cardinality(present) >= 2 /\ \A a, b \in present : h[a].value = h[b].value

CheckStale(h, r) == Newest(h) > r.stale

\* Mutant of Flagged: only the last sample is looked at.
Flagged_Last(h, other, gate, r) ==
  {<<a, "range">> : a \in {b \in {Newest(h)} : CheckRange(h[b].value, r)}}
    \cup {<<Newest(h), rule>> : rule \in {x \in {"frozen"} : CheckFrozen(h, r)}
                                   \cup {x \in {"stale"} : CheckStale(h, r)}}

\* evaluate_tag: the flags of a history that is not empty, as <<age, rule>>.
Flagged(h, other, gate, r) ==
  LET a0 == Newest(h)
      last(rule, fires) == IF fires THEN {<<a0, rule>>} ELSE {}
  IN {<<a, "range">> : a \in {b \in DOMAIN h : CheckRange(h[b].value, r)}}
     \cup {<<a, "rate_of_change">> : a \in {b \in DOMAIN h : Older(h, b) # {} /\
              LET p == Min(Older(h, b)) IN CheckRate(h[b].value, h[p].value, p - b, r)}}
     \cup last("cross_tag", CheckCross(h[a0].value, other, gate, r))
     \cup last("frozen", CheckFrozen(h, r))
     \cup last("stale", CheckStale(h, r))

Unknown == [states |-> {}, source |-> "none", computed |-> "none"]
Missing == [states |-> {"missing"}, source |-> "none", computed |-> "Bad"]

\* The row of tag_health: what the source said and what the rules say, apart.
HealthOf(h, flags) ==
  LET a0    == Newest(h)
      rules == {f[2] : f \in flags}
  IN [states |-> (rules \cap {"stale", "frozen"})
                 \cup (IF <<a0, "range">> \in flags THEN {"out_of_range"} ELSE {})
                 \cup (IF h[a0].quality \in Severe THEN {"bad"} ELSE {})
                 \cup (IF h[a0].quality = "BadNoCommunication" THEN {"comm_failed"} ELSE {}),
      source   |-> h[a0].quality,
      computed |-> IF rules \cap BadRules # {} THEN "Bad"
                   ELSE IF rules # {} THEN "Uncertain" ELSE "Good"]
=============================================================================
