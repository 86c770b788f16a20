--------------------------------- MODULE Kpi ---------------------------------
(***************************************************************************)
(* engine/kpi.py and the part of engine/service.py that places KPIs: on      *)
(* which elements a definition is computed, what its inputs are, and what    *)
(* it comes to.  A number comes only of Good inputs; everything else is a     *)
(* quality without one.                                                      *)
(***************************************************************************)
EXTENDS Integers, FiniteSets

CONSTANTS
  Elements,
  Parent,      \* parent of each element, or "none"
  TagOf,       \* [Elements -> [attribute -> tag]]: the attributes of each element
  Inputs,      \* variable -> attribute, of every definition
  MaxAge,      \* max_age_s of compute, in ticks
  Low, High    \* validity range

NoValue == -1

ASSUME ElementAssumption == IsFiniteSet(Elements) /\ DOMAIN TagOf = Elements
ASSUME ParentAssumption == Parent \in [Elements -> Elements \cup {"none"}]
ASSUME KpiAssumption    == MaxAge \in Nat /\ Low \in Nat /\ High \in Nat

\* The tree of elements is finite: n generations reach every descendant.
Below[n \in Nat, e \in Elements] ==
  IF n = 0 THEN {e}
  ELSE {e} \cup UNION {Below[n - 1, c] : c \in {d \in Elements : Parent[d] = e}}
Subtree(e) == Below[Cardinality(Elements), e]

Attributes(e) == UNION {DOMAIN TagOf[d] : d \in Subtree(e)}

\* applicable_elements: the lowest elements whose subtree has every attribute.
Applicable(attributes) ==
  LET candidates == {e \in Elements : attributes \subseteq Attributes(e)}
  IN {e \in candidates : \A c \in candidates \ {e} : c \notin Subtree(e)}

Input(value, quality) == [value |-> value, quality |-> quality]
Absent == Input(NoValue, "Bad")

\* Mutant of Resolve: the last value, however old.
Resolve_AnyAge(latest, e, attribute) ==
  LET holders == {d \in Subtree(e) : attribute \in DOMAIN TagOf[d]}
      tag     == TagOf[CHOOSE d \in holders : TRUE][attribute]
  IN IF holders = {} \/ tag \notin DOMAIN latest THEN Absent
     ELSE Input(latest[tag].value, latest[tag].quality)

\* _resolve_inputs for one attribute: the newest sample of its tag, if it is
\* recent enough.
Resolve(latest, e, attribute) ==
  LET holders == {d \in Subtree(e) : attribute \in DOMAIN TagOf[d]}
      tag     == TagOf[CHOOSE d \in holders : TRUE][attribute]
  IN IF holders = {} \/ tag \notin DOMAIN latest \/ latest[tag].age >= MaxAge THEN Absent
     ELSE Input(latest[tag].value, latest[tag].quality)

\* safe_eval: "ratio" divides, "sum" adds, "broken" names what is not an input.
Evaluate(equation, i) ==
  CASE equation = "ratio" /\ i["den"].value # 0 -> Input(i["num"].value \div i["den"].value, "Good")
    [] equation = "ratio" /\ i["den"].value = 0 -> Input(NoValue, "BadOutOfRange")
    [] equation = "sum"    -> Input(i["num"].value + i["den"].value, "Good")
    [] equation = "broken" -> Input(NoValue, "BadNoData")

Compute(equation, i) ==
  LET result == Evaluate(equation, i) IN
  IF \E v \in DOMAIN i : i[v].quality \in {"Bad", "BadNoCommunication"} \/ i[v].value = NoValue
    THEN Input(NoValue, "BadAggregateInvalidInputs")
  ELSE IF \E v \in DOMAIN i : i[v].quality = "Uncertain"
    THEN Input(NoValue, "UncertainSubNormal")
  ELSE IF result.quality = "Good" /\ (result.value < Low \/ result.value > High)
    THEN Input(NoValue, "UncertainEngineeringUnitsExceeded")
  ELSE result
=============================================================================
