---------------------------- MODULE AnalysisProofs ----------------------------
(***************************************************************************)
(* Proofs about AnalysisCycle, for every tree of elements, table of tags,    *)
(* interval, lookback and behaviour of the archive: ResultsTraceToEquation,  *)
(* OnlyGoodGivesANumber, ExcursionsFlagged and SilentTroubleSeen.            *)
(*                                                                         *)
(* All rest on what the tables and the loop's variables hold (Typed).  The   *)
(* last two are about time, and share an invariant that says at every step    *)
(* of the loop what the last evaluation saw, told in today's ages (Seen).     *)
(*                                                                         *)
(* The last part is about EventFrames, of which it makes an instance:       *)
(* StartIsAnEdge, for every window, debounce and order of a scan's           *)
(* attributes.                                                             *)
(***************************************************************************)
EXTENDS AnalysisCycle, Extrema

JobNames == {"kpis", "quality", "events", "alerts", "capacity"}

LEMMA JobsFacts ==
  /\ Len(Jobs) = 5 /\ DOMAIN Jobs = 1 .. 5 /\ Range(Jobs) = JobNames
  /\ Jobs[1] = "kpis" /\ Jobs[2] = "quality"
  /\ \A n \in 3 .. 5 : Jobs[n] \notin {"kpis", "quality"}
  /\ Timed = JobNames \ {"kpis"}
<1>1. Len(Jobs) = 5 /\ DOMAIN Jobs = 1 .. 5
  BY DEF Jobs
<1>2. /\ Jobs[1] = "kpis" /\ Jobs[2] = "quality" /\ Jobs[3] = "events" /\ Jobs[4] = "alerts"
      /\ Jobs[5] = "capacity"
  BY DEF Jobs
<1>3. Range(Jobs) = JobNames
  <2>1. Range(Jobs) = {Jobs[n] : n \in 1 .. 5}
    BY <1>1 DEF Range
  <2>2. 1 .. 5 = {1, 2, 3, 4, 5}
    OBVIOUS
  <2> QED BY <2>1, <2>2, <1>2 DEF JobNames
<1>4. \A n \in 3 .. 5 : Jobs[n] \notin {"kpis", "quality"}
  <2>1. \A n \in 3 .. 5 : n = 3 \/ n = 4 \/ n = 5
    OBVIOUS
  <2> QED BY <2>1, <1>2
<1>5. Timed = JobNames \ {"kpis"}
  BY <1>3 DEF Timed
<1> QED BY <1>1, <1>2, <1>3, <1>4, <1>5

\* The job after the one of place n, and asleep after the last.
LEMMA NextJob ==
  pc \in 1 .. 5 => Next1 = IF pc = 5 THEN 0 ELSE pc + 1
BY JobsFacts DEF Next1

Definition == [equation : {"ratio", "sum", "broken"}, current : BOOLEAN]
Reading == [value : {Null} \cup Nat, quality : Qualities, age : 0 .. MaxAge]
Columns == {"result", "age", "equation"}     \* of a row of kpi_value
Pairs(D) == (DOMAIN D) \X Applicable(Attribs)

\* The newest definition is the current one.
DefinitionsOK ==
  /\ definitions \in Seq(Definition) /\ definitions # <<>>
  /\ \A d \in DOMAIN definitions : definitions[d].current <=> d = Len(definitions)

TablesOK ==
  /\ DOMAIN history \subseteq 0 .. Kept /\ DOMAIN waiting \subseteq 0 .. Kept
  /\ \A a \in DOMAIN history : history[a].here \in 0 .. Known
  /\ \A f \in flags : f[1] \in 0 .. Kept /\ f[2] \in Rules
  /\ \A t \in DOMAIN latest : latest[t] \in Reading
  /\ DOMAIN results \subseteq Pairs(definitions)
  /\ \A k \in DOMAIN results : DOMAIN results[k] = Columns

LoopOK ==
  /\ pc \in 0 .. 5 /\ todo \in Seq(Pairs(definitions)) /\ (todo # <<>> => pc = 1)
  /\ down \in BOOLEAN /\ calm \in 0 .. Calm

DueOK ==
  /\ due \in [Timed -> Nat] /\ kpiDue \in [DOMAIN definitions -> Nat]
  /\ due["quality"] <= Every["quality"]

Typed == setting \in Settings /\ DefinitionsOK /\ TablesOK /\ LoopOK /\ DueOK

-----------------------------------------------------------------------------
(* What the constants are, and the operators.                               *)

LEMMA ConstantFacts ==
  /\ Every["quality"] \in Nat /\ Every["quality"] >= 2
  /\ \A j \in JobNames : Every[j] \in Nat
  /\ Calm \in Nat /\ Known \in Nat /\ Known < Calm /\ Kept \in Nat /\ MaxAge \in Nat
  /\ Lookback \in Nat \ {0} /\ Lookback <= Kept
<1>1. \A j \in JobNames : Every[j] \in Nat \ {0, 1}
  BY EveryAssumption, JobsFacts
<1>2. Every["quality"] \in Nat /\ Every["quality"] >= 2
  <2>1. "quality" \in JobNames
    BY DEF JobNames
  <2>2. Every["quality"] \in Nat \ {0, 1}
    BY <1>1, <2>1
  <2> QED BY <2>2
<1>3. Calm \in Nat /\ Known \in Nat /\ Known < Calm
  BY <1>2 DEF Calm, Known
<1> QED BY <1>1, <1>2, <1>3, KeptAssumption, KpiAssumption, LookbackAssumption

LEMMA SettingFacts ==
  ASSUME setting \in Settings
  PROVE  /\ setting.tag \subseteq Sample /\ setting.inputs \subseteq Sample
         /\ setting.equations \in Seq({"ratio", "sum", "broken"}) /\ Len(setting.equations) \in Nat \ {0}
         /\ setting.failing \subseteq JobNames
<1>1. setting \in Setting /\ setting.equations # <<>>
  BY SettingAssumption
<1>2. setting.tag \in SUBSET Sample /\ setting.inputs \in SUBSET Sample
      /\ setting.failing \in SUBSET Range(Jobs) /\ setting.equations \in Seq({"ratio", "sum", "broken"})
  BY <1>1 DEF Setting
<1>3. Len(setting.equations) \in Nat \ {0}
  BY <1>1, <1>2
<1> QED BY <1>2, <1>3, JobsFacts

LEMMA PlacesFinite == IsFiniteSet(Applicable(Attribs))
<1>1. Applicable(Attribs) \subseteq Elements
  BY DEF Applicable
<1> QED BY <1>1, ElementAssumption, FS_Subset

\* A finite set as a sequence of its elements.
LEMMA SetToSeqFacts ==
  ASSUME NEW S, IsFiniteSet(S)
  PROVE  SetToSeq(S) \in Seq(S) /\ (S = {} => SetToSeq(S) = <<>>)
<1>1. Cardinality(S) \in Nat /\ ExistsBijection(1 .. Cardinality(S), S)
  BY FS_CardinalityType
<1>2. PICK f \in Bijection(1 .. Cardinality(S), S) : TRUE
  BY <1>1 DEF ExistsBijection
<1>3. f \in [1 .. Cardinality(S) -> S] /\ IsInjective(f)
  BY <1>2 DEF Bijection, Injection
<1>4. SetToSeq(S) \in [1 .. Cardinality(S) -> S]
  BY <1>3 DEF SetToSeq
<1>5. SetToSeq(S) \in Seq(S)
  BY <1>1, <1>4
<1>6. ASSUME S = {} PROVE SetToSeq(S) = <<>>
  <2>1. Cardinality(S) = 0
    BY <1>6, FS_EmptySet
  <2>2. Len(SetToSeq(S)) = 0
    BY <1>4, <1>5, <2>1
  <2> QED BY <1>5, <2>2
<1> QED BY <1>5, <1>6

LEMMA ProductFacts ==
  ASSUME NEW S, NEW T, NEW x \in S \X T
  PROVE  x[1] \in S /\ x[2] \in T /\ x = <<x[1], x[2]>>
OBVIOUS

LEMMA ProductMonotone ==
  ASSUME NEW S, NEW T, NEW R, R \subseteq S
  PROVE  R \X T \subseteq S \X T
OBVIOUS

LEMMA PairFacts ==
  ASSUME NEW D, NEW x \in Pairs(D)
  PROVE  x[1] \in DOMAIN D /\ x[2] \in Applicable(Attribs) /\ x = <<x[1], x[2]>>
<1> DEFINE A == Applicable(Attribs)
<1>1. x \in (DOMAIN D) \X A
  BY DEF Pairs
<1> HIDE DEF A
<1>2. x[1] \in DOMAIN D /\ x[2] \in A /\ x = <<x[1], x[2]>>
  BY <1>1, ProductFacts
<1> QED BY <1>2 DEF A

\* What is left when the head of a sequence is taken off.
LEMMA TailFacts ==
  ASSUME NEW S, NEW s \in Seq(S), s # <<>>
  PROVE  /\ Head(s) \in S /\ Tail(s) \in Seq(S) /\ Len(s) \in Nat \ {0}
         /\ (Tail(s) = <<>> <=> Len(s) = 1)
<1>1. Head(s) \in S /\ Tail(s) \in Seq(S) /\ Len(s) \in Nat \ {0}
  OBVIOUS
<1>2. Len(Tail(s)) = Len(s) - 1
  OBVIOUS
<1>3. Tail(s) = <<>> <=> Len(Tail(s)) = 0
  <2> DEFINE t == Tail(s)
  <2>1. t \in Seq(S)
    BY <1>1
  <2> HIDE DEF t
  <2>2. t = <<>> <=> Len(t) = 0
    BY <2>1
  <2> QED BY <2>2 DEF t
<1> QED BY <1>1, <1>2, <1>3

\* A later definition leaves what the earlier ones say, except which is current.
LEMMA SupersededFacts ==
  ASSUME DefinitionsOK, NEW equation \in {"ratio", "sum", "broken"}
  PROVE  LET new == Superseded(equation) IN
         /\ new \in Seq(Definition) /\ Len(new) = Len(definitions) + 1
         /\ \A d \in DOMAIN new : new[d].current <=> d = Len(new)
         /\ \A d \in DOMAIN definitions : d \in DOMAIN new /\ new[d].equation = definitions[d].equation
<1> DEFINE n == Len(definitions)
<1>n. n \in Nat /\ n > 0 /\ definitions \in Seq(Definition) /\ n = Len(definitions)
  BY DEF DefinitionsOK
<1> DEFINE closed == [definitions EXCEPT ![n].current = FALSE]
           last == [equation |-> equation, current |-> TRUE]
<1>1. /\ definitions \in Seq(Definition) /\ definitions # <<>> /\ n \in Nat \ {0}
      /\ DOMAIN definitions = 1 .. n /\ n = Len(definitions)
      /\ \A d \in 1 .. n : definitions[d] \in Definition /\ (definitions[d].current <=> d = n)
  BY DEF DefinitionsOK
<1> HIDE DEF n
<1>2. \A x \in Definition : [x EXCEPT !.current = FALSE] \in Definition
                            /\ [x EXCEPT !.current = FALSE].equation = x.equation
                            /\ [x EXCEPT !.current = FALSE].current = FALSE
  BY DEF Definition
<1>3. /\ DOMAIN closed = 1 .. n
      /\ \A d \in 1 .. n : closed[d] = IF d = n THEN [definitions[n] EXCEPT !.current = FALSE] ELSE definitions[d]
  BY <1>1
<1>4. \A d \in 1 .. n : /\ closed[d] \in Definition /\ closed[d].equation = definitions[d].equation
                        /\ ~ closed[d].current
  BY <1>1, <1>2, <1>3
<1>5. closed \in Seq(Definition) /\ Len(closed) = n
  <2>1. closed \in [1 .. n -> Definition]
    BY <1>3, <1>4
  <2> HIDE DEF closed
  <2> QED BY <1>n, <2>1
<1>6. last \in Definition /\ last.current
  BY DEF Definition
<1> HIDE DEF last
<1> HIDE DEF closed
<1>7. Superseded(equation) = Append(closed, last)
  BY DEF Superseded, closed, last, n
<1>8. /\ Append(closed, last) \in Seq(Definition) /\ Len(Append(closed, last)) = n + 1
      /\ DOMAIN Append(closed, last) = 1 .. n + 1
      /\ \A d \in 1 .. n : Append(closed, last)[d] = closed[d]
      /\ Append(closed, last)[n + 1] = last
  BY <1>n, <1>5, <1>6
<1>9. \A d \in 1 .. n + 1 : d \in 1 .. n \/ d = n + 1
  BY <1>n
<1>10. \A d \in 1 .. n + 1 : Append(closed, last)[d].current <=> d = n + 1
  <2>1. ASSUME NEW d \in 1 .. n PROVE Append(closed, last)[d].current <=> d = n + 1
    <3>1. ~ Append(closed, last)[d].current
      BY <1>4, <1>8
    <3>2. d # n + 1
      BY <1>n
    <3> QED BY <3>1, <3>2
  <2> QED BY <1>6, <1>8, <1>9, <2>1
<1>11. \A d \in 1 .. n : d \in 1 .. n + 1 /\ Append(closed, last)[d].equation = definitions[d].equation
  BY <1>n, <1>4, <1>8
<1> QED BY <1>1, <1>n, <1>7, <1>8, <1>10, <1>11

-----------------------------------------------------------------------------
(* Every action keeps the types.                                            *)

LEMMA TypedInit == Init => Typed
<1> SUFFICES ASSUME Init PROVE Typed
  OBVIOUS
<1> USE DEF Init
<1>1. DefinitionsOK
  <2>1. setting.equations \in Seq({"ratio", "sum", "broken"}) /\ Len(setting.equations) \in Nat \ {0}
    BY SettingFacts
  <2>2. setting.equations[1] \in {"ratio", "sum", "broken"}
    BY <2>1
  <2>3. [equation |-> setting.equations[1], current |-> TRUE] \in Definition
    BY <2>2 DEF Definition
  <2> QED BY <2>3 DEF DefinitionsOK
<1>2. TablesOK
  BY DEF TablesOK
<1>3. LoopOK
  <2>1. down \in BOOLEAN
    OBVIOUS
  <2>2. pc \in 0 .. 5 /\ calm \in 0 .. Calm
    BY ConstantFacts
  <2>3. todo = <<>> /\ todo \in Seq(Pairs(definitions))
    OBVIOUS
  <2> HIDE DEF Init
  <2> QED BY <2>1, <2>2, <2>3 DEF LoopOK
<1>4. DueOK
  <2>1. DOMAIN definitions = {1} /\ kpiDue \in [{1} -> Nat]
    OBVIOUS
  <2>2. "quality" \in Timed
    BY JobsFacts DEF JobNames
  <2> QED BY <2>1, <2>2, ConstantFacts DEF DueOK
<1> QED BY <1>1, <1>2, <1>3, <1>4 DEF Typed

\* An interval is up to its job's.
LEMMA DueFacts ==
  ASSUME DueOK, NEW j \in Timed, NEW ok
  PROVE  Due(j, ok) \in [Timed -> Nat] /\ Due(j, ok)["quality"] <= Every["quality"]
<1>1. Every[j] \in Nat /\ due \in [Timed -> Nat] /\ "quality" \in Timed
  BY ConstantFacts, JobsFacts DEF JobNames, DueOK
<1>2. Due(j, ok) \in [Timed -> Nat]
  BY <1>1 DEF Due
<1>3. CASE j = "quality"
  BY <1>1, <1>2, <1>3, ConstantFacts DEF Due
<1>4. CASE j # "quality"
  BY <1>1, <1>2, <1>4 DEF Due, DueOK
<1> QED BY <1>2, <1>3, <1>4

LEMMA TypedLoad == Typed /\ Load => Typed'
<1> SUFFICES ASSUME Typed, Load PROVE Typed'
  OBVIOUS
<1> USE DEF Typed
<1>1. UNCHANGED <<setting, tables, waiting, down, due, kpiDue>>
  BY DEF Load, Fail
<1>2. setting' \in Settings /\ DefinitionsOK' /\ TablesOK' /\ DueOK'
  BY <1>1 DEF tables, DefinitionsOK, TablesOK, DueOK
<1>3. pc = 1 /\ todo = <<>>
  BY JobsFacts DEF Load, Job, LoopOK
<1>4. CASE down
  <2>1. pc' = 0 /\ todo' = <<>> /\ calm' = 0
    BY <1>4 DEF Load, Fail
  <2>2. LoopOK'
    BY <1>1, <2>1, ConstantFacts DEF LoopOK
  <2> QED BY <1>2, <2>2
<1>5. CASE ~ down
  <2> DEFINE ready == {d \in DOMAIN definitions : definitions[d].current /\ kpiDue[d] = 0}
             pairs == ready \X Applicable(Attribs)
  <2>1. /\ todo' = SetToSeq(pairs) /\ calm' = calm
        /\ IF pairs = {} THEN pc' = Next1 ELSE pc' = pc
    BY <1>5 DEF Load
  <2>2. IsFiniteSet(pairs)
    <3>1. DOMAIN definitions = 1 .. Len(definitions) /\ Len(definitions) \in Nat
      BY DEF DefinitionsOK
    <3>2. IsFiniteSet(DOMAIN definitions)
      BY <3>1, FS_Interval
    <3>3. IsFiniteSet(ready)
      BY <3>2, FS_Subset
    <3> QED BY <3>3, PlacesFinite, FS_Product
  <2>3. SetToSeq(pairs) \in Seq(pairs) /\ (pairs = {} => SetToSeq(pairs) = <<>>)
    BY <2>2, SetToSeqFacts
  <2>4. pairs \subseteq Pairs(definitions)
    <3>1. ready \subseteq DOMAIN definitions
      OBVIOUS
    <3> HIDE DEF ready
    <3>2. ready \X Applicable(Attribs) \subseteq (DOMAIN definitions) \X Applicable(Attribs)
      BY <3>1, ProductMonotone
    <3> QED BY <3>2 DEF Pairs
  <2> HIDE DEF pairs
  <2>5. todo' \in Seq(Pairs(definitions))
    BY <2>1, <2>3, <2>4
  <2>6. Pairs(definitions)' = Pairs(definitions)
    BY <1>1 DEF tables, Pairs
  <2>7. Next1 = 2
    BY <1>3, NextJob
  <2>8. pc' \in 1 .. 2 /\ (todo' # <<>> => pc' = 1)
    BY <1>3, <2>1, <2>3, <2>7
  <2>9. LoopOK'
    BY <1>1, <1>5, <2>1, <2>5, <2>6, <2>8 DEF LoopOK
  <2> QED BY <1>2, <2>9
<1> QED BY <1>4, <1>5

LEMMA TypedRunKpi == Typed /\ RunKpi => Typed'
<1> SUFFICES ASSUME Typed, RunKpi PROVE Typed'
  OBVIOUS
<1> USE DEF Typed
<1> DEFINE d == Head(todo)[1]
           e == Head(todo)[2]
<1>1. pc = 1 /\ todo # <<>> /\ todo \in Seq(Pairs(definitions))
  BY JobsFacts DEF RunKpi, Job, LoopOK
<1>2. /\ Head(todo) \in Pairs(definitions) /\ Tail(todo) \in Seq(Pairs(definitions)) /\ Len(todo) \in Nat \ {0}
      /\ (Tail(todo) = <<>> <=> Len(todo) = 1)
  BY <1>1, TailFacts
<1>3. d \in DOMAIN definitions /\ <<d, e>> \in Pairs(definitions)
  BY <1>2, PairFacts
<1>4. /\ UNCHANGED <<due, setting, history, latest, flags, health, definitions, waiting, down>>
      /\ kpiDue' = [kpiDue EXCEPT ![d] = Every["kpis"]]
  BY DEF RunKpi, Fail, tables
<1>5. Every["kpis"] \in Nat
  BY ConstantFacts DEF JobNames
<1>6. kpiDue' \in [DOMAIN definitions -> Nat]
  BY <1>4, <1>5 DEF DueOK
<1>7. setting' \in Settings /\ DefinitionsOK' /\ DueOK'
  BY <1>4, <1>6 DEF DefinitionsOK, DueOK
<1>8. Pairs(definitions)' = Pairs(definitions)
  BY <1>4 DEF Pairs
<1>9. CASE ~ Works("kpis")
  <2>1. UNCHANGED results /\ pc' = 0 /\ todo' = <<>> /\ calm' = 0
    BY <1>9 DEF RunKpi, Fail, tables
  <2>2. TablesOK'
    BY <1>4, <1>8, <2>1 DEF TablesOK
  <2>3. LoopOK'
    BY <1>1, <1>4, <2>1, ConstantFacts DEF LoopOK
  <2> QED BY <1>7, <2>2, <2>3
<1>10. CASE Works("kpis")
  <2>1. /\ \E row : DOMAIN row = Columns /\ results' = With(results, <<d, e>>, row)
        /\ todo' = Tail(todo) /\ pc' = (IF Len(todo) = 1 THEN Next1 ELSE pc) /\ calm' = calm
    BY <1>10 DEF RunKpi, Entry, Columns
  <2>2. TablesOK'
    <3> DEFINE key == <<d, e>>
    <3>1. key \in Pairs(definitions) /\ \E row : DOMAIN row = Columns /\ results' = With(results, key, row)
      BY <1>3, <2>1
    <3> HIDE DEF key
    <3>2. PICK row : DOMAIN row = Columns /\ results' = With(results, key, row)
      BY <3>1
    <3>3. /\ DOMAIN results' = DOMAIN results \cup {key} /\ results'[key] = row
          /\ \A k \in DOMAIN results : k # key => results'[k] = results[k]
      BY <3>2 DEF With
    <3> QED BY <1>4, <1>8, <3>1, <3>2, <3>3 DEF TablesOK
  <2>3. LoopOK'
    <3>1. Next1 = 2
      BY <1>1, NextJob
    <3>2. todo' \in Seq(Pairs(definitions)') /\ pc' \in 1 .. 2 /\ (todo' # <<>> => pc' = 1)
      BY <1>1, <1>2, <1>8, <2>1, <3>1
    <3> QED BY <1>1, <1>4, <2>1, <3>2 DEF LoopOK
  <2> QED BY <1>7, <2>2, <2>3
<1> QED BY <1>9, <1>10

\* The flags of a history are of its own ages.
LEMMA FlaggedFacts ==
  ASSUME NEW h, DOMAIN h \subseteq Nat, DOMAIN h # {}, NEW other, NEW gate, NEW r
  PROVE  /\ \A f \in Flagged(h, other, gate, r) : f[1] \in DOMAIN h /\ f[2] \in Rules
         /\ \A a \in DOMAIN h : CheckRange(h[a].value, r) => <<a, "range">> \in Flagged(h, other, gate, r)
         /\ CheckFrozen(h, r) => <<Newest(h), "frozen">> \in Flagged(h, other, gate, r)
         /\ CheckStale(h, r) => <<Newest(h), "stale">> \in Flagged(h, other, gate, r)
<1>1. Newest(h) \in DOMAIN h
  BY MinIsLeast DEF Newest
<1> QED BY <1>1 DEF Flagged, Rules

LEMMA WindowFacts ==
  ASSUME TablesOK
  PROVE  /\ DOMAIN Window = {a \in DOMAIN history : a < Lookback}
         /\ DOMAIN Window \subseteq Nat /\ DOMAIN Window \subseteq DOMAIN history
         /\ \A a \in DOMAIN Window : Window[a] = history[a]
BY ConstantFacts DEF Window, TablesOK

LEMMA TypedQuality == Typed /\ RunQuality => Typed'
<1> SUFFICES ASSUME Typed, RunQuality PROVE Typed'
  OBVIOUS
<1> USE DEF Typed
<1>1. /\ UNCHANGED <<setting, waiting, down, calm, todo, kpiDue, history, latest, definitions, results>>
      /\ due' = Due("quality", TRUE) /\ pc' = Next1 /\ pc \in 1 .. 5 /\ Jobs[pc] = "quality"
  BY DEF RunQuality, Finish, Job, Works, LoopOK
<1>2. "quality" \in Timed
  BY JobsFacts DEF JobNames
<1>3. DueOK'
  BY <1>1, <1>2, DueFacts DEF DueOK
<1>4. pc # 1 /\ pc' \in 0 .. 5
  BY <1>1, JobsFacts, NextJob
<1>5. LoopOK'
  BY <1>1, <1>4 DEF LoopOK, Pairs
<1>6. TablesOK'
  <2>1. CASE UNCHANGED flags
    BY <1>1, <2>1 DEF TablesOK, Pairs
  <2>2. CASE DOMAIN Window # {} /\ flags' = flags \cup Flagged(Window, Other, Other, RuleRows)
    <3>1. \A f \in Flagged(Window, Other, Other, RuleRows) : f[1] \in 0 .. Kept /\ f[2] \in Rules
      BY <2>2, WindowFacts, FlaggedFacts DEF TablesOK
    <3> QED BY <1>1, <2>2, <3>1 DEF TablesOK, Pairs
  <2> QED BY <2>1, <2>2 DEF RunQuality
<1> QED BY <1>1, <1>3, <1>5, <1>6 DEF DefinitionsOK

LEMMA TypedOther ==
  ASSUME Typed, NEW j \in JobNames \ {"kpis"}, Skip(j) \/ FailJob(j) \/ RunOther(j)
  PROVE  Typed'
<1> USE DEF Typed
<1>1. UNCHANGED <<setting, tables, waiting, down, kpiDue>> /\ (due' = due \/ \E ok \in BOOLEAN : due' = Due(j, ok))
  BY DEF Skip, FailJob, Fail, RunOther, Finish
<1>2. j \in Timed
  BY JobsFacts
<1>3. DueOK'
  BY <1>1, <1>2, DueFacts DEF DueOK, tables
<1>4. pc \in 2 .. 5
  <2>a. pc # 0 /\ Jobs[pc] = j
    BY DEF Skip, FailJob, RunOther, Finish, Job
  <2>b. pc \in 0 .. 5
    BY DEF LoopOK
  <2>1. pc \in 1 .. 5 /\ Jobs[pc] = j
    BY <2>a, <2>b
  <2> QED BY <2>1, JobsFacts
<1>5. \/ pc' = 0 /\ todo' = <<>> /\ calm' \in {0, calm}
      \/ pc' = Next1 /\ todo' = todo /\ calm' = calm
  BY DEF Skip, FailJob, Fail, RunOther, Finish
<1>6. pc' \in 0 .. 5 /\ pc' # 1
  BY <1>4, <1>5, NextJob
<1>7. LoopOK'
  <2>1. todo = <<>> /\ todo' = <<>>
    BY <1>4, <1>5 DEF LoopOK
  <2>2. calm' \in 0 .. Calm
    BY <1>5, ConstantFacts DEF LoopOK
  <2> QED BY <1>1, <1>4, <1>6, <2>1, <2>2 DEF LoopOK
<1> QED BY <1>1, <1>3, <1>7 DEF tables, DefinitionsOK, TablesOK

LEMMA ShiftedFacts ==
  ASSUME NEW h, DOMAIN h \subseteq 0 .. Kept
  PROVE  /\ DOMAIN Shifted(h) = {b + 1 : b \in DOMAIN h \ {Kept}}
         /\ DOMAIN Shifted(h) \subseteq 1 .. Kept
         /\ \A a \in DOMAIN Shifted(h) : a - 1 \in DOMAIN h /\ Shifted(h)[a] = h[a - 1]
<1>1. DOMAIN Shifted(h) = {b + 1 : b \in DOMAIN h \ {Kept}}
      /\ \A a \in DOMAIN Shifted(h) : Shifted(h)[a] = h[a - 1]
  BY DEF Shifted
<1>2. ASSUME NEW b \in DOMAIN h \ {Kept} PROVE b + 1 \in 1 .. Kept /\ b + 1 - 1 = b
  BY ConstantFacts
<1> QED BY <1>1, <1>2

LEMMA StoredFacts ==
  ASSUME NEW s, NEW n \in Nat
  PROVE  /\ Stored(s, n).value = s.value /\ Stored(s, n).here \in 0 .. Known
         /\ Stored(s, n).here <= n
<1>1. Stored(s, n).value = s.value /\ Stored(s, n).here = Clamp(n, Known)
  BY DEF Stored
<1>2. Clamp(n, Known) \in 0 .. Known /\ Clamp(n, Known) <= n
  BY ConstantFacts DEF Clamp
<1> QED BY <1>1, <1>2

\* What a tick leaves: the history older, and what arrives, which nobody has seen.
LEMMA TickHistory ==
  ASSUME Typed, Tick
  PROVE  /\ DOMAIN history' \subseteq 0 .. Kept /\ DOMAIN waiting' \subseteq 0 .. Kept
         /\ \A a \in DOMAIN history' : history'[a].here \in 0 .. Known
         /\ \A a \in DOMAIN history' : history'[a].here # 0 =>
              /\ a - 1 \in DOMAIN history /\ history'[a].value = history[a - 1].value
              /\ history'[a].here <= history[a - 1].here + 1
         /\ \A b \in DOMAIN history : b # Kept => b + 1 \in DOMAIN history'
<1> USE DEF Typed
<1>1. /\ DOMAIN history \subseteq 0 .. Kept /\ DOMAIN waiting \subseteq 0 .. Kept
      /\ \A a \in DOMAIN history : history[a].here \in 0 .. Known
  BY DEF TablesOK
<1> DEFINE h == Shifted(history)
           w == Shifted(waiting)
<1>2. /\ DOMAIN h = {b + 1 : b \in DOMAIN history \ {Kept}} /\ DOMAIN h \subseteq 1 .. Kept
      /\ \A a \in DOMAIN h : a - 1 \in DOMAIN history /\ h[a] = history[a - 1]
      /\ DOMAIN w \subseteq 1 .. Kept
  BY <1>1, ShiftedFacts
<1>3. Samples(w) \/ \E s \in setting.tag : Samples(With(w, 0, s))
  BY DEF Tick
<1> HIDE DEF h, w
<1>4. PICK held : DOMAIN held \subseteq 0 .. Kept /\ Samples(held)
  <2>1. \A s : DOMAIN With(w, 0, s) = DOMAIN w \cup {0}
    BY DEF With
  <2>2. 0 \in 0 .. Kept /\ 1 .. Kept \subseteq 0 .. Kept
    BY ConstantFacts
  <2> QED BY <1>2, <1>3, <2>1, <2>2
<1>5. PICK new \in Arrivals(held) : /\ history' = Arrived(h, held, new)
                                   /\ waiting' = [a \in DOMAIN held \ new |-> held[a]]
  BY <1>4 DEF Samples, h
<1>6. new \subseteq 0 .. Kept
  BY <1>4 DEF Arrivals
<1>7. /\ DOMAIN history' = DOMAIN h \cup new
      /\ \A a \in new : history'[a] = Stored(held[a], 0)
      /\ \A a \in DOMAIN h \ new : history'[a] = Stored(h[a], h[a].here + 1)
  BY <1>5 DEF Arrived
<1>8. DOMAIN history' \subseteq 0 .. Kept /\ DOMAIN waiting' \subseteq 0 .. Kept
  <2>1. 1 .. Kept \subseteq 0 .. Kept
    OBVIOUS
  <2> QED BY <1>2, <1>4, <1>5, <1>6, <1>7, <2>1
<1>9. ASSUME NEW a \in new PROVE history'[a].here = 0
  <2>1. Stored(held[a], 0).here \in 0 .. Known /\ Stored(held[a], 0).here <= 0
    BY StoredFacts
  <2> QED BY <1>7, <2>1, ConstantFacts
<1>10. ASSUME NEW a \in DOMAIN h \ new
       PROVE  /\ a - 1 \in DOMAIN history /\ history'[a].value = history[a - 1].value
              /\ history'[a].here \in 0 .. Known /\ history'[a].here <= history[a - 1].here + 1
  <2>1. a - 1 \in DOMAIN history /\ h[a] = history[a - 1]
    BY <1>2
  <2>2. h[a].here \in Nat /\ h[a].here + 1 \in Nat
    BY <1>1, <2>1, ConstantFacts
  <2>3. /\ Stored(h[a], h[a].here + 1).value = h[a].value /\ Stored(h[a], h[a].here + 1).here \in 0 .. Known
        /\ Stored(h[a], h[a].here + 1).here <= h[a].here + 1
    BY <2>2, StoredFacts
  <2> QED BY <1>7, <2>1, <2>3
<1>11. \A a \in DOMAIN history' : history'[a].here \in 0 .. Known
  <2>1. 0 \in 0 .. Known
    BY ConstantFacts
  <2> QED BY <1>7, <1>9, <1>10, <2>1
<1>12. \A b \in DOMAIN history : b # Kept => b + 1 \in DOMAIN history'
  BY <1>2, <1>7
<1> QED BY <1>7, <1>8, <1>9, <1>10, <1>11, <1>12

LEMMA Less1Facts ==
  ASSUME NEW n \in Nat
  PROVE  Less1(n) \in Nat /\ Less1(n) <= n /\ (n # 0 => Less1(n) = n - 1)
BY DEF Less1

\* What a tick leaves of the times.
LEMMA TickTimes ==
  ASSUME Typed, Tick
  PROVE  /\ due["quality"] \in Nat /\ due' \in [Timed -> Nat] /\ due'["quality"] = Less1(due["quality"])
         /\ down' \in BOOLEAN /\ calm' \in 0 .. Calm /\ calm' <= calm + 1
<1> USE DEF Typed
<1>1. "quality" \in Timed /\ due \in [Timed -> Nat]
  BY JobsFacts DEF JobNames, DueOK
<1>2. due' = [j \in Timed |-> Less1(due[j])]
  BY DEF Tick
<1>3. due["quality"] \in Nat /\ due' \in [Timed -> Nat] /\ due'["quality"] = Less1(due["quality"])
  BY <1>1, <1>2, Less1Facts
<1>4. calm \in 0 .. Calm /\ Calm \in Nat
  BY ConstantFacts DEF LoopOK
<1>5. down' \in BOOLEAN
  BY DEF Tick
<1>6. calm' = 0 \/ calm' = Clamp(calm + 1, Calm)
  BY DEF Tick
<1>7. calm' \in 0 .. Calm /\ calm' <= calm + 1
  BY <1>4, <1>6 DEF Clamp
<1> QED BY <1>3, <1>5, <1>7

LEMMA TickReadings ==
  ASSUME Typed, Tick
  PROVE  \A t \in DOMAIN latest' : latest'[t] \in Reading
<1> USE DEF Typed
<1>1. \A t \in DOMAIN latest : latest[t] \in Reading
  BY DEF TablesOK
<1> DEFINE ages == IF setting.outages THEN 0 .. MaxAge ELSE {0}
           given == setting.inputs \X ages
<1>2. PICK new \in [Tags -> given \cup {<<>>}] :
        latest' = [t \in {u \in Tags : new[u] # <<>> \/ u \in DOMAIN latest} |-> Latest(t, new[t])]
  BY DEF Tick, Readings
<1>3. \A s \in setting.inputs, age \in ages :
        [value |-> s.value, quality |-> s.quality, age |-> age] \in Reading
  BY SettingFacts, ConstantFacts DEF Sample, Reading
<1>4. \A s \in Reading : Older1(s) \in Reading
  <2> SUFFICES ASSUME NEW s \in Reading PROVE Older1(s) \in Reading
    OBVIOUS
  <2>1. s.age \in 0 .. MaxAge /\ MaxAge \in Nat
    BY ConstantFacts DEF Reading
  <2>2. Clamp(s.age + 1, MaxAge) \in 0 .. MaxAge
    BY <2>1 DEF Clamp
  <2>3. Older1(s) = [s EXCEPT !.age = Clamp(s.age + 1, MaxAge)]
    BY DEF Older1
  <2> HIDE DEF Reading
  <2> QED BY <2>2, <2>3 DEF Reading
<1> SUFFICES ASSUME NEW t \in DOMAIN latest' PROVE latest'[t] \in Reading
  OBVIOUS
<1> HIDE DEF ages
<1>5. /\ t \in Tags /\ (new[t] # <<>> \/ t \in DOMAIN latest) /\ latest'[t] = Latest(t, new[t])
      /\ (new[t] = <<>> \/ new[t] \in given)
  BY <1>2
<1>6. CASE t \in DOMAIN latest /\ latest'[t] = Older1(latest[t])
  BY <1>1, <1>4, <1>6
<1>7. CASE new[t] \in given /\ latest'[t] = [value |-> new[t][1].value, quality |-> new[t][1].quality, age |-> new[t][2]]
  <2>1. new[t][1] \in setting.inputs /\ new[t][2] \in ages
    BY <1>7
  <2> QED BY <1>3, <1>7, <2>1
<1> QED BY <1>5, <1>6, <1>7 DEF Latest

LEMMA TypedTick == Typed /\ Tick => Typed'
<1> SUFFICES ASSUME Typed, Tick PROVE Typed'
  OBVIOUS
<1>1. /\ UNCHANGED <<setting, definitions, todo>> /\ pc = 0 /\ pc' = 1
      /\ flags' = Aged(flags)
      /\ results' = [k \in DOMAIN results |-> [results[k] EXCEPT !.age = 1]]
      /\ kpiDue' = [d \in DOMAIN definitions |-> Less1(kpiDue[d])]
  BY DEF Tick
<1>2. setting' \in Settings /\ DefinitionsOK'
  BY <1>1 DEF Typed, DefinitionsOK
<1>3. LoopOK'
  <2>1. todo = <<>> /\ todo' = <<>>
    BY <1>1 DEF Typed, LoopOK
  <2> QED BY <1>1, <2>1, TickTimes DEF LoopOK
<1>4. DueOK'
  <2>1. due'["quality"] <= Every["quality"] /\ due' \in [Timed -> Nat]
    BY TickTimes, Less1Facts, ConstantFacts DEF Typed, DueOK
  <2>2. kpiDue' \in [DOMAIN definitions -> Nat]
    BY <1>1, Less1Facts DEF Typed, DueOK
  <2> QED BY <1>1, <2>1, <2>2 DEF DueOK
<1>5. TablesOK'
  <2>1. \A f \in flags' : f[1] \in 0 .. Kept /\ f[2] \in Rules
    <3>1. \A f \in flags : f[1] \in 0 .. Kept /\ f[2] \in Rules
      BY DEF Typed, TablesOK
    <3>2. \A f \in flags : f[1] < Kept => f[1] + 1 \in 0 .. Kept
      BY <3>1, ConstantFacts
    <3> QED BY <1>1, <3>1, <3>2 DEF Aged
  <2>2. DOMAIN results' \subseteq Pairs(definitions')
    BY <1>1 DEF Typed, TablesOK, Pairs
  <2>3. \A k \in DOMAIN results' : DOMAIN results'[k] = Columns
    BY <1>1 DEF Typed, TablesOK
  <2> QED BY <2>1, <2>2, <2>3, TickHistory, TickReadings DEF TablesOK
<1> QED BY <1>2, <1>3, <1>4, <1>5 DEF Typed

LEMMA TypedSeed == Typed /\ Seed => Typed'
<1> SUFFICES ASSUME Typed, Seed PROVE Typed'
  OBVIOUS
<1> USE DEF Typed
<1> DEFINE equation == setting.equations[Len(definitions) + 1]
<1>1. /\ UNCHANGED <<setting, history, latest, flags, results, waiting, down, calm, pc, todo, due>>
      /\ Len(definitions) < Len(setting.equations) /\ definitions' = Superseded(equation)
      /\ kpiDue' = [d \in DOMAIN definitions' |-> IF d \in DOMAIN kpiDue THEN kpiDue[d] ELSE 0]
  BY DEF Seed
<1>2. Len(definitions) \in Nat
  BY DEF DefinitionsOK
<1>3. equation \in {"ratio", "sum", "broken"}
  BY <1>1, <1>2, SettingFacts
<1> HIDE DEF equation
<1>4. /\ definitions' \in Seq(Definition) /\ Len(definitions') = Len(definitions) + 1
      /\ \A d \in DOMAIN definitions' : definitions'[d].current <=> d = Len(definitions')
      /\ \A d \in DOMAIN definitions : d \in DOMAIN definitions'
  BY <1>1, <1>3, SupersededFacts
<1>5. DefinitionsOK'
  BY <1>2, <1>4 DEF DefinitionsOK
<1>6. Pairs(definitions) \subseteq Pairs(definitions')
  <2>1. DOMAIN definitions \subseteq DOMAIN definitions'
    BY <1>4
  <2> QED BY <2>1, ProductMonotone DEF Pairs
<1>7. TablesOK'
  BY <1>1, <1>6 DEF TablesOK
<1>8. LoopOK'
  <2>1. todo' \in Seq(Pairs(definitions'))
    BY <1>1, <1>6 DEF LoopOK
  <2> QED BY <1>1, <2>1 DEF LoopOK
<1>9. DueOK'
  <2>1. kpiDue' \in [DOMAIN definitions' -> Nat]
    BY <1>1 DEF DueOK
  <2> QED BY <1>1, <2>1 DEF DueOK
<1> QED BY <1>1, <1>5, <1>7, <1>8, <1>9

LEMMA TypedNext == Typed /\ [Next]_vars => Typed'
<1> SUFFICES ASSUME Typed, [Next]_vars PROVE Typed'
  OBVIOUS
<1>1. CASE Engine
  BY <1>1, TypedLoad, TypedRunKpi, TypedQuality, TypedOther, JobsFacts DEF Engine
<1>2. CASE UNCHANGED vars
  BY <1>2 DEF vars, tables, Typed, DefinitionsOK, TablesOK, LoopOK, DueOK
<1>3. CASE Lose
  <2>1. UNCHANGED <<setting, tables, waiting, calm, pc, todo, due, kpiDue>> /\ down' = TRUE
    BY <1>3 DEF Lose
  <2> QED BY <2>1 DEF tables, Typed, DefinitionsOK, TablesOK, LoopOK, DueOK, Pairs
<1> QED BY <1>1, <1>2, <1>3, TypedTick, TypedSeed DEF Next

LEMMA AlwaysTyped == Spec => []Typed
BY TypedInit, TypedNext, PTL DEF Spec

-----------------------------------------------------------------------------
(* Results and the definitions and inputs that they came of.                *)

LEMMA TraceNext == Typed /\ ResultsTraceToEquation /\ [Next]_vars => ResultsTraceToEquation'
<1> SUFFICES ASSUME Typed, ResultsTraceToEquation, [Next]_vars PROVE ResultsTraceToEquation'
  OBVIOUS
<1> USE DEF ResultsTraceToEquation
<1>1. CASE UNCHANGED <<results, definitions>>
  BY <1>1
<1>2. CASE RunKpi /\ Works("kpis")
  <2> DEFINE d == Head(todo)[1]
             e == Head(todo)[2]
  <2>1. /\ definitions' = definitions
        /\ \E row : row.equation = definitions[d].equation /\ results' = With(results, <<d, e>>, row)
    BY <1>2 DEF RunKpi, Entry
  <2>2. PICK row : row.equation = definitions[d].equation /\ results' = With(results, <<d, e>>, row)
    BY <2>1
  <2> HIDE DEF d, e
  <2> DEFINE key == <<d, e>>
  <2>3. key[1] = d /\ results' = With(results, key, row)
    BY <2>2
  <2> HIDE DEF key
  <2>4. /\ DOMAIN results' = DOMAIN results \cup {key} /\ results'[key] = row
        /\ \A k \in DOMAIN results : k # key => results'[k] = results[k]
    BY <2>3 DEF With
  <2> QED BY <2>1, <2>2, <2>3, <2>4
<1>3. CASE Tick
  <2>1. definitions' = definitions /\ results' = [k \in DOMAIN results |-> [results[k] EXCEPT !.age = 1]]
    BY <1>3 DEF Tick
  <2>2. \A k \in DOMAIN results : results'[k].equation = results[k].equation
    <3>1. \A k \in DOMAIN results : DOMAIN results[k] = Columns
      BY DEF Typed, TablesOK
    <3> QED BY <2>1, <3>1 DEF Columns
  <2> QED BY <2>1, <2>2
<1>4. CASE Seed
  <2> DEFINE equation == setting.equations[Len(definitions) + 1]
  <2>1. results' = results /\ definitions' = Superseded(equation) /\ Len(definitions) < Len(setting.equations)
    BY <1>4 DEF Seed
  <2>2. equation \in {"ratio", "sum", "broken"}
    BY <2>1, SettingFacts DEF Typed, DefinitionsOK
  <2> HIDE DEF equation
  <2>3. \A x \in DOMAIN definitions : definitions'[x].equation = definitions[x].equation
    BY <2>1, <2>2, SupersededFacts DEF Typed
  <2>4. \A k \in DOMAIN results : k[1] \in DOMAIN definitions
    BY PairFacts DEF Typed, TablesOK
  <2> QED BY <2>1, <2>3, <2>4
<1>5. \/ UNCHANGED <<results, definitions>>
      \/ RunKpi /\ Works("kpis")
      \/ Tick \/ Seed
  BY DEF Next, Engine, Load, RunKpi, RunQuality, Skip, FailJob, Fail, RunOther, Finish, tables, vars, Lose
<1> QED BY <1>1, <1>2, <1>3, <1>4, <1>5

\* kpi.py, seed_kpis.py "every stored result still points at the equation that
\* produced it": a definition that is computed when it is superseded, between
\* two of its elements or at any other step, keeps its own row of
\* kpi_definition, and what it was computed by is what that row says.
THEOREM ResultsPointAtTheirEquation == Spec => []ResultsTraceToEquation
<1>1. Init => ResultsTraceToEquation
  BY DEF Init, ResultsTraceToEquation
<1> QED BY <1>1, TypedInit, TypedNext, TraceNext, PTL DEF Spec

LEMMA ComputeFacts ==
  ASSUME NEW i, NEW equation \in {"ratio", "sum", "broken"},
         \A v \in DOMAIN i : i[v].quality \in Qualities,
         Compute(equation, i).value # NoValue
  PROVE  Compute(equation, i).quality = "Good" /\ \A v \in DOMAIN i : i[v].quality = "Good"
<1> DEFINE result == Evaluate(equation, i)
<1>1. \A x, q : Input(x, q).value = x /\ Input(x, q).quality = q
  BY DEF Input
<1>2. ~ \E v \in DOMAIN i : i[v].quality \in {"Bad", "BadNoCommunication"} \/ i[v].value = NoValue
  BY <1>1 DEF Compute
<1>3. ~ \E v \in DOMAIN i : i[v].quality = "Uncertain"
  BY <1>1, <1>2 DEF Compute
<1>4. Compute(equation, i) = result
  BY <1>1, <1>2, <1>3 DEF Compute
<1>5. result.quality = "Good" \/ result.value = NoValue
  <2>1. CASE equation = "ratio" /\ i["den"].value # 0
    BY <1>1, <2>1 DEF Evaluate
  <2>2. CASE equation = "ratio" /\ i["den"].value = 0
    BY <1>1, <2>2 DEF Evaluate
  <2>3. CASE equation = "sum"
    BY <1>1, <2>3 DEF Evaluate
  <2>4. CASE equation = "broken"
    BY <1>1, <2>4 DEF Evaluate
  <2> QED BY <2>1, <2>2, <2>3, <2>4
<1> QED BY <1>2, <1>3, <1>4, <1>5 DEF Qualities, Severe

\* The newest sample of a tag that hangs on e or below it, Good and recent.
Answers(table, e, attribute) ==
  \E d \in Subtree(e) :
    /\ attribute \in DOMAIN TagOf[d] /\ TagOf[d][attribute] \in DOMAIN table
    /\ table[TagOf[d][attribute]].quality = "Good" /\ table[TagOf[d][attribute]].age < MaxAge

LEMMA ResolveFacts ==
  ASSUME NEW table, NEW e, NEW attribute, \A t \in DOMAIN table : table[t] \in Reading
  PROVE  /\ Resolve(table, e, attribute).quality \in Qualities
         /\ Resolve(table, e, attribute).quality = "Good" => Answers(table, e, attribute)
<1> DEFINE holders == {d \in Subtree(e) : attribute \in DOMAIN TagOf[d]}
           holder == CHOOSE d \in holders : TRUE
           tag == TagOf[holder][attribute]
<1>1. \A x, q : Input(x, q).quality = q
  BY DEF Input
<1>2. CASE holders = {} \/ tag \notin DOMAIN table \/ table[tag].age >= MaxAge
  <2>1. Resolve(table, e, attribute) = Absent
    BY <1>2 DEF Resolve
  <2> QED BY <1>1, <2>1 DEF Absent, Qualities, Severe
<1>3. CASE ~ (holders = {} \/ tag \notin DOMAIN table \/ table[tag].age >= MaxAge)
  <2>1. Resolve(table, e, attribute) = Input(table[tag].value, table[tag].quality)
    BY <1>3 DEF Resolve
  <2>2. holder \in Subtree(e) /\ attribute \in DOMAIN TagOf[holder] /\ tag \in DOMAIN table
    BY <1>3
  <2>3. table[tag].age < MaxAge
    <3>1. table[tag].age \in Int /\ MaxAge \in Int
      BY <2>2, ConstantFacts DEF Reading
    <3> QED BY <1>3, <3>1
  <2>4. table[tag].quality \in Qualities
    BY <2>2 DEF Reading
  <2> HIDE DEF holder
  <2> QED BY <1>1, <2>1, <2>2, <2>3, <2>4 DEF Answers
<1> QED BY <1>2, <1>3

\* What a row of this tick says of its inputs.
Founded(row, e, table) ==
  row.age = 0 /\ row.result.value # NoValue =>
    row.result.quality = "Good" /\ \A v \in DOMAIN Inputs : Answers(table, e, Inputs[v])
Numbers == \A k \in DOMAIN results : Founded(results[k], k[2], latest)

LEMMA NumbersNext == Typed /\ Numbers /\ [Next]_vars => Numbers'
<1> SUFFICES ASSUME Typed, Numbers, [Next]_vars PROVE Numbers'
  OBVIOUS
<1>1. CASE UNCHANGED <<results, latest>>
  BY <1>1 DEF Numbers
<1>2. CASE RunKpi /\ Works("kpis")
  <2> DEFINE d == Head(todo)[1]
             e == Head(todo)[2]
             i == [v \in DOMAIN Inputs |-> Resolve(latest, e, Inputs[v])]
             key == <<d, e>>
             row == [result |-> Compute(definitions[d].equation, i), age |-> 0,
                     equation |-> definitions[d].equation]
  <2>1. latest' = latest /\ results' = With(results, key, row) /\ pc = 1 /\ todo # <<>>
    BY <1>2, JobsFacts DEF RunKpi, Entry, Job, Typed, LoopOK
  <2>2. definitions[d].equation \in {"ratio", "sum", "broken"}
    <3>1. Head(todo) \in Pairs(definitions)
      BY <2>1, TailFacts DEF Typed, LoopOK
    <3>2. d \in DOMAIN definitions
      BY <3>1, PairFacts
    <3>3. definitions[d] \in Definition
      BY <3>2 DEF Typed, DefinitionsOK
    <3> QED BY <3>3 DEF Definition
  <2>3. Founded(row, e, latest)
    <3> SUFFICES ASSUME row.result.value # NoValue
                 PROVE  row.result.quality = "Good" /\ \A v \in DOMAIN Inputs : Answers(latest, e, Inputs[v])
      BY DEF Founded
    <3>1. \A t \in DOMAIN latest : latest[t] \in Reading
      BY DEF Typed, TablesOK
    <3>2. \A v \in DOMAIN i : i[v].quality \in Qualities
      BY <3>1, ResolveFacts
    <3>3. row.result = Compute(definitions[d].equation, i)
      OBVIOUS
    <3> HIDE DEF row, d, i
    <3>4. row.result.quality = "Good" /\ \A v \in DOMAIN i : i[v].quality = "Good"
      BY <2>2, <3>2, <3>3, ComputeFacts
    <3>5. \A v \in DOMAIN Inputs : Answers(latest, e, Inputs[v])
      BY <3>1, <3>4, ResolveFacts DEF i
    <3> QED BY <3>4, <3>5
  <2>4. key[2] = e
    OBVIOUS
  <2> HIDE DEF key, row, e
  <2>5. /\ DOMAIN results' = DOMAIN results \cup {key} /\ results'[key] = row
        /\ \A k \in DOMAIN results : k # key => results'[k] = results[k]
    BY <2>1 DEF With
  <2> QED BY <2>1, <2>3, <2>4, <2>5 DEF Numbers
<1>3. CASE Tick
  <2>1. results' = [k \in DOMAIN results |-> [results[k] EXCEPT !.age = 1]]
    BY <1>3 DEF Tick
  <2>2. \A k \in DOMAIN results' : results'[k].age = 1
    BY <2>1 DEF Typed, TablesOK, Columns
  <2> QED BY <2>2 DEF Numbers, Founded
<1>4. UNCHANGED <<results, latest>> \/ (RunKpi /\ Works("kpis")) \/ Tick
  BY DEF Next, Engine, Load, RunKpi, RunQuality, Skip, FailJob, Fail, RunOther, Finish, tables, vars, Seed, Lose
<1> QED BY <1>1, <1>2, <1>3, <1>4

LEMMA TypedIsTyped == Typed => TypeOK
<1> SUFFICES ASSUME Typed PROVE TypeOK
  OBVIOUS
<1> USE DEF Typed
<1>1. Cardinality({d \in DOMAIN definitions : definitions[d].current}) = 1
  <2> DEFINE n == Len(definitions)
  <2>1. n \in DOMAIN definitions /\ \A d \in DOMAIN definitions : definitions[d].current <=> d = n
    BY DEF DefinitionsOK
  <2> HIDE DEF n
  <2>2. {d \in DOMAIN definitions : definitions[d].current} = {n}
    BY <2>1
  <2> QED BY <2>2, FS_Singleton
<1>2. \A k \in DOMAIN results : k[1] \in DOMAIN definitions /\ k[2] \in Applicable(Attribs)
  BY PairFacts DEF TablesOK
<1>3. pc \in 0 .. Len(Jobs) /\ (todo # <<>> => Jobs[pc] = "kpis")
  BY JobsFacts DEF LoopOK
<1> QED BY <1>1, <1>2, <1>3 DEF TypeOK, TablesOK, DueOK, LoopOK

\* kpi.py "a KPI with a Bad input does not return zero, does not return the
\* last good value": whatever the tree, the definitions and their order, a
\* number was computed of inputs that were each Good and recent in the tables
\* that the computation read.
THEOREM NumbersComeOfGoodInputs == Spec => []OnlyGoodGivesANumber
<1>1. Init => Numbers
  BY DEF Init, Numbers
<1>2. Typed /\ Numbers => OnlyGoodGivesANumber
  BY TypedIsTyped DEF Numbers, Founded, Answers, OnlyGoodGivesANumber
<1> QED BY <1>1, <1>2, TypedInit, TypedNext, NumbersNext, PTL DEF Spec

-----------------------------------------------------------------------------
(* Excursions are flagged, and a tag that is stuck or quiet is seen to be.   *)
(*                                                                         *)
(* What the last evaluation saw, g ticks ago, it would see of the samples    *)
(* that are g older now, and have been in the archive for g ticks.  The       *)
(* evaluation is that of the last Q ticks when none could have failed for as  *)
(* long: due["quality"] + calm <= Q says that one has, or that those since    *)
(* are not due yet.                                                          *)

Q == Every["quality"]

SawExcursions(g) ==
  \A a \in DOMAIN history :
    history[a].here >= g /\ a - g < Lookback /\ Excursion(a) => <<a, "range">> \in flags
SawStuck(g) ==
  (\A a \in g .. g + RuleRows["frozen"] :
     /\ a \in DOMAIN history /\ history[a].here >= g
     /\ history[a].value # Null /\ history[a].value = history[g].value)
  => "frozen" \in health.states
SawQuiet(g) ==
  (\A a \in DOMAIN history : a > RuleRows["stale"] + g) => health.states \cap {"stale", "missing"} # {}

\* The window of the frozen rule is shorter than the history that is read, and
\* what the stale rule waits for is within what is followed.
RulesAnswerable ==
  RuleRows["frozen"] \in 1 .. Lookback - 1 /\ RuleRows["stale"] \in Nat /\ For("stale") <= Kept

Saw(g) == SawExcursions(g) /\ (RulesAnswerable => SawStuck(g) /\ SawQuiet(g))

Seen ==
  /\ \/ due["quality"] + calm <= Q
     \/ pc \in {1, 2} /\ due["quality"] = 0
     \/ due["quality"] > 0 /\ Saw(Q - due["quality"])
  /\ (pc = 0 /\ due["quality"] = 0 => calm = 0)
  /\ (pc \in 3 .. 5 => due["quality"] > 0)

LEMMA DueIsNat == Typed => due["quality"] \in 0 .. Q /\ calm \in Nat /\ Q \in Nat /\ Q >= 2
BY ConstantFacts, JobsFacts DEF Typed, DueOK, LoopOK, Q, JobNames

\* What was seen is seen in tomorrow's ages.
LEMMA SawAges ==
  ASSUME Typed, Tick, NEW g \in 0 .. Q - 2, Saw(g)
  PROVE  Saw(g + 1)'
<1>1. g \in Nat /\ Kept \in Nat /\ Q \in Nat
  BY DueIsNat, ConstantFacts
<1>2. UNCHANGED health /\ flags' = Aged(flags)
  BY DEF Tick
<1>3. \A a \in DOMAIN history : a \in Nat /\ a <= Kept /\ history[a].here \in Nat
  BY ConstantFacts DEF Typed, TablesOK
<1>4. ASSUME NEW a \in DOMAIN history', history'[a].here >= g + 1
      PROVE  /\ a - 1 \in DOMAIN history /\ history[a - 1].here >= g
             /\ history'[a].value = history[a - 1].value
             /\ a \in Nat /\ a >= 1 /\ a <= Kept
  <2>1. history'[a].here \in Nat /\ a \in 0 .. Kept
    BY TickHistory, ConstantFacts
  <2>2. history'[a].here # 0
    BY <1>1, <1>4, <2>1
  <2>3. /\ a - 1 \in DOMAIN history /\ history'[a].value = history[a - 1].value
        /\ history'[a].here <= history[a - 1].here + 1
    BY <2>2, TickHistory
  <2>4. history[a - 1].here \in Nat /\ a - 1 \in Nat
    BY <1>3, <2>3
  <2>5. history[a - 1].here >= g
    BY <1>1, <1>4, <2>1, <2>3, <2>4
  <2> QED BY <1>1, <2>1, <2>3, <2>4, <2>5
<1>5. SawExcursions(g + 1)'
  <2> SUFFICES ASSUME NEW a \in DOMAIN history', history'[a].here >= g + 1, a - (g + 1) < Lookback,
                      CheckRange(history'[a].value, RuleRows)
               PROVE  <<a, "range">> \in flags'
    BY DEF SawExcursions, Excursion
  <2> DEFINE b == a - 1
  <2>1. /\ b \in DOMAIN history /\ history[b].here >= g /\ history'[a].value = history[b].value
        /\ a \in Nat /\ a >= 1 /\ a <= Kept
    BY <1>4
  <2>2. b + 1 = a /\ b - g < Lookback /\ b < Kept
    BY <1>1, <2>1, ConstantFacts
  <2> HIDE DEF b
  <2>3. <<b, "range">> \in flags
    BY <2>1, <2>2 DEF Saw, SawExcursions, Excursion
  <2>4. <<b, "range">>[1] = b /\ <<b, "range">>[2] = "range"
    OBVIOUS
  <2> QED BY <1>2, <2>2, <2>3, <2>4 DEF Aged
<1>6. ASSUME RulesAnswerable PROVE SawStuck(g + 1)'
  <2> SUFFICES ASSUME \A a \in g + 1 .. g + 1 + RuleRows["frozen"] :
                        /\ a \in DOMAIN history' /\ history'[a].here >= g + 1
                        /\ history'[a].value # Null /\ history'[a].value = history'[g + 1].value
               PROVE  "frozen" \in health'.states
    BY DEF SawStuck
  <2>0. RuleRows["frozen"] \in Nat
    BY <1>6, ConstantFacts DEF RulesAnswerable
  <2>1. ASSUME NEW a \in g .. g + RuleRows["frozen"]
        PROVE  a \in DOMAIN history /\ history[a].here >= g /\ history'[a + 1].value = history[a].value
    <3> DEFINE c == a + 1
    <3>1. c \in g + 1 .. g + 1 + RuleRows["frozen"] /\ c - 1 = a
      BY <1>1, <2>0, <2>1
    <3> HIDE DEF c
    <3>2. c \in DOMAIN history' /\ history'[c].here >= g + 1
      BY <3>1
    <3> QED BY <1>4, <3>1, <3>2 DEF c
  <2>2. \A a \in g .. g + RuleRows["frozen"] : a + 1 \in g + 1 .. g + 1 + RuleRows["frozen"]
    BY <1>1, <2>0
  <2>3. g \in g .. g + RuleRows["frozen"]
    BY <1>1, <2>0
  <2>4. \A a \in g .. g + RuleRows["frozen"] :
          /\ a \in DOMAIN history /\ history[a].here >= g
          /\ history[a].value # Null /\ history[a].value = history[g].value
    BY <2>1, <2>2, <2>3
  <2> QED BY <1>2, <1>6, <2>4 DEF Saw, SawStuck
<1>7. ASSUME RulesAnswerable PROVE SawQuiet(g + 1)'
  <2> SUFFICES ASSUME \A a \in DOMAIN history' : a > RuleRows["stale"] + (g + 1)
               PROVE  health'.states \cap {"stale", "missing"} # {}
    BY DEF SawQuiet
  <2>0. RuleRows["stale"] \in Nat /\ RuleRows["stale"] + g < Kept
    BY <1>1, <1>7, DueIsNat, ConstantFacts DEF RulesAnswerable, For, Q, Known
  <2>1. ASSUME NEW a \in DOMAIN history PROVE a > RuleRows["stale"] + g
    <3>1. a \in Nat
      BY <1>3
    <3>2. CASE a = Kept
      BY <1>1, <2>0, <3>2
    <3>3. CASE a # Kept
      <4>1. a + 1 \in DOMAIN history'
        BY <3>3, TickHistory
      <4>2. a + 1 > RuleRows["stale"] + (g + 1)
        BY <4>1
      <4> QED BY <1>1, <2>0, <3>1, <4>2
    <3> QED BY <3>2, <3>3
  <2> QED BY <1>2, <1>7, <2>1 DEF Saw, SawQuiet
<1> QED BY <1>5, <1>6, <1>7 DEF Saw, RulesAnswerable, For, Known

\* An evaluation flags what is out of range in the lookback.
LEMMA SeesExcursions == Typed /\ RunQuality => SawExcursions(0)'
<1> SUFFICES ASSUME Typed, RunQuality, NEW a \in DOMAIN history, a - 0 < Lookback,
                    CheckRange(history[a].value, RuleRows)
             PROVE  <<a, "range">> \in flags'
  BY DEF SawExcursions, Excursion, RunQuality
<1>1. a \in Nat
  BY DEF Typed, TablesOK
<1>2. a \in DOMAIN Window /\ Window[a] = history[a] /\ DOMAIN Window \subseteq Nat
  BY <1>1, WindowFacts DEF Typed
<1>3. flags' = flags \cup Flagged(Window, Other, Other, RuleRows)
  BY <1>2 DEF RunQuality
<1> QED BY <1>2, <1>3, FlaggedFacts

LEMMA TwoAreTwo ==
  ASSUME NEW S, IsFiniteSet(S), 0 \in S, 1 \in S
  PROVE  Cardinality(S) >= 2
<1>1. IsFiniteSet({0, 1}) /\ Cardinality({0, 1}) = 2
  <2>1. 0 .. 1 = {0, 1}
    OBVIOUS
  <2>2. IsFiniteSet(0 .. 1) /\ Cardinality(0 .. 1) = IF 0 > 1 THEN 0 ELSE 1 - 0 + 1
    BY FS_Interval, 0 \in Int, 1 \in Int
  <2> QED BY <2>1, <2>2
<1>2. Cardinality({0, 1}) <= Cardinality(S)
  BY FS_Subset
<1>3. Cardinality(S) \in Nat
  BY FS_CardinalityType
<1> QED BY <1>1, <1>2, <1>3

\* An evaluation sees a tag that is stuck or quiet now.
LEMMA SeesStuck == ASSUME RulesAnswerable PROVE Typed /\ RunQuality => SawStuck(0)'
<1> DEFINE span == RuleRows["frozen"]
<1> SUFFICES ASSUME Typed, RunQuality,
                    \A a \in 0 .. 0 + span :
                      /\ a \in DOMAIN history /\ history[a].here >= 0
                      /\ history[a].value # Null /\ history[a].value = history[0].value
             PROVE  "frozen" \in health'.states
  BY DEF SawStuck, RunQuality
<1>1. span \in Nat /\ span >= 1 /\ span < Lookback /\ Lookback \in Nat /\ RuleRows.frozen = span
  BY ConstantFacts DEF RulesAnswerable
<1> DEFINE w == Window
<1>2. /\ DOMAIN w = {a \in DOMAIN history : a < Lookback} /\ DOMAIN w \subseteq Nat
      /\ \A a \in DOMAIN w : w[a] = history[a]
  BY WindowFacts DEF Typed
<1>3. IsFiniteSet(DOMAIN w)
  <2>1. DOMAIN w \subseteq 0 .. Kept
    BY <1>2 DEF Typed, TablesOK
  <2>2. IsFiniteSet(0 .. Kept)
    BY ConstantFacts, FS_Interval
  <2> HIDE DEF w
  <2> QED BY <2>1, <2>2, FS_Subset
<1> HIDE DEF w, span
<1>4. \A a \in 0 .. span : /\ a \in DOMAIN w /\ w[a].value # Null /\ w[a].value = w[0].value
  <2>1. \A a \in 0 .. span : a \in 0 .. 0 + span /\ a < Lookback
    BY <1>1
  <2>2. 0 \in 0 .. span
    BY <1>1
  <2> QED BY <1>2, <2>1, <2>2
<1>5. 0 \in 0 .. span /\ 1 \in 0 .. span /\ span \in 0 .. span
  BY <1>1
<1>6. Newest(w) = 0
  <2>1. 0 \in DOMAIN w
    BY <1>4, <1>5
  <2>2. Newest(w) \in DOMAIN w /\ Newest(w) <= 0
    BY <1>2, <2>1, MinIsLeast DEF Newest
  <2> QED BY <1>2, <2>2
<1>7. CheckFrozen(w, RuleRows)
  <2> DEFINE present == {a \in DOMAIN w : a <= 0 + span /\ w[a].value # Null}
  <2>1. present = 0 .. span
    <3>1. \A a \in present : a \in 0 .. span
      BY <1>1, <1>2
    <3>2. \A a \in 0 .. span : a \in present
      BY <1>1, <1>4
    <3> QED BY <3>1, <3>2
  <2>2. \A a, b \in present : w[a].value = w[b].value
    BY <1>4, <2>1
  <2>3. Cardinality(present) >= 2
    <3>1. IsFiniteSet(0 .. span)
      BY <1>1, FS_Interval
    <3> QED BY <1>5, <2>1, <3>1, TwoAreTwo
  <2>4. Cardinality(DOMAIN w) >= 2
    BY <1>3, <1>4, <1>5, TwoAreTwo
  <2>5. Oldest(w) >= 0 + span
    <3>1. span \in DOMAIN w
      BY <1>4, <1>5
    <3>2. Oldest(w) >= span
      BY <1>2, <1>3, <3>1, MaxIsGreatest DEF Oldest
    <3> QED BY <1>1, <3>2
  <2> QED BY <1>1, <1>6, <2>2, <2>3, <2>4, <2>5 DEF CheckFrozen
<1>8. <<Newest(w), "frozen">> \in Flagged(w, Other, Other, RuleRows)
  BY <1>2, <1>4, <1>5, <1>7, FlaggedFacts
<1>9. health' = HealthOf(w, Flagged(w, Other, Other, RuleRows))
  <2>1. DOMAIN w # {}
    BY <1>4, <1>5
  <2> QED BY <2>1 DEF RunQuality, w
<1>10. "frozen" \in {f[2] : f \in Flagged(w, Other, Other, RuleRows)}
  BY <1>8
<1> QED BY <1>9, <1>10 DEF HealthOf

LEMMA SeesQuiet == ASSUME RulesAnswerable PROVE Typed /\ RunQuality => SawQuiet(0)'
<1> DEFINE limit == RuleRows["stale"]
<1> SUFFICES ASSUME Typed, RunQuality, \A a \in DOMAIN history : a > limit + 0
             PROVE  health'.states \cap {"stale", "missing"} # {}
  BY DEF SawQuiet, RunQuality
<1>1. limit \in Nat /\ RuleRows.stale = limit
  BY DEF RulesAnswerable
<1> DEFINE w == Window
<1>2. DOMAIN w \subseteq Nat /\ DOMAIN w \subseteq DOMAIN history
  BY WindowFacts DEF Typed
<1>3. CASE DOMAIN w = {}
  <2>1. health' = Missing
    BY <1>3 DEF RunQuality
  <2> QED BY <2>1 DEF Missing
<1>4. CASE DOMAIN w # {}
  <2>1. health' = HealthOf(w, Flagged(w, Other, Other, RuleRows))
    BY <1>4 DEF RunQuality
  <2> HIDE DEF w, limit
  <2>2. Newest(w) \in DOMAIN w
    BY <1>2, <1>4, MinIsLeast DEF Newest
  <2>3. Newest(w) > limit
    BY <1>1, <1>2, <2>2
  <2>4. CheckStale(w, RuleRows)
    BY <1>1, <2>3 DEF CheckStale
  <2>5. <<Newest(w), "stale">> \in Flagged(w, Other, Other, RuleRows)
    BY <1>2, <1>4, <2>4, FlaggedFacts
  <2>6. "stale" \in {f[2] : f \in Flagged(w, Other, Other, RuleRows)}
    BY <2>5
  <2> QED BY <2>1, <2>6 DEF HealthOf
<1> QED BY <1>3, <1>4

LEMMA SeesAll == Typed /\ RunQuality => Saw(0)'
BY SeesExcursions, SeesStuck, SeesQuiet DEF Saw

LEMMA SeenTick == Typed /\ Seen /\ Tick => Seen'
<1> SUFFICES ASSUME Typed, Seen, Tick PROVE Seen'
  OBVIOUS
<1> DEFINE q == due["quality"]
           q1 == due'["quality"]
<1>1. pc = 0 /\ pc' = 1
  BY DEF Tick
<1>2. /\ q \in 0 .. Q /\ calm \in Nat /\ Q \in Nat /\ q1 = Less1(q) /\ calm' \in Nat /\ calm' <= calm + 1
  BY DueIsNat, TickTimes, ConstantFacts
<1>3. q1 \in Nat /\ (q = 0 => q1 = 0) /\ (q # 0 => q1 = q - 1)
  BY <1>2 DEF Less1
<1> HIDE DEF Q
<1>4. CASE q1 = 0
  BY <1>1, <1>4 DEF Seen
<1>5. CASE q1 # 0 /\ q + calm <= Q
  <2>1. q1 + calm' <= Q
    BY <1>2, <1>3, <1>5
  <2> QED BY <1>1, <2>1 DEF Seen
<1>6. CASE q1 # 0 /\ Saw(Q - q)
  <2>1. PICK g \in 0 .. Q - 2 : g = Q - q /\ g + 1 = Q - q1
    <3>1. Q - q \in 0 .. Q - 2 /\ (Q - q) + 1 = Q - q1
      BY <1>2, <1>3, <1>6
    <3> QED BY <3>1
  <2>2. Saw(g + 1)'
    BY <1>6, <2>1, SawAges
  <2>3. Saw(Q - due["quality"])'
    BY <2>1, <2>2 DEF Saw, SawExcursions, SawStuck, SawQuiet
  <2>4. q1 > 0
    BY <1>3, <1>6
  <2> QED BY <1>1, <2>3, <2>4 DEF Seen
<1> QED BY <1>1, <1>4, <1>5, <1>6 DEF Seen

LEMMA SeenNext == Typed /\ Seen /\ [Next]_vars => Seen'
<1> SUFFICES ASSUME Typed, Seen, [Next]_vars PROVE Seen'
  OBVIOUS
<1> USE DEF Seen
<1>1. CASE RunQuality
  <2>1. due'["quality"] = Q /\ pc' # 0 /\ pc' # 1 /\ Q > 0 /\ Q - due'["quality"] = 0
    <3>1. pc = 2
      BY <1>1, JobsFacts DEF RunQuality, Finish, Job, Typed, LoopOK
    <3>2. pc' = 3
      BY <1>1, <3>1, NextJob DEF RunQuality, Finish
    <3>3. due'["quality"] = Q
      BY <1>1, JobsFacts DEF RunQuality, Finish, Due, Q, Typed, DueOK, JobNames
    <3> QED BY <3>2, <3>3, DueIsNat
  <2>2. Saw(0)'
    BY <1>1, SeesAll
  <2>3. Saw(Q - due["quality"])'
    BY <2>1, <2>2 DEF Saw, SawExcursions, SawStuck, SawQuiet
  <2> QED BY <2>1, <2>3
<1>2. ASSUME pc' = 0, calm' = 0, due'["quality"] \in 0 .. Q PROVE Seen'
  BY <1>2, DueIsNat
<1>3. ASSUME UNCHANGED <<history, flags, health, due, calm>>,
             \/ pc \in {0, 1} /\ pc' \in {pc, 2}
             \/ pc \in 2 .. 5 /\ pc' = Next1 /\ due["quality"] > 0
             \/ pc \in 3 .. 5 /\ pc' = 0
             \/ pc' = pc
      PROVE  Seen'
  <2>1. due["quality"] \in 0 .. Q
    BY DueIsNat
  <2>2. Saw(Q - due["quality"]) => Saw(Q - due["quality"])'
    BY <1>3 DEF Saw, SawExcursions, SawStuck, SawQuiet, Excursion
  <2>3. CASE due["quality"] > 0
    <3>1. due["quality"] # 0
      BY <2>1, <2>3
    <3> QED BY <1>3, <2>2, <2>3, <3>1
  <2>4. CASE due["quality"] = 0
    <3>1. (pc \in {0, 1} /\ pc' \in {pc, 2}) \/ pc' = pc
      BY <1>3, <2>1, <2>4
    <3> QED BY <1>3, <2>1, <2>4, <3>1
  <2> QED BY <2>1, <2>3, <2>4
<1>4. CASE RunKpi \/ Load
  <2>1. pc = 1 /\ UNCHANGED <<history, flags, health, due>>
    BY <1>4, JobsFacts DEF RunKpi, Load, Fail, tables, Job, Typed, LoopOK
  <2>2. Next1 = 2
    BY <2>1, NextJob
  <2>3. (pc' = 0 /\ calm' = 0) \/ (UNCHANGED calm /\ pc' \in {1, 2})
    BY <1>4, <2>1, <2>2 DEF RunKpi, Load, Fail
  <2>4. due'["quality"] \in 0 .. Q
    BY <2>1, DueIsNat
  <2> QED BY <1>2, <1>3, <2>1, <2>3, <2>4
<1>5. ASSUME NEW j \in JobNames \ {"kpis"}, Skip(j) \/ FailJob(j) \/ RunOther(j)
      PROVE  Seen'
  <2>1. pc \in 2 .. 5 /\ Jobs[pc] = j
    <3>1. pc # 0 /\ Jobs[pc] = j
      BY <1>5 DEF Skip, FailJob, RunOther, Finish, Job
    <3>2. pc \in 0 .. 5
      BY DEF Typed, LoopOK
    <3>3. pc # 1
      BY <3>1, JobsFacts
    <3> QED BY <3>1, <3>2, <3>3
  <2>2. "quality" \in Timed /\ j \in Timed /\ due \in [Timed -> Nat]
    BY JobsFacts DEF Typed, DueOK, JobNames
  <2>3. CASE j = "quality" /\ FailJob(j)
    <3>1. pc' = 0 /\ calm' = 0 /\ due' = Due(j, FALSE)
      BY <2>3 DEF FailJob, Fail
    <3>2. due'["quality"] \in 0 .. Q
      BY <2>2, <2>3, <3>1, DueIsNat DEF Due, Q
    <3> QED BY <1>2, <3>1, <3>2
  <2>4. CASE j # "quality" /\ (Skip(j) \/ FailJob(j) \/ RunOther(j))
    <3>1. UNCHANGED <<history, flags, health, calm>> /\ pc' \in {0, Next1}
      BY <2>4 DEF Skip, FailJob, Fail, RunOther, Finish, tables
    <3>2. pc \in 3 .. 5
      BY <2>1, <2>4, JobsFacts
    <3>3. due'["quality"] = due["quality"] /\ due["quality"] > 0
      BY <2>2, <2>4, <3>2 DEF Skip, FailJob, RunOther, Finish, Due
    <3>4. pc' \in {0, 4, 5}
      BY <3>1, <3>2, NextJob
    <3>5. Saw(Q - due["quality"]) => Saw(Q - due["quality"])'
      BY <3>1, <3>3 DEF Saw, SawExcursions, SawStuck, SawQuiet, Excursion
    <3>6. due["quality"] # 0
      BY <3>3, DueIsNat
    <3> QED BY <3>1, <3>2, <3>3, <3>4, <3>5, <3>6
  <2>5. CASE j = "quality" /\ Skip(j)
    <3>1. UNCHANGED <<history, flags, health, due, calm>> /\ pc' = Next1 /\ due["quality"] > 0
      BY <2>5 DEF Skip, tables
    <3> QED BY <1>3, <2>1, <3>1
  <2> QED BY <1>5, <2>3, <2>4, <2>5 DEF RunOther
<1>6. CASE Seed \/ Lose \/ UNCHANGED vars
  <2>1. UNCHANGED <<history, flags, health, due, calm, pc>>
    BY <1>6 DEF Seed, Lose, vars, tables
  <2> QED BY <1>3, <2>1
<1> QED BY <1>1, <1>4, <1>5, <1>6, SeenTick, JobsFacts DEF Next, Engine

LEMMA SeenInit == Init => Seen
<1> SUFFICES ASSUME Init PROVE Seen
  OBVIOUS
<1>1. Typed
  BY TypedInit
<1>2. calm = 0 /\ pc = 0 /\ due["quality"] \in 0 .. Q /\ Q \in Nat
  BY <1>1, DueIsNat DEF Init
<1> QED BY <1>2 DEF Seen

\* When evaluations have been possible for an interval, there was one.
LEMMA LastSeen ==
  ASSUME Typed, Seen, calm >= Every["quality"], pc = 0
  PROVE  \E g \in 0 .. Known : Saw(g)
<1>1. due["quality"] \in 0 .. Q /\ calm \in Nat /\ Q \in Nat /\ calm >= Q /\ Q >= 2 /\ Known = Q - 1
  BY DueIsNat DEF Q, Known
<1>2. due["quality"] > 0
  BY <1>1 DEF Seen
<1>3. Saw(Q - due["quality"])
  BY <1>1, <1>2 DEF Seen
<1>4. Q - due["quality"] \in 0 .. Known
  BY <1>1, <1>2
<1> QED BY <1>3, <1>4

\* quality.py:289 "an excursion that has since returned still happened": when
\* evaluations have been possible for an interval, every sample out of range
\* that is in the lookback and has been in the archive for that long, less a
\* tick, is flagged, whatever outage delayed it or the evaluations before.
THEOREM NoExcursionMissed == Spec => []ExcursionsFlagged
<1>1. Typed /\ Seen => ExcursionsFlagged
  <2> SUFFICES ASSUME Typed, Seen, pc = 0, calm >= Every["quality"],
                      NEW a \in DOMAIN history, a < Lookback, history[a].here >= Known, Excursion(a)
               PROVE  <<a, "range">> \in flags
    BY DEF ExcursionsFlagged
  <2>1. PICK g \in 0 .. Known : Saw(g)
    BY LastSeen
  <2>2. a \in Nat /\ history[a].here \in Nat /\ Known \in Nat /\ Lookback \in Nat
    BY ConstantFacts DEF Typed, TablesOK
  <2>3. history[a].here >= g /\ a - g < Lookback
    BY <2>1, <2>2
  <2> QED BY <2>1, <2>3 DEF Saw, SawExcursions
<1> QED BY <1>1, TypedInit, TypedNext, SeenInit, SeenNext, PTL DEF Spec

\* check_frozen, tag_health: when evaluations have been possible for an interval,
\* a tag that has sent one number at every tick for its window and an interval,
\* and on time, is frozen in tag_health, and one that has been quiet for its
\* limit and an interval is stale or missing; whatever the archive did before.
THEOREM NoFailureLooksHealthy == ASSUME RulesAnswerable PROVE Spec => []SilentTroubleSeen
<1>1. Typed /\ Seen => SilentTroubleSeen
  <2> SUFFICES ASSUME Typed, Seen, calm >= Every["quality"], pc = 0
               PROVE  /\ Unchanging => "frozen" \in health.states
                      /\ Quiet => health.states \cap {"stale", "missing"} # {}
    BY DEF SilentTroubleSeen
  <2>1. PICK g \in 0 .. Known : Saw(g)
    BY LastSeen
  <2>2. /\ RuleRows["frozen"] \in Nat /\ RuleRows["stale"] \in Nat /\ Known \in Nat /\ g \in Nat
        /\ g <= Known
    BY ConstantFacts DEF RulesAnswerable
  <2>3. ASSUME Unchanging PROVE "frozen" \in health.states
    <3>1. \A a \in g .. g + RuleRows["frozen"] : a \in 0 .. For("frozen") /\ a \in Nat /\ a >= g
      BY <2>2 DEF For
    <3>2. g \in 0 .. For("frozen")
      BY <2>2 DEF For
    <3>3. \A a \in g .. g + RuleRows["frozen"] : a \in DOMAIN history /\ history[a].here >= g
      <4> SUFFICES ASSUME NEW a \in g .. g + RuleRows["frozen"]
                   PROVE  a \in DOMAIN history /\ history[a].here >= g
        OBVIOUS
      <4>1. a \in DOMAIN history /\ history[a].here >= Clamp(a, Known)
        BY <2>3, <3>1 DEF Unchanging
      <4>2. history[a].here \in Nat
        BY <4>1, ConstantFacts DEF Typed, TablesOK
      <4>3. Clamp(a, Known) \in Nat /\ Clamp(a, Known) >= g
        BY <2>2, <3>1 DEF Clamp
      <4> QED BY <2>2, <4>1, <4>2, <4>3
    <3>4. \A a \in g .. g + RuleRows["frozen"] :
            /\ a \in DOMAIN history /\ history[a].here >= g
            /\ history[a].value # Null /\ history[a].value = history[g].value
      BY <2>3, <3>1, <3>2, <3>3 DEF Unchanging
    <3> QED BY <2>1, <3>4 DEF Saw, SawStuck
  <2>4. ASSUME Quiet PROVE health.states \cap {"stale", "missing"} # {}
    <3>1. \A a \in DOMAIN history : a > RuleRows["stale"] + g
      <4>1. \A a \in DOMAIN history : a \in Nat /\ a > For("stale")
        BY <2>4 DEF Quiet, Typed, TablesOK
      <4>2. For("stale") >= RuleRows["stale"] + g /\ For("stale") \in Nat /\ RuleRows["stale"] + g \in Nat
        BY <2>2 DEF For
      <4> QED BY <4>1, <4>2
    <3> QED BY <2>1, <3>1 DEF Saw, SawQuiet
  <2> QED BY <2>3, <2>4
<1> QED BY <1>1, TypedInit, TypedNext, SeenInit, SeenNext, PTL DEF Spec

-----------------------------------------------------------------------------
(* Event frames: StartIsAnEdge, for every pair of triggers, every debounce,   *)
(* window, history and order of a scan's attributes.                          *)

CONSTANTS StartReports, EndReports, StartDebounce, EndDebounce, MaxDuration,
          Margin, Back, Orders, Torn, Horizon, MaxLag, MaxOdd
VARIABLES now, hist, frames, order, read, framesRan

Frames == INSTANCE EventFrames WITH ran <- framesRan

\* What EventFrames assumes of its constants.
FramesAssumed ==
  /\ Frames!ReportsAssumption /\ Frames!DebounceAssumption
  /\ Frames!OrdersAssumption /\ Frames!WindowAssumption

\* The instance's extrema are those of Extrema.
LEMMA SameExtrema == \A S : Frames!Min(S) = Min(S) /\ Frames!Max(S) = Max(S)
BY DEF Frames!Min, Frames!Max, Min, Max

ScanRead   == [start : Frames!Reports, end : Frames!Reports]
Debouncers == [since : Nat, seenFalse : BOOLEAN, fired : BOOLEAN]
States     == [latest : ScanRead, current : Nat, starting : Debouncers,
               ending : Debouncers, found : Seq(Frames!Frame)]   \* of detection

\* A transition at s.  The last report before s is none of "yes", and there was a "no".
Opened(h, s) ==
  /\ s \in DOMAIN h /\ h[s].start = "yes"
  /\ \E u \in 1 .. s - 1 : h[u].start = "no"
  /\ \E u \in 1 .. s - 1 : /\ h[u].start \notin {"none", "yes"}
                           /\ \A v \in u + 1 .. s - 1 : h[v].start = "none"

\* No report after s and up to e is that the condition does not hold.
Steady(h, s, e) == \A v \in s + 1 .. e : h[v].start \in {"yes", "none"}

\* Whether the last scan of the debounce may have been fed a report of before.
Unsure == IF Frames!StartLeads THEN 0 ELSE 1

\* A frame can be said, at scan t, to have begun at s.
Begun(h, s, t) ==
  /\ Opened(h, s) /\ s + StartDebounce <= t
  /\ Steady(h, s, s + StartDebounce - Unsure)

\* A frame that is over.
Finished(f) == f \in Frames!Frame /\ f.start < f.end /\ f.status # "open"

\* What detection knows in scan t, having seen the start attribute's samples up
\* to scan p.
Knows(h, st, t, p) ==
  /\ st \in States
  /\ st.latest.start # "none" =>
       \E u \in 1 .. p : h[u].start = st.latest.start /\ \A v \in u + 1 .. p : h[v].start = "none"
  /\ st.current = 0 =>
       /\ ~ st.starting.fired
       /\ st.starting.seenFalse => st.latest.start # "none" /\ \E u \in 1 .. p : h[u].start = "no"
       /\ st.starting.since # 0 => /\ st.starting.since <= p /\ Opened(h, st.starting.since)
                                   /\ Steady(h, st.starting.since, p)
       /\ st.starting.seenFalse /\ st.starting.since = 0 => st.latest.start # "yes"
  /\ st.current # 0 => Begun(h, st.current, t)
  /\ \A i \in DOMAIN st.found : Finished(st.found[i]) /\ Begun(h, st.found[i].start, t)

-----------------------------------------------------------------------------
\* What a sample makes of a debouncer, by case.
LEMMA FeedFacts ==
  ASSUME NEW d \in Debouncers, NEW ts \in Nat, NEW r \in Frames!Reports, NEW n \in Nat,
         NEW e, e = Frames!Feed(d, ts, r, n)
  PROVE  /\ e \in Debouncers
         /\ d.fired => e = d
         /\ ~ d.fired /\ r # "yes" =>
              /\ e.since = 0 /\ ~ e.fired
              /\ e.seenFalse => d.seenFalse \/ r = "no"
         /\ ~ d.fired /\ r = "yes" /\ ~ d.seenFalse => e = d
         /\ ~ d.fired /\ r = "yes" /\ d.seenFalse =>
              /\ e.since = (IF d.since = 0 THEN ts ELSE d.since)
              /\ e.fired => ts - e.since >= n
              /\ e.seenFalse
<1> DEFINE b == IF d.since = 0 THEN ts ELSE d.since
<1>1. /\ DOMAIN d = {"since", "seenFalse", "fired"}
      /\ d.since \in Nat /\ d.seenFalse \in BOOLEAN /\ d.fired \in BOOLEAN
      /\ d = [since |-> d.since, seenFalse |-> d.seenFalse, fired |-> d.fired]
  BY DEF Debouncers
<1>2. CASE d.fired
  <2>1. e = d
    BY <1>2 DEF Frames!Feed
  <2> QED BY <1>2, <2>1
<1>3. CASE ~ d.fired /\ r # "yes"
  <2>1. PICK x \in BOOLEAN : x = (d.seenFalse \/ r = "no")
    BY Zenon
  <2>2. e = [d EXCEPT !.since = 0, !.seenFalse = x]
    BY <1>3, <2>1 DEF Frames!Feed
  <2>3. e = [since |-> 0, seenFalse |-> x, fired |-> d.fired]
    BY <1>1, <2>2
  <2>4. e \in Debouncers
    BY <1>1, <2>1, <2>3 DEF Debouncers
  <2>5. e.since = 0 /\ e.fired = d.fired /\ e.seenFalse = x
    BY <2>3
  <2> QED BY <1>3, <2>1, <2>4, <2>5
<1>4. CASE ~ d.fired /\ r = "yes" /\ ~ d.seenFalse
  <2>1. e = d
    BY <1>4 DEF Frames!Feed
  <2> QED BY <1>4, <2>1
<1>5. CASE ~ d.fired /\ r = "yes" /\ d.seenFalse
  <2>1. e = [d EXCEPT !.since = b, !.fired = ts - b >= n]
    BY <1>5 DEF Frames!Feed
  <2>2. b \in Nat
    BY <1>1
  <2> HIDE DEF b
  <2>3. (ts - b >= n) \in BOOLEAN
    OBVIOUS
  <2>4. e \in Debouncers /\ e.since = b /\ e.fired = (ts - b >= n) /\ e.seenFalse = d.seenFalse
    BY <1>1, <2>1, <2>2, <2>3 DEF Debouncers
  <2> QED BY <1>5, <2>4 DEF b
<1> QED BY <1>1, <1>2, <1>3, <1>4, <1>5

\* e is what Feed makes of a debouncer d that has not fired.
Fed(d, ts, r, e) ==
  /\ e \in Debouncers
  /\ r # "yes" => e.since = 0 /\ ~ e.fired
  /\ r # "yes" /\ e.seenFalse => d.seenFalse \/ r = "no"
  /\ r = "yes" /\ ~ d.seenFalse => e = d
  /\ r = "yes" /\ d.seenFalse => e.since = IF d.since = 0 THEN ts ELSE d.since
  /\ r = "yes" /\ d.seenFalse => e.seenFalse /\ (e.fired => ts - e.since >= StartDebounce)

LEMMA StartFed ==
  ASSUME FramesAssumed, NEW d \in Debouncers, ~ d.fired, NEW ts \in Nat, NEW r \in Frames!Reports
  PROVE  Fed(d, ts, r, Frames!Feed(d, ts, r, StartDebounce))
<1>1. PICK e : e = Frames!Feed(d, ts, r, StartDebounce)
  OBVIOUS
<1>2. StartDebounce \in Nat
  BY DEF FramesAssumed, Frames!DebounceAssumption
<1>3. Fed(d, ts, r, e)
  BY <1>1, <1>2, FeedFacts DEF Fed
<1> QED BY <1>1, <1>3

LEMMA WatchingFacts ==
  /\ Frames!Watching(TRUE) \in Debouncers /\ Frames!Watching(FALSE) \in Debouncers
  /\ Frames!Watching(TRUE).since = 0 /\ ~ Frames!Watching(TRUE).fired /\ ~ Frames!Watching(TRUE).seenFalse
BY DEF Frames!Watching, Debouncers

\* What becomes of an open frame.
WentOn(st, r) ==
  /\ r \in States /\ r.latest = st.latest
  /\ \/ r.current = st.current /\ r.starting = st.starting /\ r.found = st.found
     \/ /\ r.current = 0 /\ r.starting = Frames!Watching(TRUE)
        /\ \E f : Finished(f) /\ f.start = st.current /\ r.found = Append(st.found, f)

LEMMA FeedTyped ==
  ASSUME NEW d \in Debouncers, NEW ts \in Nat, NEW r \in Frames!Reports, NEW n \in Nat
  PROVE  Frames!Feed(d, ts, r, n) \in Debouncers
<1>1. PICK e : e = Frames!Feed(d, ts, r, n)
  OBVIOUS
<1>2. e \in Debouncers
  BY <1>1, FeedFacts
<1> QED BY <1>1, <1>2

LEMMA WhileOpenFacts ==
  ASSUME FramesAssumed, NEW st \in States, NEW ts \in Nat, st.current # 0
  PROVE  WentOn(st, Frames!WhileOpen(st, ts))
<1> DEFINE r == Frames!WhileOpen(st, ts)
<1> SUFFICES WentOn(st, r)
  OBVIOUS
<1> DEFINE e == Frames!Feed(st.ending, ts, st.latest.end, EndDebounce)
           s1 == [st EXCEPT !.ending = e]
<1>1. /\ DOMAIN st = {"latest", "current", "starting", "ending", "found"}
      /\ st.latest \in ScanRead /\ st.latest.end \in Frames!Reports /\ st.current \in Nat
      /\ st.starting \in Debouncers /\ st.ending \in Debouncers /\ st.found \in Seq(Frames!Frame)
  BY DEF States, ScanRead
<1>2. e \in Debouncers
  <2>1. EndDebounce \in Nat
    BY DEF FramesAssumed, Frames!DebounceAssumption
  <2>2. PICK d \in Debouncers, x \in Frames!Reports : d = st.ending /\ x = st.latest.end
    BY <1>1
  <2>3. Frames!Feed(d, ts, x, EndDebounce) \in Debouncers
    BY <2>1, FeedTyped
  <2> QED BY <2>2, <2>3
<1> HIDE DEF r
<1>3. e.since \in Nat
  BY <1>2 DEF Debouncers
<1> HIDE DEF e
<1>4. /\ s1 \in States /\ s1.latest = st.latest /\ s1.current = st.current
      /\ s1.starting = st.starting /\ s1.found = st.found
  BY <1>1, <1>2 DEF States
<1>5. ASSUME NEW end \in Nat, end > st.current, NEW status \in {"closed", "aborted"},
             r = Frames!Closing(s1, end, status)
      PROVE  /\ r \in States /\ r.latest = st.latest /\ r.current = 0 /\ r.starting = Frames!Watching(TRUE)
             /\ \E f : Finished(f) /\ f.start = st.current /\ r.found = Append(st.found, f)
  <2> DEFINE f == [start |-> st.current, end |-> end, status |-> status]
  <2>1. f \in Frames!Frame /\ Finished(f) /\ f.start = st.current
    BY <1>1, <1>5 DEF Frames!Frame, Finished
  <2> HIDE DEF f
  <2>2. r = [s1 EXCEPT !.found = Append(st.found, f), !.current = 0, !.starting = Frames!Watching(TRUE)]
    BY <1>4, <1>5 DEF Frames!Closing, f
  <2>3. Append(st.found, f) \in Seq(Frames!Frame)
    BY <1>1, <2>1
  <2>4. r = [latest |-> st.latest, current |-> 0, starting |-> Frames!Watching(TRUE),
             ending |-> e, found |-> Append(st.found, f)]
    BY <1>1, <2>2
  <2> HIDE DEF s1
  <2>5. /\ r.latest = st.latest /\ r.current = 0 /\ r.starting = Frames!Watching(TRUE)
        /\ r.found = Append(st.found, f)
    BY <2>4
  <2>6. r \in States
    <3>1. PICK w \in Debouncers : w = Frames!Watching(TRUE)
      BY WatchingFacts
    <3>2. PICK q \in Seq(Frames!Frame) : q = Append(st.found, f)
      BY <2>3
    <3>3. PICK d \in Debouncers : d = e
      BY <1>2
    <3>4. r = [latest |-> st.latest, current |-> 0, starting |-> w, ending |-> d, found |-> q]
      BY <2>4, <3>1, <3>2, <3>3
    <3> QED BY <1>1, <3>4 DEF States
  <2> QED BY <2>1, <2>5, <2>6
<1>6. CASE Frames!Fires(st.ending, e) /\ e.since > st.current
  <2>1. r = Frames!Closing(s1, e.since, "closed")
    BY <1>6 DEF Frames!WhileOpen, e, r
  <2> QED BY <1>3, <1>5, <1>6, <2>1 DEF WentOn
<1>7. CASE ~ (Frames!Fires(st.ending, e) /\ e.since > st.current) /\ ts - st.current > MaxDuration
  <2>1. r = Frames!Closing(s1, ts, "aborted")
    BY <1>7 DEF Frames!WhileOpen, e, r
  <2>2. ts > st.current
    BY <1>1, <1>7 DEF FramesAssumed, Frames!WindowAssumption
  <2> QED BY <1>5, <2>1, <2>2 DEF WentOn
<1>8. CASE ~ (Frames!Fires(st.ending, e) /\ e.since > st.current) /\ ~ (ts - st.current > MaxDuration)
  <2>1. r = s1
    BY <1>8 DEF Frames!WhileOpen, e, r
  <2> QED BY <1>4, <2>1 DEF WentOn
<1> QED BY <1>6, <1>7, <1>8 DEF WentOn

\* What a sample makes of the start trigger's debouncer, and when it fires.
LEMMA StartingFed ==
  ASSUME FramesAssumed, NEW h \in Seq(ScanRead), NEW t \in DOMAIN h, NEW p \in Nat, NEW q \in Nat,
         NEW st, Knows(h, st, t, p), st.current = 0,
         NEW r \in Frames!Reports, NEW d, d = st.starting,
         NEW s, s = Frames!Feed(d, t, r, StartDebounce),
         \/ p = t - 1 /\ q = t /\ r = h[t].start /\ r # "none"
         \/ p \in {t - 1, t} /\ q = p /\ r = st.latest.start,
         q = t \/ ~ Frames!StartLeads
  PROVE  /\ s \in Debouncers
         /\ s.seenFalse => r # "none" /\ \E u \in 1 .. q : h[u].start = "no"
         /\ s.since # 0 => s.since <= q /\ Opened(h, s.since) /\ Steady(h, s.since, q)
         /\ s.seenFalse /\ s.since = 0 => r # "yes"
         /\ s.fired => s.since # 0 /\ Begun(h, s.since, t)
<1>1. d \in Debouncers /\ ~ d.fired /\ t \in Nat /\ t >= 1 /\ StartDebounce \in Nat
  BY DEF Knows, States, FramesAssumed, Frames!DebounceAssumption
<1>2. /\ d.seenFalse => st.latest.start # "none" /\ \E u \in 1 .. p : h[u].start = "no"
      /\ d.since # 0 => d.since <= p /\ Opened(h, d.since) /\ Steady(h, d.since, p)
      /\ d.seenFalse /\ d.since = 0 => st.latest.start # "yes"
      /\ st.latest.start # "none" =>
           \E u \in 1 .. p : h[u].start = st.latest.start /\ \A v \in u + 1 .. p : h[v].start = "none"
  BY DEF Knows
<1>3. d.since \in Nat /\ d.seenFalse \in BOOLEAN
  BY <1>1 DEF Debouncers
<1>4. /\ s \in Debouncers
      /\ r # "yes" => s.since = 0 /\ ~ s.fired /\ (s.seenFalse => d.seenFalse \/ r = "no")
      /\ r = "yes" /\ ~ d.seenFalse => s = d
      /\ r = "yes" /\ d.seenFalse => /\ s.since = (IF d.since = 0 THEN t ELSE d.since)
                                     /\ s.fired => t - s.since >= StartDebounce
                                     /\ s.seenFalse
  <2>1. Fed(d, t, r, s)
    BY <1>1, StartFed
  <2> QED BY <1>1, <2>1 DEF Fed
<1>5. q <= t /\ p <= q /\ (\A u \in 1 .. p : u \in 1 .. q)
  BY <1>1
<1>6. s.seenFalse => r # "none" /\ \E u \in 1 .. q : h[u].start = "no"
  <2> SUFFICES ASSUME s.seenFalse PROVE r # "none" /\ \E u \in 1 .. q : h[u].start = "no"
    OBVIOUS
  <2>1. d.seenFalse \/ r = "no"
    BY <1>4
  <2>2. CASE d.seenFalse
    BY <1>2, <1>5, <2>2
  <2>3. CASE r = "no" /\ ~ d.seenFalse
    <3>1. \E u \in 1 .. q : h[u].start = "no"
      <4>1. CASE p = t - 1 /\ q = t /\ r = h[t].start
        <5>1. t \in 1 .. q
          BY <1>1, <4>1
        <5> QED BY <2>3, <4>1, <5>1
      <4>2. CASE q = p /\ r = st.latest.start
        BY <1>2, <2>3, <4>2
      <4> QED BY <4>1, <4>2
    <3> QED BY <2>3, <3>1
  <2> QED BY <2>1, <2>2, <2>3
<1>7. s.since # 0 => s.since <= q /\ Opened(h, s.since) /\ Steady(h, s.since, q)
  <2> SUFFICES ASSUME s.since # 0 PROVE s.since <= q /\ Opened(h, s.since) /\ Steady(h, s.since, q)
    OBVIOUS
  <2>1. r = "yes"
    BY <1>4
  <2>2. CASE d.since # 0
    <3>1. s.since = d.since
      BY <1>4, <2>1, <2>2
    <3>2. d.since <= p /\ Opened(h, d.since) /\ Steady(h, d.since, p)
      BY <1>2, <2>2
    <3>3. \A v \in d.since + 1 .. q : v \in d.since + 1 .. p \/ h[v].start = "yes"
      <4>1. CASE p = t - 1 /\ q = t /\ r = h[t].start
        <5>1. \A v \in d.since + 1 .. q : v \in d.since + 1 .. p \/ v = t
          BY <1>1, <1>3, <4>1
        <5> QED BY <2>1, <4>1, <5>1
      <4>2. CASE q = p
        BY <4>2
      <4> QED BY <4>1, <4>2
    <3>4. Steady(h, d.since, q)
      BY <3>2, <3>3 DEF Steady
    <3>5. d.since <= q
      BY <1>3, <1>5, <3>2
    <3> QED BY <3>1, <3>2, <3>4, <3>5
  <2>3. CASE d.since = 0
    <3>1. d.seenFalse
      BY <1>4, <2>1, <2>3
    <3>2. st.latest.start \notin {"none", "yes"}
      BY <1>2, <2>3, <3>1
    <3>3. p = t - 1 /\ q = t /\ h[t].start = "yes"
      BY <2>1, <3>2
    <3>4. s.since = t
      BY <1>4, <2>1, <2>3, <3>1
    <3>5. Opened(h, t)
      <4>1. PICK u \in 1 .. p : /\ h[u].start = st.latest.start
                                /\ \A v \in u + 1 .. p : h[v].start = "none"
        BY <1>2, <3>2
      <4>2. \E v \in 1 .. t - 1 : h[v].start = "no"
        BY <1>2, <3>1, <3>3
      <4>3. \E v \in 1 .. t - 1 : /\ h[v].start \notin {"none", "yes"}
                                  /\ \A w \in v + 1 .. t - 1 : h[w].start = "none"
        BY <3>2, <3>3, <4>1
      <4> QED BY <3>3, <4>2, <4>3 DEF Opened
    <3>6. Steady(h, t, q)
      <4>1. \A v \in t + 1 .. t : FALSE
        BY <1>1
      <4> QED BY <3>3, <4>1 DEF Steady
    <3> QED BY <1>1, <3>3, <3>4, <3>5, <3>6
  <2> QED BY <2>2, <2>3
<1>8. s.seenFalse /\ s.since = 0 => r # "yes"
  <2> SUFFICES ASSUME s.seenFalse, s.since = 0, r = "yes" PROVE FALSE
    OBVIOUS
  <2>1. CASE d.seenFalse
    BY <1>1, <1>4, <2>1
  <2>2. CASE ~ d.seenFalse
    BY <1>4, <2>2
  <2> QED BY <2>1, <2>2
<1>9. s.fired => s.since # 0 /\ Begun(h, s.since, t)
  <2> SUFFICES ASSUME s.fired PROVE s.since # 0 /\ Begun(h, s.since, t)
    OBVIOUS
  <2>1. r = "yes" /\ d.seenFalse
    BY <1>1, <1>4
  <2>2. s.since # 0 /\ s.since \in Nat /\ t - s.since >= StartDebounce
    BY <1>1, <1>3, <1>4, <2>1
  <2>3. s.since <= q /\ Opened(h, s.since) /\ Steady(h, s.since, q)
    BY <1>7, <2>2
  <2>4. s.since + StartDebounce - Unsure <= q
    <3>1. CASE q = t
      BY <1>1, <2>2, <3>1 DEF Unsure
    <3>2. CASE ~ Frames!StartLeads
      <4>1. t - 1 <= q
        BY <1>1
      <4> QED BY <1>1, <2>2, <3>2, <4>1 DEF Unsure
    <3> QED BY <3>1, <3>2
  <2>5. Unsure \in {0, 1}
    BY DEF Unsure
  <2>6. Steady(h, s.since, s.since + StartDebounce - Unsure)
    <3>1. \A v \in s.since + 1 .. s.since + StartDebounce - Unsure : v \in s.since + 1 .. q
      BY <1>1, <2>2, <2>4, <2>5
    <3> QED BY <2>3, <3>1 DEF Steady
  <2> QED BY <1>1, <2>2, <2>3, <2>6 DEF Begun
<1> QED BY <1>4, <1>6, <1>7, <1>8, <1>9

\* One sample more.
LEMMA SampleKnown ==
  ASSUME FramesAssumed, NEW h \in Seq(ScanRead), NEW t \in DOMAIN h, NEW p \in Nat, NEW q \in Nat,
         NEW a \in Frames!Attributes, NEW st, Knows(h, st, t, p), ~ Frames!Silent(h, t, a),
         \/ a = "start" /\ p = t - 1 /\ q = t
         \/ a # "start" /\ p \in {t - 1, t} /\ q = p,
         q = t \/ ~ Frames!StartLeads
  PROVE  Knows(h, Frames!Detecting(h, st, t, a), t, q)
<1> DEFINE s1 == CASE a = "start" -> [st EXCEPT !.latest.start = h[t].start]
                   [] a = "end"   -> [st EXCEPT !.latest.end = h[t].end]
                   [] OTHER       -> st
<1> DEFINE s == Frames!Feed(s1.starting, t, s1.latest.start, StartDebounce)
<1>0. h[t] \in ScanRead
  OBVIOUS
<1>1. PICK r \in Frames!Reports : r = IF a = "start" THEN h[t].start ELSE st.latest.start
  BY <1>0 DEF Knows, States, ScanRead
<1>2. /\ s1 \in States /\ s1.latest.start = r /\ s1.current = st.current
      /\ s1.starting = st.starting /\ s1.found = st.found
  <2>1. /\ DOMAIN st = {"latest", "current", "starting", "ending", "found"}
        /\ DOMAIN st.latest = {"start", "end"} /\ st.latest.start \in Frames!Reports /\ st.latest.end \in Frames!Reports
        /\ st.current \in Nat /\ st.starting \in Debouncers /\ st.ending \in Debouncers
        /\ st.found \in Seq(Frames!Frame) /\ st \in States
    BY DEF Knows, States, ScanRead
  <2>2. h[t].start \in Frames!Reports /\ h[t].end \in Frames!Reports
    BY <1>0 DEF ScanRead
  <2>3. CASE a = "start"
    <3>1. s1 = [st EXCEPT !.latest.start = r]
      BY <1>1, <2>3
    <3> HIDE DEF s1
    <3>2. s1 \in States
      BY <2>1, <3>1 DEF States, ScanRead
    <3> QED BY <2>1, <3>1, <3>2
  <2>4. CASE a = "end"
    <3>1. s1 = [st EXCEPT !.latest.end = h[t].end]
      BY <2>4
    <3> HIDE DEF s1
    <3>2. s1 \in States
      BY <2>1, <2>2, <3>1 DEF States, ScanRead
    <3> QED BY <1>1, <2>1, <2>4, <3>1, <3>2
  <2>5. CASE a \notin {"start", "end"}
    <3>1. s1 = st
      BY <2>5
    <3> HIDE DEF s1
    <3> QED BY <1>1, <2>1, <2>5, <3>1
  <2> QED BY <2>3, <2>4, <2>5
<1>3. Frames!Detecting(h, st, t, a) =
        IF s1.current # 0 THEN Frames!WhileOpen(s1, t)
        ELSE IF Frames!Fires(s1.starting, s)
        THEN Frames!WhileOpen([s1 EXCEPT !.starting = s, !.current = s.since,
                                         !.ending = Frames!Watching(FALSE)], t)
        ELSE [s1 EXCEPT !.starting = s]
  BY DEF Frames!Detecting
<1>4. r # "none" => \E u \in 1 .. q : h[u].start = r /\ \A v \in u + 1 .. q : h[v].start = "none"
  <2>1. CASE a = "start"
    <3>1. t \in 1 .. q /\ (\A v \in t + 1 .. q : FALSE)
      BY <2>1
    <3> QED BY <1>1, <2>1, <3>1
  <2>2. CASE a # "start"
    BY <1>1, <2>2 DEF Knows
  <2> QED BY <2>1, <2>2
<1>5. a = "start" => r # "none"
  BY <1>1 DEF Frames!Silent
<1>6. \A i \in DOMAIN st.found : Finished(st.found[i]) /\ Begun(h, st.found[i].start, t)
  BY DEF Knows
<1>7. t \in Nat /\ st.found \in Seq(Frames!Frame)
  BY DEF Knows, States
<1> HIDE DEF s1, s
<1>8. ASSUME NEW st2 \in States, st2.current # 0, st2.latest.start = r, st2.found = st.found,
             Begun(h, st2.current, t), NEW st3, st3 = Frames!WhileOpen(st2, t)
      PROVE  Knows(h, st3, t, q)
  <2>1. /\ st3 \in States /\ st3.latest = st2.latest
        /\ \/ st3.current = st2.current /\ st3.starting = st2.starting /\ st3.found = st2.found
           \/ /\ st3.current = 0 /\ st3.starting = Frames!Watching(TRUE)
              /\ \E f : Finished(f) /\ f.start = st2.current /\ st3.found = Append(st2.found, f)
    <3>1. WentOn(st2, st3)
      BY <1>7, <1>8, WhileOpenFacts
    <3> QED BY <3>1 DEF WentOn
  <2>2. CASE st3.current = st2.current /\ st3.starting = st2.starting /\ st3.found = st2.found
    BY <1>4, <1>6, <1>8, <2>1, <2>2 DEF Knows
  <2>3. CASE /\ st3.current = 0 /\ st3.starting = Frames!Watching(TRUE)
             /\ \E f : Finished(f) /\ f.start = st2.current /\ st3.found = Append(st2.found, f)
    <3>1. PICK f : Finished(f) /\ f.start = st2.current /\ st3.found = Append(st2.found, f)
      BY <2>3
    <3>2. f \in Frames!Frame /\ Begun(h, f.start, t)
      BY <1>8, <3>1 DEF Finished
    <3>3. PICK g \in Seq(Frames!Frame) : g = st.found
      BY <1>7
    <3>4. \A i \in DOMAIN Append(g, f) : Append(g, f)[i] = f \/ (i \in DOMAIN g /\ Append(g, f)[i] = g[i])
      BY <3>2, <3>3
    <3>5. \A i \in DOMAIN st3.found : Finished(st3.found[i]) /\ Begun(h, st3.found[i].start, t)
      BY <1>6, <1>8, <3>1, <3>2, <3>3, <3>4
    <3> QED BY <1>4, <1>8, <2>1, <2>3, <3>5, WatchingFacts DEF Knows
  <2> QED BY <2>1, <2>2, <2>3
<1>9. CASE st.current # 0
  <2>1. Frames!Detecting(h, st, t, a) = Frames!WhileOpen(s1, t)
    BY <1>2, <1>3, <1>9
  <2>2. Begun(h, s1.current, t)
    BY <1>2, <1>9 DEF Knows
  <2> QED BY <1>2, <1>8, <1>9, <2>1, <2>2
<1>10. CASE st.current = 0
  <2>1. s = Frames!Feed(st.starting, t, r, StartDebounce)
    BY <1>2 DEF s
  <2>2. /\ s \in Debouncers
        /\ s.seenFalse => r # "none" /\ \E u \in 1 .. q : h[u].start = "no"
        /\ s.since # 0 => s.since <= q /\ Opened(h, s.since) /\ Steady(h, s.since, q)
        /\ s.seenFalse /\ s.since = 0 => r # "yes"
        /\ s.fired => s.since # 0 /\ Begun(h, s.since, t)
    <3>1. \/ p = t - 1 /\ q = t /\ r = h[t].start /\ r # "none"
          \/ p \in {t - 1, t} /\ q = p /\ r = st.latest.start
      BY <1>1, <1>5
    <3> QED BY <1>10, <2>1, <3>1, StartingFed
  <2>3. ~ st.starting.fired
    BY <1>10 DEF Knows
  <2>4. /\ DOMAIN s1 = {"latest", "current", "starting", "ending", "found"}
        /\ s1.latest \in ScanRead /\ s1.ending \in Debouncers /\ s1.found \in Seq(Frames!Frame)
    BY <1>2 DEF States
  <2>5. s.since \in Nat /\ s.fired \in BOOLEAN
    BY <2>2 DEF Debouncers
  <2>6. CASE s.fired
    <3> DEFINE st2 == [s1 EXCEPT !.starting = s, !.current = s.since, !.ending = Frames!Watching(FALSE)]
    <3>1. Frames!Detecting(h, st, t, a) = Frames!WhileOpen(st2, t)
      BY <1>2, <1>3, <1>10, <2>3, <2>6 DEF Frames!Fires
    <3>2. PICK w \in Debouncers : w = Frames!Watching(FALSE)
      BY WatchingFacts
    <3>3. st2 = [latest |-> s1.latest, current |-> s.since, starting |-> s, ending |-> w, found |-> s1.found]
      <4>1. s1 = [latest |-> s1.latest, current |-> s1.current, starting |-> s1.starting,
                  ending |-> s1.ending, found |-> s1.found]
        BY <1>2 DEF States
      <4>2. PICK b, c, d, e, g : s1 = [latest |-> b, current |-> c, starting |-> d, ending |-> e, found |-> g]
        BY <4>1
      <4>3. PICK n : n = s.since
        OBVIOUS
      <4>4. st2 = [s1 EXCEPT !.starting = s, !.current = n, !.ending = w]
        BY <3>2, <4>3, Zenon
      <4> HIDE DEF st2
      <4>5. st2 = [latest |-> b, current |-> n, starting |-> s, ending |-> w, found |-> g]
        BY <4>2, <4>4
      <4> QED BY <4>2, <4>3, <4>5
    <3> HIDE DEF st2
    <3>4. st2 \in States
      BY <2>2, <2>4, <2>5, <3>3 DEF States
    <3>5. st2.current = s.since /\ st2.latest.start = r /\ st2.found = st.found
      BY <1>2, <3>3
    <3> QED BY <1>8, <2>2, <2>6, <3>1, <3>4, <3>5
  <2>7. CASE ~ s.fired
    <3>1. Frames!Detecting(h, st, t, a) = [s1 EXCEPT !.starting = s]
      BY <1>2, <1>3, <1>10, <2>7 DEF Frames!Fires
    <3>2. PICK st3 : st3 = Frames!Detecting(h, st, t, a)
      OBVIOUS
    <3>3. st3 = [latest |-> s1.latest, current |-> 0, starting |-> s, ending |-> s1.ending, found |-> s1.found]
      BY <1>2, <1>10, <2>4, <3>1, <3>2
    <3>4. st3 \in States
      BY <2>2, <2>4, <3>3 DEF States
    <3>5. st3.current = 0 /\ st3.latest.start = r /\ st3.found = st.found /\ st3.starting = s
      BY <1>2, <3>3
    <3>6. Knows(h, st3, t, q)
      BY <1>4, <1>6, <2>2, <2>7, <3>4, <3>5 DEF Knows
    <3> QED BY <3>2, <3>6
  <2> QED BY <2>5, <2>6, <2>7
<1> QED BY <1>9, <1>10, <1>7 DEF Knows

\* One attribute of a scan, whether it has a sample or not.
LEMMA AttributeKnown ==
  ASSUME FramesAssumed, NEW h \in Seq(ScanRead), NEW t \in DOMAIN h, NEW p \in {t - 1, t}, NEW q \in Nat,
         NEW a \in Frames!Attributes, NEW st, Knows(h, st, t, p),
         a = "start" => p = t - 1 /\ q = t, a # "start" => q = p,
         q = t \/ ~ Frames!StartLeads
  PROVE  Knows(h, IF Frames!Silent(h, t, a) THEN st ELSE Frames!Detecting(h, st, t, a), t, q)
<1>0. p \in Nat
  OBVIOUS
<1>1. CASE ~ Frames!Silent(h, t, a)
  <2>1. \/ a = "start" /\ p = t - 1 /\ q = t
        \/ a # "start" /\ p \in {t - 1, t} /\ q = p
    OBVIOUS
  <2>2. Knows(h, Frames!Detecting(h, st, t, a), t, q)
    BY <1>0, <1>1, <2>1, SampleKnown
  <2> QED BY <1>1, <2>2
<1>2. CASE Frames!Silent(h, t, a) /\ a # "start"
  BY <1>2
<1>3. CASE Frames!Silent(h, t, a) /\ a = "start"
  <2>1. h[t].start = "none" /\ p = t - 1 /\ q = t
    BY <1>3 DEF Frames!Silent
  <2>2. \A v \in 1 .. q : v \in 1 .. p \/ v = t
    BY <2>1
  <2>3. \A u \in 1 .. p : u \in 1 .. q /\ \A v \in u + 1 .. q : v \in u + 1 .. p \/ v = t
    BY <2>1
  <2>4. \A s \in Nat : \A v \in s + 1 .. q : v \in s + 1 .. p \/ v = t
    BY <2>1
  <2>5. Knows(h, st, t, q)
    <3>1. st.latest.start # "none" =>
            \E u \in 1 .. q : h[u].start = st.latest.start /\ \A v \in u + 1 .. q : h[v].start = "none"
      BY <2>1, <2>3 DEF Knows
    <3>2. st.starting.since \in Nat
      BY DEF Knows, States, Debouncers
    <3>3. st.current = 0 /\ st.starting.since # 0 =>
            st.starting.since <= q /\ Steady(h, st.starting.since, q)
      BY <2>1, <2>4, <3>2 DEF Knows, Steady
    <3>4. st.current = 0 /\ st.starting.seenFalse => \E u \in 1 .. q : h[u].start = "no"
      BY <2>3 DEF Knows
    <3> QED BY <3>1, <3>3, <3>4 DEF Knows
  <2> QED BY <1>3, <2>5
<1> QED BY <1>1, <1>2, <1>3

\* How far the start attribute has been read after the first i attributes of scan t.
Far(ord, t, i) == IF \E j \in 1 .. i : ord[j] = "start" THEN t ELSE t - 1

\* f tells what detection makes of the first attributes of scan t.
Attributed(h, st, t, ord, f, n) ==
  \A i \in 0 .. n : f[i] = IF i = 0 THEN st
                           ELSE IF Frames!Silent(h, t, ord[i]) THEN f[i - 1]
                           ELSE Frames!Detecting(h, f[i - 1], t, ord[i])

\* What is known after each attribute of a scan.
LEMMA AttributedKnown ==
  ASSUME FramesAssumed, NEW h \in Seq(ScanRead), NEW t \in DOMAIN h, NEW ord \in Orders,
         NEW st, Knows(h, st, t, t - 1), NEW n \in 0 .. Len(ord),
         NEW f, Attributed(h, st, t, ord, f, n)
  PROVE  \A i \in 0 .. n : Knows(h, f[i], t, Far(ord, t, i))
<1>1. /\ ord \in Seq(Frames!Attributes) /\ Len(ord) \in Nat /\ n \in Nat /\ n <= Len(ord)
      /\ \A i, j \in DOMAIN ord : ord[i] = ord[j] => i = j
      /\ Frames!StartLeads => ord[1] = "start"
  BY DEF FramesAssumed, Frames!OrdersAssumption, Frames!StartLeads, Frames!IsInjective
<1> DEFINE Bad == {i \in 0 .. n : ~ Knows(h, f[i], t, Far(ord, t, i))}
<1> SUFFICES ASSUME Bad # {} PROVE FALSE
  OBVIOUS
<1>2. Bad \subseteq Nat
  BY <1>1
<1> HIDE DEF Bad
<1>3. PICK i \in Bad : \A k \in Bad : i <= k
  BY <1>2, SmallestExists
<1> USE DEF Bad
<1>4. i \in 0 .. n /\ i \in Nat /\ ~ Knows(h, f[i], t, Far(ord, t, i))
  BY <1>1, <1>3
<1>5. i # 0
  <2>1. Far(ord, t, 0) = t - 1
    BY DEF Far
  <2>2. f[0] = st
    BY <1>1 DEF Attributed
  <2> QED BY <1>4, <2>1, <2>2
<1> DEFINE a == ord[i]
           p == Far(ord, t, i - 1)
           q == Far(ord, t, i)
<1>6. i \in DOMAIN ord /\ a \in Frames!Attributes /\ i - 1 \in 0 .. n
  BY <1>1, <1>4, <1>5
<1>7. Knows(h, f[i - 1], t, p)
  <2>1. i - 1 \notin Bad
    BY <1>2, <1>3, <1>4, <1>6
  <2> QED BY <1>6, <2>1
<1>8. f[i] = IF Frames!Silent(h, t, a) THEN f[i - 1] ELSE Frames!Detecting(h, f[i - 1], t, a)
  BY <1>4, <1>5 DEF Attributed
<1>9. p \in {t - 1, t} /\ q \in Nat /\ t \in Nat
  BY DEF Far
<1>10. a = "start" => p = t - 1 /\ q = t
  <2> SUFFICES ASSUME a = "start" PROVE p = t - 1 /\ q = t
    OBVIOUS
  <2>1. \A j \in 1 .. i - 1 : j \in DOMAIN ord /\ j # i
    BY <1>1, <1>4
  <2>2. \A j \in 1 .. i - 1 : ord[j] # "start"
    BY <1>1, <1>6, <2>1
  <2>3. i \in 1 .. i
    BY <1>4, <1>5
  <2> QED BY <2>2, <2>3 DEF Far
<1>11. a # "start" => q = p
  <2> SUFFICES ASSUME a # "start" PROVE q = p
    OBVIOUS
  <2>1. \A j \in 1 .. i : j \in 1 .. i - 1 \/ j = i
    BY <1>4
  <2>2. \A j \in 1 .. i - 1 : j \in 1 .. i
    BY <1>4
  <2> QED BY <2>1, <2>2 DEF Far
<1>12. q = t \/ ~ Frames!StartLeads
  <2> SUFFICES ASSUME Frames!StartLeads PROVE q = t
    OBVIOUS
  <2>1. 1 \in 1 .. i /\ ord[1] = "start"
    BY <1>1, <1>4, <1>5
  <2> QED BY <2>1 DEF Far
<1> HIDE DEF a, p, q
<1>13. Knows(h, f[i], t, q)
  <2>1. PICK g : g = f[i - 1]
    OBVIOUS
  <2>2. Knows(h, g, t, p) /\ f[i] = IF Frames!Silent(h, t, a) THEN g ELSE Frames!Detecting(h, g, t, a)
    BY <1>7, <1>8, <2>1
  <2>3. Knows(h, IF Frames!Silent(h, t, a) THEN g ELSE Frames!Detecting(h, g, t, a), t, q)
    BY <1>6, <1>9, <1>10, <1>11, <1>12, <2>2, AttributeKnown
  <2> QED BY <2>2, <2>3
<1> QED BY <1>4, <1>13 DEF q

\* One round of the recursion of Within.
AttributeStep(h, st, t, ord, f) ==
  [i \in 0 .. Len(ord) |-> IF i = 0 THEN st
                           ELSE IF Frames!Silent(h, t, ord[i]) THEN f[i - 1]
                           ELSE Frames!Detecting(h, f[i - 1], t, ord[i])]

\* The recursion of Within defines a function.
LEMMA AttributedExists ==
  ASSUME NEW h, NEW st, NEW t, NEW ord, Len(ord) \in Nat
  PROVE  \E f : f = AttributeStep(h, st, t, ord, f)
<1> DEFINE N == Len(ord)
           Made(f) == [i \in 0 .. N |-> IF i = 0 THEN st
                                        ELSE IF Frames!Silent(h, t, ord[i]) THEN f[i - 1]
                                        ELSE Frames!Detecting(h, f[i - 1], t, ord[i])]
           Good(f, n) == \A i \in 0 .. N : i <= n => f[i] = Made(f)[i]
           Bad == {n \in Nat : ~ \E f : Good(f, n)}
<1>1. 0 \notin Bad
  <2>1. Good(Made(<<>>), 0)
    OBVIOUS
  <2> QED BY <2>1
<1>2. ASSUME NEW n \in Nat, n \notin Bad PROVE n + 1 \notin Bad
  <2>1. PICK f : Good(f, n)
    BY <1>2
  <2>2. ASSUME NEW i \in 0 .. N, i <= n + 1 PROVE Made(f)[i] = Made(Made(f))[i]
    <3>1. CASE i = 0
      BY <3>1
    <3>2. CASE i # 0
      <4>1. i - 1 \in 0 .. N /\ i - 1 <= n
        BY <2>2, <3>2
      <4>2. f[i - 1] = Made(f)[i - 1]
        BY <2>1, <4>1
      <4> HIDE DEF Good
      <4> QED BY <3>2, <4>2
    <3> QED BY <3>1, <3>2
  <2>3. Good(Made(f), n + 1)
    BY <2>2
  <2> QED BY <2>3
<1>3. Bad = {}
  <2> SUFFICES ASSUME Bad # {} PROVE FALSE
    OBVIOUS
  <2>1. Bad \subseteq Nat
    OBVIOUS
  <2> HIDE DEF Bad
  <2>2. PICK n \in Bad : \A k \in Bad : n <= k
    BY <2>1, SmallestExists
  <2>3. n \in Nat /\ n # 0
    BY <1>1, <2>1, <2>2
  <2>4. n - 1 \in Nat /\ n - 1 \notin Bad /\ (n - 1) + 1 = n
    BY <2>2, <2>3
  <2> QED BY <1>2, <2>2, <2>4
<1>4. PICK f : Good(f, N)
  BY <1>3
<1>5. \A i \in 0 .. N : f[i] = Made(f)[i]
  BY <1>4
<1>6. Made(f) = Made(Made(f))
  <2>1. ASSUME NEW i \in 0 .. N, i # 0 PROVE f[i - 1] = Made(f)[i - 1]
    BY <1>5, <2>1
  <2> HIDE DEF Good, Bad
  <2> QED BY <2>1
<1> QED BY <1>6 DEF AttributeStep

\* The whole of scan t.
LEMMA WithinKnown ==
  ASSUME FramesAssumed, NEW h \in Seq(ScanRead), NEW t \in DOMAIN h, NEW ord \in Orders,
         NEW st, Knows(h, st, t, t - 1)
  PROVE  Knows(h, Frames!Within(h, st, t, ord), t, t)
<1>1. /\ ord \in Seq(Frames!Attributes) /\ Len(ord) \in Nat
      /\ \E j \in 1 .. Len(ord) : ord[j] = "start"
  BY DEF FramesAssumed, Frames!OrdersAssumption, Frames!Range
<1> DEFINE f == CHOOSE g : g = AttributeStep(h, st, t, ord, g)
<1>2. Frames!Within(h, st, t, ord) = f[Len(ord)]
  BY DEF Frames!Within, AttributeStep
<1>3. f = AttributeStep(h, st, t, ord, f)
  <2>1. \E g : g = AttributeStep(h, st, t, ord, g)
    BY <1>1, AttributedExists
  <2> QED BY <2>1
<1> HIDE DEF f
<1>4. Attributed(h, st, t, ord, f, Len(ord))
  BY <1>3 DEF Attributed, AttributeStep
<1>5. Knows(h, f[Len(ord)], t, Far(ord, t, Len(ord)))
  <2>1. Len(ord) \in 0 .. Len(ord)
    BY <1>1
  <2> QED BY <1>4, <2>1, AttributedKnown
<1>6. Far(ord, t, Len(ord)) = t
  BY <1>1 DEF Far
<1> QED BY <1>2, <1>5, <1>6

-----------------------------------------------------------------------------
\* g tells what detection makes of the first scans of h, from scan `since'.
Scanned(h, since, ord, g, n) ==
  \A t \in 0 .. n : g[t] = IF t = 0 \/ t < since THEN Frames!Looking ELSE Frames!Within(h, g[t - 1], t, ord)

\* Nothing is known before the first scan, and nothing is lost in the next.
LEMMA LookingKnown ==
  ASSUME NEW h, NEW t, NEW p \in Nat
  PROVE  Knows(h, Frames!Looking, t, p)
<1>1. Frames!Looking \in States
  <2>1. <<>> \in Seq(Frames!Frame)
    OBVIOUS
  <2>2. "none" \in Frames!Reports
    BY DEF Frames!Reports
  <2> QED BY <2>1, <2>2, WatchingFacts DEF Frames!Looking, States, ScanRead
<1>2. Frames!Looking.latest.start = "none" /\ Frames!Looking.current = 0 /\ Frames!Looking.found = <<>>
  BY DEF Frames!Looking
<1>3. Frames!Looking.starting = Frames!Watching(TRUE)
  BY DEF Frames!Looking
<1>4. PICK st : st = Frames!Looking
  OBVIOUS
<1>5. /\ st \in States /\ st.latest.start = "none" /\ st.current = 0 /\ st.found = <<>>
      /\ st.starting.since = 0 /\ ~ st.starting.fired /\ ~ st.starting.seenFalse
  BY <1>1, <1>2, <1>3, <1>4, WatchingFacts
<1>6. Knows(h, st, t, p)
  BY <1>5 DEF Knows
<1> QED BY <1>4, <1>6

\* What has begun, or is known, by a scan is so by a later one.
LEMMA BegunLater ==
  ASSUME FramesAssumed, NEW h, NEW s \in Nat, NEW t \in Nat, NEW u \in Nat, t <= u, Begun(h, s, t)
  PROVE  Begun(h, s, u)
BY DEF Begun, FramesAssumed, Frames!DebounceAssumption

LEMMA KnownLater ==
  ASSUME FramesAssumed, NEW h, NEW st, NEW t \in Nat, NEW u \in Nat, t <= u, NEW p, Knows(h, st, t, p)
  PROVE  Knows(h, st, u, p)
<1>1. st.current \in Nat /\ st.found \in Seq(Frames!Frame)
  BY DEF Knows, States
<1>2. st.current # 0 => Begun(h, st.current, u)
  BY <1>1, BegunLater DEF Knows
<1>3. ASSUME NEW i \in DOMAIN st.found
      PROVE  Finished(st.found[i]) /\ Begun(h, st.found[i].start, u)
  <2>1. st.found[i].start \in Nat
    <3>1. st.found[i] \in Frames!Frame
      BY <1>1, <1>3
    <3> QED BY <3>1 DEF Frames!Frame
  <2>2. Finished(st.found[i]) /\ Begun(h, st.found[i].start, t)
    BY DEF Knows
  <2> QED BY <2>1, <2>2, BegunLater
<1> QED BY <1>2, <1>3 DEF Knows

\* What is known after each scan.
LEMMA ScannedKnown ==
  ASSUME FramesAssumed, NEW h \in Seq(ScanRead), NEW since \in Int, NEW ord \in Orders,
         NEW n \in 0 .. Len(h), NEW g, Scanned(h, since, ord, g, n)
  PROVE  \A t \in 0 .. n : Knows(h, g[t], t, t)
<1> DEFINE Bad == {t \in 0 .. n : ~ Knows(h, g[t], t, t)}
<1> SUFFICES ASSUME Bad # {} PROVE FALSE
  OBVIOUS
<1>1. Bad \subseteq Nat /\ n \in Nat /\ n <= Len(h)
  OBVIOUS
<1> HIDE DEF Bad
<1>2. PICK t \in Bad : \A k \in Bad : t <= k
  BY <1>1, SmallestExists
<1> USE DEF Bad
<1>3. t \in 0 .. n /\ t \in Nat /\ ~ Knows(h, g[t], t, t)
  BY <1>1, <1>2
<1>4. t # 0 /\ t >= since
  <2> SUFFICES ASSUME t = 0 \/ t < since PROVE FALSE
    BY <1>3
  <2>1. g[t] = Frames!Looking
    BY <1>3 DEF Scanned
  <2> QED BY <1>3, <2>1, LookingKnown
<1>5. t - 1 \in 0 .. n /\ t - 1 \in Nat /\ t \in DOMAIN h
  BY <1>1, <1>3, <1>4
<1>6. t - 1 \notin Bad
  BY <1>2, <1>3
<1> DEFINE u == t - 1
<1>7. Knows(h, g[u], u, u)
  BY <1>5, <1>6
<1> HIDE DEF Bad
<1>8. Knows(h, g[u], t, u)
  <2>1. u \in Nat /\ u <= t
    BY <1>3, <1>5
  <2> HIDE DEF u
  <2>2. PICK st : st = g[u]
    OBVIOUS
  <2> QED BY <1>3, <1>7, <2>1, <2>2, KnownLater
<1>9. g[t] = Frames!Within(h, g[u], t, ord)
  BY <1>3, <1>4 DEF Scanned
<1>10. Knows(h, Frames!Within(h, g[u], t, ord), t, t)
  <2>1. PICK st : st = g[u]
    OBVIOUS
  <2>2. Knows(h, st, t, t - 1)
    BY <1>8, <2>1
  <2>3. Knows(h, Frames!Within(h, st, t, ord), t, t)
    BY <1>5, <2>2, WithinKnown
  <2> QED BY <2>1, <2>3
<1> QED BY <1>3, <1>9, <1>10

\* One round of the recursion of Detect, as far as scan N.
ScanStep(h, since, ord, N, g) ==
  [t \in 0 .. N |-> IF t = 0 \/ t < since THEN Frames!Looking ELSE Frames!Within(h, g[t - 1], t, ord)]

\* The recursion of Detect defines a function.
LEMMA ScannedExists ==
  ASSUME NEW h, NEW since, NEW ord, NEW N \in Nat
  PROVE  \E g : g = ScanStep(h, since, ord, N, g)
<1> DEFINE Made(g) == [t \in 0 .. N |-> IF t = 0 \/ t < since THEN Frames!Looking
                                        ELSE Frames!Within(h, g[t - 1], t, ord)]
           Good(g, n) == \A t \in 0 .. N : t <= n => g[t] = Made(g)[t]
           Bad == {n \in Nat : ~ \E g : Good(g, n)}
<1>1. 0 \notin Bad
  <2>1. Good(Made(<<>>), 0)
    OBVIOUS
  <2> QED BY <2>1
<1>2. ASSUME NEW n \in Nat, n \notin Bad PROVE n + 1 \notin Bad
  <2>1. PICK g : Good(g, n)
    BY <1>2
  <2>2. ASSUME NEW t \in 0 .. N, t <= n + 1 PROVE Made(g)[t] = Made(Made(g))[t]
    <3>1. CASE t = 0
      BY <3>1
    <3>2. CASE t # 0
      <4>1. t - 1 \in 0 .. N /\ t - 1 <= n
        BY <2>2, <3>2
      <4>2. g[t - 1] = Made(g)[t - 1]
        BY <2>1, <4>1
      <4> HIDE DEF Good
      <4> QED BY <3>2, <4>2
    <3> QED BY <3>1, <3>2
  <2>3. Good(Made(g), n + 1)
    BY <2>2
  <2> QED BY <2>3
<1>3. Bad = {}
  <2> SUFFICES ASSUME Bad # {} PROVE FALSE
    OBVIOUS
  <2>1. Bad \subseteq Nat
    OBVIOUS
  <2> HIDE DEF Bad
  <2>2. PICK n \in Bad : \A k \in Bad : n <= k
    BY <2>1, SmallestExists
  <2>3. n \in Nat /\ n # 0
    BY <1>1, <2>1, <2>2
  <2>4. n - 1 \in Nat /\ n - 1 \notin Bad /\ (n - 1) + 1 = n
    BY <2>2, <2>3
  <2> QED BY <1>2, <2>2, <2>4
<1>4. PICK g : Good(g, N)
  BY <1>3
<1>5. \A t \in 0 .. N : g[t] = Made(g)[t]
  BY <1>4
<1>6. Made(g) = Made(Made(g))
  <2>1. ASSUME NEW t \in 0 .. N, t # 0 PROVE g[t - 1] = Made(g)[t - 1]
    BY <1>5, <2>1
  <2> HIDE DEF Good, Bad
  <2> QED BY <2>1
<1> QED BY <1>6 DEF ScanStep

\* A frame of a window: over, or the last and open.
Sound(h, f) ==
  /\ f \in Frames!Frame /\ (f.end = 0 <=> f.status = "open") /\ (f.end # 0 => f.start < f.end)
  /\ Begun(h, f.start, Len(h))

\* Whatever the window, every frame found in it begins with an edge.
LEMMA DetectSound ==
  ASSUME FramesAssumed, NEW h \in Seq(ScanRead), NEW since \in Int, NEW until \in Nat, NEW ord \in Orders
  PROVE  /\ Frames!Detect(h, since, until, ord) \in Seq(Frames!Frame)
         /\ \A i \in DOMAIN Frames!Detect(h, since, until, ord) : Sound(h, Frames!Detect(h, since, until, ord)[i])
<1> DEFINE last == IF until > Len(h) THEN Len(h) ELSE until
           g == CHOOSE x : x = ScanStep(h, since, ord, last, x)
           st == g[last]
<1>1. Frames!Detect(h, since, until, ord) =
        IF st.current = 0 THEN st.found
        ELSE Append(st.found, [start |-> st.current, end |-> 0, status |-> "open"])
  BY DEF Frames!Detect, ScanStep
<1>2. last \in Nat /\ last <= Len(h) /\ Len(h) \in Nat
  OBVIOUS
<1> HIDE DEF last
<1>3. g = ScanStep(h, since, ord, last, g)
  <2>1. \E x : x = ScanStep(h, since, ord, last, x)
    BY <1>2, ScannedExists
  <2> QED BY <2>1
<1> HIDE DEF g
<1>4. Scanned(h, since, ord, g, last)
  BY <1>2, <1>3 DEF Scanned, ScanStep
<1>5. Knows(h, st, last, last)
  <2>1. last \in 0 .. Len(h) /\ last \in 0 .. last
    BY <1>2
  <2> QED BY <1>4, <2>1, ScannedKnown
<1>6. Knows(h, st, Len(h), last)
  BY <1>2, <1>5, KnownLater
<1> HIDE DEF st
<1>7. st.found \in Seq(Frames!Frame) /\ st.current \in Nat
  BY <1>6 DEF Knows, States
<1>8. \A i \in DOMAIN st.found : Sound(h, st.found[i])
  <2> SUFFICES ASSUME NEW i \in DOMAIN st.found PROVE Sound(h, st.found[i])
    OBVIOUS
  <2>1. PICK f : f = st.found[i]
    OBVIOUS
  <2>2. Finished(f) /\ Begun(h, f.start, Len(h))
    BY <1>6, <2>1 DEF Knows
  <2>3. Sound(h, f)
    BY <2>2 DEF Sound, Finished, Frames!Frame
  <2> QED BY <2>1, <2>3
<1>9. CASE st.current = 0
  BY <1>1, <1>7, <1>8, <1>9
<1>10. CASE st.current # 0
  <2> DEFINE f == [start |-> st.current, end |-> 0, status |-> "open"]
  <2>1. f \in Frames!Frame
    BY <1>7 DEF Frames!Frame
  <2>2. Sound(h, f)
    BY <1>6, <1>10, <2>1 DEF Sound, Knows
  <2> HIDE DEF f
  <2>3. Frames!Detect(h, since, until, ord) = Append(st.found, f)
    BY <1>1, <1>10 DEF f
  <2>4. PICK q \in Seq(Frames!Frame) : q = st.found
    BY <1>7
  <2>5. \A i \in DOMAIN Append(q, f) : Append(q, f)[i] = f \/ (i \in DOMAIN q /\ Append(q, f)[i] = q[i])
    BY <2>1, <2>4
  <2>6. Append(q, f) \in Seq(Frames!Frame) /\ \A i \in DOMAIN Append(q, f) : Sound(h, Append(q, f)[i])
    BY <1>8, <2>1, <2>2, <2>4, <2>5
  <2> QED BY <2>3, <2>4, <2>6
<1> QED BY <1>9, <1>10

-----------------------------------------------------------------------------
\* And whether it is for what is stored.
Slack == IF read < 0 \/ ~ Frames!StartLeads THEN 1 ELSE 0

\* What is true of a stored frame.
Rooted(h, f, k) ==
  /\ f \in Frames!Frame /\ (f.end = 0 <=> f.status = "open") /\ (f.end # 0 => f.start < f.end)
  /\ Opened(h, f.start) /\ f.start + StartDebounce <= Len(h)
  /\ Steady(h, f.start, f.start + StartDebounce - k)

\* The types of the variables other than the table.
FramesTyped ==
  /\ now \in 0 .. Horizon
  /\ hist \in Seq(Frames!Scan) /\ Len(hist) <= now
  /\ framesRan \in 0 .. now
  /\ order \in Orders
  /\ read \in -1 .. Len(hist)

\* The invariant.
AllRooted == \A f \in frames : Rooted(hist, f, Slack)

LEMMA RootedLooser ==
  ASSUME FramesAssumed, NEW h, NEW f, NEW j \in {0, 1}, NEW k \in {0, 1}, j <= k, Rooted(h, f, j)
  PROVE  Rooted(h, f, k)
<1>1. f.start \in Nat /\ StartDebounce \in Nat
  BY DEF Rooted, Frames!Frame, FramesAssumed, Frames!DebounceAssumption
<1>2. \A v \in f.start + 1 .. f.start + StartDebounce - k : v \in f.start + 1 .. f.start + StartDebounce - j
  BY <1>1
<1>3. Steady(h, f.start, f.start + StartDebounce - k)
  BY <1>2 DEF Rooted, Steady
<1> QED BY <1>3 DEF Rooted

\* A frame of h is one of g too, where g reads like h but for h's last scan.
LEMMA RootedElsewhere ==
  ASSUME FramesAssumed, NEW h, Len(h) \in Nat, DOMAIN h = 1 .. Len(h), NEW g, Len(g) \in Nat, DOMAIN g = 1 .. Len(g),
         Len(h) <= Len(g),
         NEW f, NEW k \in {0, 1}, NEW m \in {0, 1}, Rooted(h, f, m), m <= k,
         \A v \in 1 .. Len(h) - k : g[v].start = h[v].start,
         h[Len(h)].start = "yes" => g[Len(h)].start = "yes"
  PROVE  Rooted(g, f, k)
<1> DEFINE s == f.start
<1>1. s \in Nat /\ StartDebounce \in Nat
  BY DEF Rooted, Frames!Frame, FramesAssumed, Frames!DebounceAssumption
<1>2. /\ s \in DOMAIN h /\ h[s].start = "yes" /\ s + StartDebounce <= Len(h)
      /\ \E u \in 1 .. s - 1 : h[u].start = "no"
      /\ \E u \in 1 .. s - 1 : /\ h[u].start \notin {"none", "yes"}
                               /\ \A v \in u + 1 .. s - 1 : h[v].start = "none"
  BY DEF Rooted, Opened
<1>3. Steady(h, s, s + StartDebounce - m)
  BY DEF Rooted
<1> HIDE DEF s
<1>4. s >= 1 /\ s <= Len(h) /\ s \in DOMAIN g
  BY <1>1, <1>2
<1>5. \A v \in 1 .. s - 1 : g[v].start = h[v].start
  BY <1>4
<1>6. g[s].start = "yes"
  <2>1. CASE s = Len(h)
    BY <1>2, <2>1
  <2>2. CASE s < Len(h)
    <3>1. s \in 1 .. Len(h) - k
      BY <1>1, <1>4, <2>2
    <3> QED BY <1>2, <3>1
  <2>3. s = Len(h) \/ s < Len(h)
    <3>1. PICK n \in Nat : n = Len(h)
      OBVIOUS
    <3>2. s \in Nat /\ s <= n
      BY <1>1, <1>4, <3>1
    <3>3. s = n \/ s < n
      BY <3>2
    <3> QED BY <3>1, <3>3
  <2> QED BY <2>1, <2>2, <2>3
<1>7. Opened(g, s)
  <2>1. \E u \in 1 .. s - 1 : g[u].start = "no"
    BY <1>2, <1>5
  <2>2. PICK u \in 1 .. s - 1 : /\ h[u].start \notin {"none", "yes"}
                                /\ \A v \in u + 1 .. s - 1 : h[v].start = "none"
    BY <1>2
  <2>3. g[u].start \notin {"none", "yes"}
    BY <1>5, <2>2
  <2>4. \A v \in u + 1 .. s - 1 : g[v].start = "none"
    <3>1. \A v \in u + 1 .. s - 1 : v \in 1 .. s - 1
      BY <1>1, <2>2
    <3> QED BY <1>5, <2>2, <3>1
  <2> QED BY <1>4, <1>6, <2>1, <2>3, <2>4 DEF Opened
<1>8. Steady(g, s, s + StartDebounce - k)
  <2> SUFFICES ASSUME NEW v \in s + 1 .. s + StartDebounce - k PROVE g[v].start \in {"yes", "none"}
    BY DEF Steady
  <2>1. v \in s + 1 .. s + StartDebounce - m /\ v \in 1 .. Len(h) - k
    BY <1>1, <1>2
  <2> QED BY <1>3, <2>1 DEF Steady
<1>9. s + StartDebounce <= Len(g)
  BY <1>1, <1>2
<1> QED BY <1>7, <1>8, <1>9 DEF Rooted, s

\* What a pass reads is a history like any other, ...
LEMMA FoundIsRead ==
  ASSUME FramesAssumed, hist \in Seq(Frames!Scan), NEW h \in Frames!Found
  PROVE  /\ h \in Seq(ScanRead) /\ Len(h) = Len(hist)
         /\ \A v \in 1 .. Len(h) - 1 : hist[v].start = h[v].start
         /\ h[Len(h)].start = "yes" => hist[Len(h)].start = "yes"
<1>1. hist \in Seq(ScanRead) /\ Len(hist) \in Nat
  <2>1. Frames!Scan \subseteq ScanRead
    BY DEF Frames!Scan, ScanRead, FramesAssumed, Frames!ReportsAssumption
  <2> QED BY <2>1
<1>2. CASE h = hist
  BY <1>1, <1>2
<1>3. ASSUME hist # <<>>, NEW r \in ScanRead, h = [hist EXCEPT ![Len(hist)] = r],
             r.start = "yes" => hist[Len(hist)].start = "yes"
      PROVE  /\ h \in Seq(ScanRead) /\ Len(h) = Len(hist)
             /\ \A v \in 1 .. Len(h) - 1 : hist[v].start = h[v].start
             /\ h[Len(h)].start = "yes" => hist[Len(h)].start = "yes"
  <2>1. h \in Seq(ScanRead) /\ Len(h) = Len(hist)
    BY <1>1, <1>3
  <2>2. Len(hist) \in DOMAIN hist
    BY <1>1, <1>3
  <2>3. h[Len(hist)] = r /\ \A v \in DOMAIN hist : v # Len(hist) => h[v] = hist[v]
    BY <1>1, <1>3, <2>2
  <2>4. \A v \in 1 .. Len(hist) - 1 : v \in DOMAIN hist /\ v # Len(hist)
    BY <1>1
  <2> QED BY <1>3, <2>1, <2>3, <2>4
<1>4. CASE h # hist
  <2>1. /\ hist # <<>>
        /\ \/ h = [hist EXCEPT ![Len(hist)].start = "none"]
           \/ h = [hist EXCEPT ![Len(hist)].end = "none"]
    BY <1>4 DEF Frames!Found
  <2>2. PICK x \in ScanRead : x = hist[Len(hist)]
    BY <1>1, <2>1
  <2>3. CASE h = [hist EXCEPT ![Len(hist)].start = "none"]
    <3>1. PICK r : r = [x EXCEPT !.start = "none"]
      OBVIOUS
    <3>2. r \in ScanRead /\ r.start = "none"
      BY <2>2, <3>1 DEF ScanRead, Frames!Reports
    <3>3. h = [hist EXCEPT ![Len(hist)] = r]
      BY <2>2, <2>3, <3>1
    <3> QED BY <1>3, <2>1, <3>2, <3>3
  <2>4. CASE h = [hist EXCEPT ![Len(hist)].end = "none"]
    <3>1. PICK r : r = [x EXCEPT !.end = "none"]
      OBVIOUS
    <3>2. r \in ScanRead /\ r.start = x.start
      BY <2>2, <3>1 DEF ScanRead, Frames!Reports
    <3>3. h = [hist EXCEPT ![Len(hist)] = r]
      BY <2>2, <2>4, <3>1
    <3> QED BY <1>3, <2>1, <2>2, <3>2, <3>3
  <2> QED BY <2>1, <2>3, <2>4
<1> QED BY <1>2, <1>4

\* ... and what is found in it is true of the archive.
LEMMA FoundIsRooted ==
  ASSUME FramesAssumed, hist \in Seq(Frames!Scan), NEW h \in Frames!Found, NEW f, Sound(h, f), NEW k \in {0, 1},
         h # hist \/ ~ Frames!StartLeads => k = 1
  PROVE  Rooted(hist, f, k)
<1>1. h \in Seq(ScanRead) /\ Len(h) = Len(hist) /\ DOMAIN h = 1 .. Len(h) /\ Len(h) \in Nat
  BY FoundIsRead
<1>2. DOMAIN hist = 1 .. Len(hist) /\ Len(hist) \in Nat
  OBVIOUS
<1>3. Unsure \in {0, 1} /\ Unsure <= k
  BY DEF Unsure
<1>4. Rooted(h, f, Unsure)
  BY DEF Sound, Begun, Rooted
<1>5. CASE h = hist
  <2>1. PICK m \in {0, 1} : m = Unsure
    BY <1>3
  <2> QED BY <1>3, <1>4, <1>5, <2>1, RootedLooser
<1>6. CASE h # hist
  <2>1. /\ \A v \in 1 .. Len(h) - k : hist[v].start = h[v].start
        /\ h[Len(h)].start = "yes" => hist[Len(h)].start = "yes"
    BY <1>6, FoundIsRead
  <2>2. PICK m \in {0, 1} : m = Unsure
    BY <1>3
  <2>3. Rooted(h, f, m) /\ m <= k /\ Len(h) <= Len(hist)
    BY <1>1, <1>2, <1>3, <1>4, <2>2
  <2> QED BY <1>1, <1>2, <2>1, <2>3, RootedElsewhere
<1> QED BY <1>5, <1>6

\* One round of the recursion of Pass.
StoreStep(kept, fs, g) ==
  [n \in 0 .. Len(fs) |-> IF n = 0 THEN kept ELSE Frames!Stored(g[n - 1], fs[n])]

\* The recursion of Pass defines a function.
LEMMA StoredExists ==
  ASSUME NEW kept, NEW fs, Len(fs) \in Nat
  PROVE  \E g : g = StoreStep(kept, fs, g)
<1> DEFINE N == Len(fs)
           Made(g) == [n \in 0 .. N |-> IF n = 0 THEN kept ELSE Frames!Stored(g[n - 1], fs[n])]
           Good(g, m) == \A n \in 0 .. N : n <= m => g[n] = Made(g)[n]
           Bad == {m \in Nat : ~ \E g : Good(g, m)}
<1>1. 0 \notin Bad
  <2>1. Good(Made(<<>>), 0)
    OBVIOUS
  <2> QED BY <2>1
<1>2. ASSUME NEW m \in Nat, m \notin Bad PROVE m + 1 \notin Bad
  <2>1. PICK g : Good(g, m)
    BY <1>2
  <2>2. ASSUME NEW n \in 0 .. N, n <= m + 1 PROVE Made(g)[n] = Made(Made(g))[n]
    <3>1. CASE n = 0
      BY <3>1
    <3>2. CASE n # 0
      <4>1. n - 1 \in 0 .. N /\ n - 1 <= m
        BY <2>2, <3>2
      <4>2. g[n - 1] = Made(g)[n - 1]
        BY <2>1, <4>1
      <4> HIDE DEF Good
      <4> QED BY <3>2, <4>2
    <3> QED BY <3>1, <3>2
  <2>3. Good(Made(g), m + 1)
    BY <2>2
  <2> QED BY <2>3
<1>3. Bad = {}
  <2> SUFFICES ASSUME Bad # {} PROVE FALSE
    OBVIOUS
  <2>1. Bad \subseteq Nat
    OBVIOUS
  <2> HIDE DEF Bad
  <2>2. PICK m \in Bad : \A k \in Bad : m <= k
    BY <2>1, SmallestExists
  <2>3. m \in Nat /\ m # 0
    BY <1>1, <2>1, <2>2
  <2>4. m - 1 \in Nat /\ m - 1 \notin Bad /\ (m - 1) + 1 = m
    BY <2>2, <2>3
  <2> QED BY <1>2, <2>2, <2>4
<1>4. PICK g : Good(g, N)
  BY <1>3
<1>5. \A n \in 0 .. N : g[n] = Made(g)[n]
  BY <1>4
<1>6. Made(g) = Made(Made(g))
  <2>1. ASSUME NEW n \in 0 .. N, n # 0 PROVE g[n - 1] = Made(g)[n - 1]
    BY <1>5, <2>1
  <2> HIDE DEF Good, Bad
  <2> QED BY <2>1
<1> QED BY <1>6 DEF StoreStep

\* Each row stored is one that was kept or one that was found.
AllFrom(kept, fs, g) ==
  \A n \in 0 .. Len(fs) : \A f \in g[n] : f \in kept \/ \E i \in 1 .. Len(fs) : f = fs[i]

LEMMA StoredRows ==
  ASSUME NEW kept, NEW fs, Len(fs) \in Nat, NEW g, g = StoreStep(kept, fs, g)
  PROVE  AllFrom(kept, fs, g)
<1> DEFINE Row(f) == f \in kept \/ \E i \in 1 .. Len(fs) : f = fs[i]
           Bad == {n \in 0 .. Len(fs) : ~ \A f \in g[n] : Row(f)}
<1> SUFFICES ASSUME Bad # {} PROVE FALSE
  BY DEF AllFrom
<1>1. Bad \subseteq Nat
  OBVIOUS
<1> HIDE DEF Bad
<1>2. PICK n \in Bad : \A k \in Bad : n <= k
  BY <1>1, SmallestExists
<1> USE DEF Bad
<1>3. n \in 0 .. Len(fs) /\ n \in Nat
  BY <1>1, <1>2
<1>4. g[n] = IF n = 0 THEN kept ELSE Frames!Stored(g[n - 1], fs[n])
  <2> DEFINE G == StoreStep(kept, fs, g)
  <2>1. G[n] = IF n = 0 THEN kept ELSE Frames!Stored(g[n - 1], fs[n])
    BY <1>3 DEF StoreStep
  <2>2. g = G
    OBVIOUS
  <2> HIDE DEF G
  <2> QED BY <2>1, <2>2
<1>5. CASE n = 0
  BY <1>2, <1>4, <1>5
<1>6. CASE n # 0
  <2>1. n - 1 \in 0 .. Len(fs) /\ n - 1 \notin Bad /\ n \in 1 .. Len(fs)
    BY <1>2, <1>3, <1>6
  <2>2. \A f \in g[n - 1] : Row(f)
    BY <2>1
  <2>3. \A f \in g[n] : f \in g[n - 1] \/ f = fs[n]
    BY <1>4, <1>6 DEF Frames!Stored
  <2>4. \A f \in g[n] : Row(f)
    BY <2>1, <2>2, <2>3
  <2> QED BY <1>2, <2>4
<1> QED BY <1>5, <1>6

\* Giving up an open frame changes its end alone.
LEMMA GivenUpRooted ==
  ASSUME FramesAssumed, NEW k \in {0, 1}, \A f \in frames : Rooted(hist, f, k)
  PROVE  \A f \in Frames!GivenUp(frames) : Rooted(hist, f, k)
<1> SUFFICES ASSUME NEW g \in frames, g.end = 0,
                    NEW f, f = [g EXCEPT !.end = g.start + MaxDuration, !.status = "aborted"]
             PROVE  Rooted(hist, f, k)
  BY DEF Frames!GivenUp
<1>1. g \in Frames!Frame /\ Rooted(hist, g, k)
  BY DEF Rooted
<1>2. g.start \in Nat /\ MaxDuration \in Nat /\ MaxDuration > 0
  BY <1>1 DEF Frames!Frame, FramesAssumed, Frames!WindowAssumption
<1>3. PICK e \in Nat : e = g.start + MaxDuration
  BY <1>2
<1>4. f = [g EXCEPT !.end = e, !.status = "aborted"]
  BY <1>3
<1>5. f = [start |-> g.start, end |-> e, status |-> "aborted"]
  BY <1>1, <1>4 DEF Frames!Frame
<1>6. f \in Frames!Frame /\ f.start = g.start /\ f.end = e /\ f.status = "aborted"
  <2>1. PICK b \in Nat : b = g.start
    BY <1>2
  <2>2. PICK x : x = [start |-> b, end |-> e, status |-> "aborted"]
    OBVIOUS
  <2>3. x \in Frames!Frame /\ x.start = b /\ x.end = e /\ x.status = "aborted"
    BY <2>2 DEF Frames!Frame
  <2>4. f = x
    BY <1>5, <2>1, <2>2
  <2> QED BY <2>1, <2>3, <2>4
<1>7. e # 0 /\ f.start < e
  BY <1>2, <1>3, <1>6
<1> QED BY <1>1, <1>6, <1>7 DEF Rooted

LEMMA SinceInt ==
  ASSUME FramesAssumed, NEW F, \A f \in F : f.start \in Nat, now \in Nat, framesRan \in Nat
  PROVE  Frames!Since(F) \in Int
<1> DEFINE open == {f.start : f \in {g \in F : g.end = 0 /\ g.start >= Frames!Longest}}
<1>1. Frames!Longest \in Int /\ Margin \in Nat /\ Back \in Nat
  BY DEF Frames!Longest, FramesAssumed, Frames!WindowAssumption
<1>2. open # {} => Min(open) \in Nat
  <2>1. open \subseteq Nat
    OBVIOUS
  <2> HIDE DEF open
  <2> QED BY <2>1, MinIsLeast
<1> DEFINE least == Min(open)
<1> HIDE DEF open
<1>3. open # {} => least \in Nat
  BY <1>2
<1> DEFINE recent == IF Frames!Longest > framesRan - Margin THEN Frames!Longest ELSE framesRan - Margin
<1>4. recent \in Int
  BY <1>1
<1>5. Frames!Since(F) = IF framesRan = 0 THEN Frames!Longest
                        ELSE IF open # {} /\ least - Back < recent THEN least - Back
                        ELSE recent
  <2>1. Frames!Since(F) = IF framesRan = 0 THEN Frames!Longest
                          ELSE IF open # {} /\ Frames!Min(open) - Back < recent THEN Frames!Min(open) - Back
                          ELSE recent
    BY DEF Frames!Since, open
  <2>2. Frames!Min(open) = least
    BY SameExtrema
  <2> QED BY <2>1, <2>2
<1> HIDE DEF least, recent
<1> QED BY <1>1, <1>3, <1>4, <1>5

LEMMA PassRooted ==
  ASSUME FramesAssumed, FramesTyped, AllRooted, Frames!Pass
  PROVE  FramesTyped' /\ AllRooted'
<1> DEFINE kept == Frames!GivenUp(frames)
           Fs(h) == Frames!Detect(h, Frames!Since(kept), now, order)
           Rows(h) == CHOOSE g : g = StoreStep(kept, Fs(h), g)
<1>1. /\ hist \in Seq(Frames!Scan) /\ Len(hist) \in Nat /\ now \in Nat /\ framesRan \in Nat /\ order \in Orders
      /\ read \in Int /\ framesRan \in 0 .. now /\ Len(hist) <= now /\ read \in -1 .. Len(hist)
      /\ now \in 0 .. Horizon
  BY DEF FramesTyped, FramesAssumed
<1>a. now' = now /\ hist' = hist /\ order' = order
  BY DEF Frames!Pass
<1>2. \E h \in Frames!Found :
        \E n \in 0 .. Len(Fs(h)) :
          /\ \A i \in 1 .. n : Frames!Admits(Rows(h)[i - 1], Fs(h)[i])
          /\ frames' = Rows(h)[n]
          /\ framesRan' = IF n = Len(Fs(h)) THEN now ELSE framesRan
          /\ read' = IF read = -1 \/ h # hist THEN -1
                     ELSE IF n = Len(Fs(h)) THEN Len(hist)
                     ELSE 0
  BY DEF Frames!Pass, StoreStep
<1> HIDE DEF Fs, Rows
<1>b. PICK h \in Frames!Found :
        \E n \in 0 .. Len(Fs(h)) :
          /\ frames' = Rows(h)[n]
          /\ framesRan' = IF n = Len(Fs(h)) THEN now ELSE framesRan
          /\ read' = IF read = -1 \/ h # hist THEN -1
                     ELSE IF n = Len(Fs(h)) THEN Len(hist)
                     ELSE 0
  BY <1>2
<1>3. PICK n \in 0 .. Len(Fs(h)) :
          /\ frames' = Rows(h)[n]
          /\ framesRan' = IF n = Len(Fs(h)) THEN now ELSE framesRan
          /\ read' = IF read = -1 \/ h # hist THEN -1
                     ELSE IF n = Len(Fs(h)) THEN Len(hist)
                     ELSE 0
  BY <1>b
<1> HIDE DEF kept
<1>4. FramesTyped'
  <2>1. read' \in -1 .. Len(hist) /\ framesRan' \in 0 .. now
    BY <1>1, <1>3
  <2> QED BY <1>1, <1>a, <2>1 DEF FramesTyped
<1>5. PICK k \in {0, 1} : k = Slack'
  BY DEF Slack
<1>6. /\ Slack <= k /\ Slack \in {0, 1}
      /\ h # hist \/ ~ Frames!StartLeads => k = 1
  <2>a. read = -1 \/ h # hist => read' = -1
    BY <1>3
  <2>b. read < 0 => read = -1
    BY <1>1
  <2>1. read < 0 => read' < 0
    BY <2>a, <2>b
  <2>2. h # hist => read' < 0
    BY <2>a
  <2>3. k = IF read' < 0 \/ ~ Frames!StartLeads THEN 1 ELSE 0
    BY <1>5 DEF Slack, Frames!StartLeads
  <2>4. Slack = IF read < 0 \/ ~ Frames!StartLeads THEN 1 ELSE 0
    BY DEF Slack
  <2> QED BY <2>1, <2>2, <2>3, <2>4
<1>7. \A f \in kept : Rooted(hist, f, k) /\ f.start \in Nat
  <2>1. \A f \in frames : Rooted(hist, f, k)
    <3>1. PICK m \in {0, 1} : m = Slack
      BY <1>6
    <3> QED BY <1>6, <3>1, RootedLooser DEF AllRooted
  <2>2. \A f \in kept : Rooted(hist, f, k)
    BY <2>1, GivenUpRooted DEF kept
  <2> QED BY <2>2 DEF Rooted, Frames!Frame
<1>8. Fs(h) \in Seq(Frames!Frame) /\ \A i \in DOMAIN Fs(h) : Rooted(hist, Fs(h)[i], k)
  <2>1. PICK since \in Int : since = Frames!Since(kept)
    BY <1>1, <1>7, SinceInt
  <2>2. h \in Seq(ScanRead)
    BY <1>1, FoundIsRead
  <2>3. Frames!Detect(h, since, now, order) \in Seq(Frames!Frame) /\
        \A i \in DOMAIN Frames!Detect(h, since, now, order) : Sound(h, Frames!Detect(h, since, now, order)[i])
    BY <1>1, <2>2, DetectSound
  <2>4. Fs(h) = Frames!Detect(h, since, now, order)
    BY <2>1 DEF Fs
  <2>5. Fs(h) \in Seq(Frames!Frame) /\ \A i \in DOMAIN Fs(h) : Sound(h, Fs(h)[i])
    BY <2>3, <2>4
  <2>6. \A f : Sound(h, f) => Rooted(hist, f, k)
    BY <1>1, <1>6, FoundIsRooted
  <2> QED BY <2>5, <2>6
<1>9. \A f \in frames' : Rooted(hist, f, k)
  <2>1. PICK fs \in Seq(Frames!Frame) : fs = Fs(h)
    BY <1>8
  <2>2. Len(fs) \in Nat /\ DOMAIN fs = 1 .. Len(fs)
    BY <2>1
  <2> DEFINE g == CHOOSE x : x = StoreStep(kept, fs, x)
  <2>3. g = StoreStep(kept, fs, g)
    <3>1. \E x : x = StoreStep(kept, fs, x)
      BY <2>2, StoredExists
    <3> QED BY <3>1
  <2>4. frames' = g[n] /\ n \in 0 .. Len(fs)
    BY <1>3, <2>1 DEF Rows
  <2> HIDE DEF g
  <2>5. \A f \in g[n] : f \in kept \/ \E i \in 1 .. Len(fs) : f = fs[i]
    <3>1. AllFrom(kept, fs, g)
      <4>1. PICK x : x = g
        OBVIOUS
      <4>2. x = StoreStep(kept, fs, x)
        BY <2>3, <4>1, Zenon
      <4>3. AllFrom(kept, fs, x)
        BY <2>2, <4>2, StoredRows
      <4> QED BY <4>1, <4>3
    <3> QED BY <2>4, <3>1 DEF AllFrom
  <2> QED BY <1>7, <1>8, <2>1, <2>2, <2>4, <2>5
<1>10. AllRooted'
  BY <1>a, <1>5, <1>9 DEF AllRooted
<1> QED BY <1>4, <1>10

LEMMA RecordRooted ==
  ASSUME FramesAssumed, FramesTyped, AllRooted, Frames!Record
  PROVE  FramesTyped' /\ AllRooted'
<1>1. /\ hist \in Seq(Frames!Scan) /\ Len(hist) \in Nat /\ now \in Nat /\ Len(hist) < now
      /\ UNCHANGED <<now, frames, framesRan, order, read>>
  BY DEF FramesTyped, Frames!Record
<1>2. PICK s \in Frames!Scan : hist' = Append(hist, s)
  BY DEF Frames!Record
<1>3. PICK g : g = hist'
  OBVIOUS
<1>4. /\ g \in Seq(Frames!Scan) /\ Len(g) = Len(hist) + 1 /\ DOMAIN g = 1 .. Len(g)
      /\ \A v \in 1 .. Len(hist) : g[v] = hist[v]
  BY <1>1, <1>2, <1>3
<1>5. FramesTyped'
  BY <1>1, <1>3, <1>4 DEF FramesTyped
<1>6. PICK k \in {0, 1} : k = Slack /\ k = Slack'
  BY <1>1 DEF Slack, Frames!StartLeads
<1>7. \A f \in frames : Rooted(g, f, k)
  <2> SUFFICES ASSUME NEW f \in frames PROVE Rooted(g, f, k)
    OBVIOUS
  <2>1. Rooted(hist, f, k) /\ DOMAIN hist = 1 .. Len(hist)
    BY <1>1, <1>6 DEF AllRooted
  <2>2. /\ \A v \in 1 .. Len(hist) - k : g[v].start = hist[v].start
        /\ Len(hist) \in 1 .. Len(hist) => g[Len(hist)] = hist[Len(hist)]
    BY <1>1, <1>4
  <2>3. Len(hist) # 0
    BY <1>1, <2>1 DEF Rooted, Opened
  <2>4. Len(hist) <= Len(g) /\ Len(g) \in Nat /\ g[Len(hist)] = hist[Len(hist)]
    BY <1>1, <1>4, <2>2, <2>3
  <2> QED BY <1>1, <1>4, <2>1, <2>2, <2>4, RootedElsewhere
<1>8. AllRooted'
  BY <1>1, <1>3, <1>6, <1>7 DEF AllRooted
<1> QED BY <1>5, <1>8

LEMMA RootedInit ==
  ASSUME FramesAssumed, Frames!BoundAssumption, Frames!Init
  PROVE  FramesTyped /\ AllRooted
<1>1. hist \in Seq(Frames!Scan) /\ Len(hist) = 0 /\ Horizon \in Nat
  BY DEF Frames!Init, Frames!BoundAssumption
<1> QED BY <1>1 DEF Frames!Init, FramesTyped, AllRooted

LEMMA RootedNext ==
  ASSUME FramesAssumed, Frames!BoundAssumption, FramesTyped, AllRooted, [Frames!Next]_(Frames!vars)
  PROVE  FramesTyped' /\ AllRooted'
<1>0. Horizon \in Nat /\ now \in Nat /\ hist \in Seq(Frames!Scan) /\ Len(hist) \in Nat
  BY DEF Frames!BoundAssumption, FramesTyped
<1>1. CASE Frames!Pass
  BY <1>1, PassRooted
<1>2. CASE Frames!Record
  BY <1>2, RecordRooted
<1>3. CASE Frames!Restart
  <2>1. /\ UNCHANGED <<now, hist, frames, read>> /\ framesRan' = 0 /\ order' \in Orders
    BY <1>3 DEF Frames!Restart
  <2>2. FramesTyped'
    BY <1>0, <2>1 DEF FramesTyped
  <2>3. Slack' = Slack
    BY <2>1 DEF Slack, Frames!StartLeads
  <2> QED BY <2>1, <2>2, <2>3 DEF AllRooted
<1>4. CASE Frames!Tick
  <2>1. UNCHANGED <<hist, frames, framesRan, order, read>> /\ now' = now + 1 /\ now < Horizon
    BY <1>4 DEF Frames!Tick
  <2>2. FramesTyped'
    BY <1>0, <2>1 DEF FramesTyped
  <2>3. Slack' = Slack
    BY <2>1 DEF Slack, Frames!StartLeads
  <2> QED BY <2>1, <2>2, <2>3 DEF AllRooted
<1>5. CASE UNCHANGED Frames!vars
  <2>1. UNCHANGED <<now, hist, frames, framesRan, order, read>>
    BY <1>5 DEF Frames!vars
  <2>2. FramesTyped'
    BY <2>1 DEF FramesTyped
  <2>3. Slack' = Slack
    BY <2>1 DEF Slack, Frames!StartLeads
  <2> QED BY <2>1, <2>2, <2>3 DEF AllRooted
<1> QED BY <1>1, <1>2, <1>3, <1>4, <1>5 DEF Frames!Next

LEMMA RootedIsEdge ==
  ASSUME FramesAssumed, FramesTyped, AllRooted
  PROVE  Frames!StartIsAnEdge
<1>1. Frames!TypeOK
  <2>1. \A f \in frames : f \in Frames!Frame /\ (f.end = 0 <=> f.status = "open")
                                   /\ (f.end # 0 => f.start < f.end)
    BY DEF AllRooted, Rooted
  <2> QED BY <2>1 DEF Frames!TypeOK, FramesTyped
<1>2. ASSUME NEW f \in frames
      PROVE  LET before == {u \in 1 .. f.start - 1 : hist[u].start # "none"} IN
             /\ hist[f.start].start = "yes"
             /\ \E u \in before : hist[u].start = "no"
             /\ hist[Frames!Max(before)].start # "yes"
             /\ \A u \in f.start + 1 .. f.start + StartDebounce - (IF read < 0 \/ ~ Frames!StartLeads THEN 1 ELSE 0) :
                  hist[u].start \in {"yes", "none"}
  <2> DEFINE before == {u \in 1 .. f.start - 1 : hist[u].start # "none"}
  <2>1. Rooted(hist, f, Slack) /\ f.start \in Nat
    BY DEF AllRooted, Rooted, Frames!Frame
  <2>2. hist[f.start].start = "yes" /\ \E u \in before : hist[u].start = "no"
    BY <2>1 DEF Rooted, Opened
  <2>3. PICK u \in 1 .. f.start - 1 : /\ hist[u].start \notin {"none", "yes"}
                                      /\ \A v \in u + 1 .. f.start - 1 : hist[v].start = "none"
    BY <2>1 DEF Rooted, Opened
  <2>4. u \in before /\ before \subseteq 1 .. f.start - 1 /\ before \subseteq Nat
    BY <2>1, <2>3
  <2>5. IsFiniteSet(before)
    <3>1. IsFiniteSet(1 .. f.start - 1)
      BY <2>1, FS_Interval
    <3> QED BY <2>4, <3>1, FS_Subset
  <2>6. \A v \in before : v <= u
    BY <2>1, <2>3
  <2> HIDE DEF before
  <2>7. Max(before) \in before /\ Max(before) >= u
    BY <2>4, <2>5, MaxIsGreatest
  <2>8. Max(before) = u
    <3>1. PICK m : m = Max(before)
      OBVIOUS
    <3>2. m \in Nat /\ u \in Nat /\ m >= u /\ m <= u
      BY <2>4, <2>6, <2>7, <3>1
    <3> QED BY <3>1, <3>2
  <2>9. hist[Frames!Max(before)].start # "yes"
    BY <2>3, <2>8, SameExtrema
  <2>10. \A v \in f.start + 1 .. f.start + StartDebounce - (IF read < 0 \/ ~ Frames!StartLeads THEN 1 ELSE 0) :
           hist[v].start \in {"yes", "none"}
    BY <2>1 DEF Rooted, Steady, Slack
  <2> QED BY <2>2, <2>9, <2>10 DEF before
<1> QED BY <1>1, <1>2 DEF Frames!StartIsAnEdge

\* StartIsAnEdge: every stored event frame starts at a transition of its start
\* condition that held for the debounce, wherever the windows of the passes
\* began, whatever was interrupted, late, bad or read in part (_Debouncer,
\* detect, run_events).
THEOREM FramesStartAtEdges ==
  ASSUME FramesAssumed, Frames!BoundAssumption
  PROVE  Frames!Spec => []Frames!StartIsAnEdge
<1>1. Frames!Init => FramesTyped /\ AllRooted
  BY RootedInit
<1>2. FramesTyped /\ AllRooted /\ [Frames!Next]_(Frames!vars) => FramesTyped' /\ AllRooted'
  BY RootedNext
<1>3. FramesTyped /\ AllRooted => Frames!StartIsAnEdge
  BY RootedIsEdge
<1> QED BY <1>1, <1>2, <1>3, PTL DEF Frames!Spec
=============================================================================
