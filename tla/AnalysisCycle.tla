---------------------------- MODULE AnalysisCycle ----------------------------
(***************************************************************************)
(* engine/service.py: one loop, five jobs in their order, each when it is    *)
(* due.  A database error discards the connection and ends the cycle, not    *)
(* the engine.  Quality and KPIs are modelled to what they store; events,    *)
(* alerts and capacity, which have modules of their own or none, by when     *)
(* they run and whether they fail.                                           *)
(*                                                                         *)
(* One tag (`history') has quality rules; the KPIs read others (`latest').    *)
(* A sample has the time of its source, and reaches the archive when the      *)
(* collector can write it: after an outage the samples of the outage come     *)
(* late and by and by, the oldest first (`waiting').                         *)
(*                                                                         *)
(* Time is counted in ticks of TICK_S, and kept as ages, so that a behaviour  *)
(* may go on for ever.                                                       *)
(***************************************************************************)
EXTENDS QualityRules, Kpi, SequencesExt

CONSTANTS
  Settings,    \* what a behaviour contains (Setting)
  Every,       \* the interval of each job, in ticks
  RuleRows,    \* the tag's quality_rule rows
  Kept         \* bound: the oldest age at which samples and flags are followed

Jobs  == <<"kpis", "quality", "events", "alerts", "capacity">>
Sample == [value : {Null} \cup Nat, quality : Qualities]

\* The samples that may arrive, the jobs whose every attempt ends in a database
\* error, whether the archive goes away, the equations a definition is given.
Setting == [tag : SUBSET Sample, inputs : SUBSET Sample, failing : SUBSET Range(Jobs),
            outages : BOOLEAN, equations : Seq({"ratio", "sum", "broken"})]

ASSUME SettingAssumption == \A s \in Settings : s \in Setting /\ s.equations # <<>>
ASSUME EveryAssumption   == Every \in [Range(Jobs) -> Nat \ {0, 1}]   \* a job that fails every tick starves the rest
ASSUME KeptAssumption    == Kept \in Nat /\ Lookback <= Kept

Attribs == {Inputs[v] : v \in DOMAIN Inputs}
Tags    == UNION {{TagOf[e][a] : a \in DOMAIN TagOf[e]} : e \in Elements}

VARIABLES
  setting,
  history,     \* table sample, the tag with rules: age -> sample, and the ticks it has been `here'
  waiting,     \* what the collector has not written yet of that tag: age -> sample
  latest,      \* the newest sample of each other tag, with its age
  flags,       \* table quality_flag: <<age, rule>>
  health,      \* table tag_health
  definitions, \* table kpi_definition: [equation, current]
  results,     \* table kpi_value: the last row of each definition and element
  down,        \* the archive is away
  calm,        \* ticks since an evaluation could not have been made
  pc,          \* 0: asleep; otherwise the job to run
  todo,        \* run_kpis: what its loops have left
  due,         \* ticks until each job is due
  kpiDue,      \* ticks until each definition is due: _kpi_next_due
  ran          \* the job that has just done its work

tables == <<history, latest, flags, health, definitions, results>>
vars   == <<setting, tables, waiting, down, calm, pc, todo, due, kpiDue, ran>>

Clamp(n, top) == IF n < top THEN n ELSE top
Calm  == Every["quality"]       \* where `calm' stops counting
Known == Every["quality"] - 1   \* and `here'
Timed == Range(Jobs) \ {"kpis"}

TypeOK ==
  /\ setting \in Settings
  /\ DOMAIN history \subseteq 0 .. Kept /\ DOMAIN waiting \subseteq 0 .. Kept
  /\ \A a \in DOMAIN history : history[a].here \in 0 .. Known
  /\ \A f \in flags : f[1] \in 0 .. Kept /\ f[2] \in Rules
  /\ Cardinality({d \in DOMAIN definitions : definitions[d].current}) = 1
  /\ \A k \in DOMAIN results : k[1] \in DOMAIN definitions /\ k[2] \in Applicable(Attribs)
  /\ due \in [Timed -> Nat] /\ kpiDue \in [DOMAIN definitions -> Nat]
  /\ pc \in 0 .. Len(Jobs) /\ (todo # <<>> => Jobs[pc] = "kpis")
  /\ down \in BOOLEAN /\ calm \in 0 .. Calm

-----------------------------------------------------------------------------
(* The loop.                                                                *)

Job(j) == pc # 0 /\ Jobs[pc] = j
Next1  == (pc + 1) % (Len(Jobs) + 1)

\* Mutant of Due: the job is due again when it has succeeded.
Due_AfterSuccess(j, ok) == IF ok THEN [due EXCEPT ![j] = Every[j]] ELSE due

\* A job is next due when it starts, whatever becomes of it.
Due(j, ok) == [due EXCEPT ![j] = Every[j]]

Works(j) == ~ down /\ j \notin setting.failing

\* except psycopg.Error: discard, and the jobs after this one wait a tick.
Fail(j) == /\ pc' = 0 /\ todo' = <<>> /\ ran' = "none"
           /\ calm' = IF j \in {"kpis", "quality"} THEN 0 ELSE calm
           /\ UNCHANGED <<setting, tables, waiting, down>>

Skip(j) == /\ Job(j) /\ due[j] > 0
           /\ pc' = Next1 /\ ran' = "none"
           /\ UNCHANGED <<setting, tables, waiting, down, calm, todo, due, kpiDue>>

FailJob(j) == Job(j) /\ due[j] = 0 /\ ~ Works(j) /\ due' = Due(j, FALSE) /\ Fail(j) /\ UNCHANGED kpiDue

Finish(j) == /\ Job(j) /\ due[j] = 0 /\ Works(j)
             /\ due' = Due(j, TRUE) /\ pc' = Next1 /\ ran' = j
             /\ UNCHANGED <<setting, waiting, down, calm, todo, kpiDue>>

\* evaluate_tag: source_ts > now - lookback.
Window == [a \in {b \in DOMAIN history : b < Lookback} |-> history[a]]

\* run_quality: evaluate_all, and persist in one transaction.
Other == Min({latest[t].value : t \in DOMAIN latest} \cup {Null})
RunQuality ==
  /\ Finish("quality")
  /\ IF DOMAIN Window = {} THEN health' = Missing /\ UNCHANGED flags
     ELSE LET found == Flagged(Window, Other, Other, RuleRows)
          IN flags' = flags \cup found /\ health' = HealthOf(Window, found)
  /\ UNCHANGED <<history, latest, definitions, results>>

RunOther(j) == j \in {"events", "alerts", "capacity"} /\ Finish(j) /\ UNCHANGED tables

\* run_kpis: every current definition that is due, on the elements it applies
\* to.  load_definitions reads them first; each is next due when it starts, and
\* a failure leaves the rest of its elements for that time.
Load ==
  /\ Job("kpis") /\ todo = <<>>
  /\ IF down THEN Fail("kpis") /\ UNCHANGED <<due, kpiDue>>
     ELSE LET ready == {d \in DOMAIN definitions : definitions[d].current /\ kpiDue[d] = 0}
              pairs == ready \X Applicable(Attribs)
          IN /\ todo' = SetToSeq(pairs)
             /\ IF pairs = {} THEN pc' = Next1 ELSE UNCHANGED pc
             /\ ran' = "none" /\ UNCHANGED <<setting, tables, waiting, down, calm, due, kpiDue>>

\* f with value at k.
With(f, k, value) == [x \in DOMAIN f \cup {k} |-> IF x = k THEN value ELSE f[x]]

\* Mutant of Entry: the row says which name it is of, not which version.
Current == CHOOSE d \in DOMAIN definitions : definitions[d].current
Entry_ByName(d, e) == <<Current, e>>
Entry(d, e) == <<d, e>>

RunKpi ==
  /\ Job("kpis") /\ todo # <<>> /\ UNCHANGED due
  /\ LET d == Head(todo)[1]
         e == Head(todo)[2]
         i == [v \in DOMAIN Inputs |-> Resolve(latest, e, Inputs[v])]
         row == [result |-> Compute(definitions[d].equation, i), age |-> 0,
                 equation |-> definitions[d].equation]
     IN /\ kpiDue' = [kpiDue EXCEPT ![d] = Every["kpis"]]
        /\ IF ~ Works("kpis") THEN Fail("kpis")
           ELSE /\ results' = With(results, Entry(d, e), row)
                /\ todo' = Tail(todo) /\ pc' = IF Len(todo) = 1 THEN Next1 ELSE pc
                /\ ran' = IF Len(todo) = 1 THEN "kpis" ELSE "none"
                /\ UNCHANGED <<setting, history, latest, flags, health, definitions, waiting, down, calm>>

-----------------------------------------------------------------------------
(* The archive, and time.                                                   *)

Aged(set) == {<<f[1] + 1, f[2]>> : f \in {g \in set : g[1] < Kept}}
Shifted(h) == [a \in {b + 1 : b \in DOMAIN h \ {Kept}} |-> h[a - 1]]
Less1(n) == IF n = 0 THEN 0 ELSE n - 1
Older1(s) == [s EXCEPT !.age = Clamp(@ + 1, MaxAge)]
Stored(s, ticks) == [value |-> s.value, quality |-> s.quality, here |-> Clamp(ticks, Known)]

\* Live writes, and the drain of a backlog: of what is held, all, or while
\* outages have left a backlog the samples that are n ticks old and older.
Arrivals(held) ==
  IF ~ setting.outages THEN {DOMAIN held}
  ELSE {{a \in DOMAIN held : a >= n} : n \in 0 .. Kept + 1}

Arrived(h, held, new) ==
  [a \in DOMAIN h \cup new |-> IF a \in new THEN Stored(held[a], 0) ELSE Stored(h[a], h[a].here + 1)]

\* The samples of the tag with rules: what is acquired, and what is written.
Samples(held) ==
  \E new \in Arrivals(held) :
    /\ down' => new = {}
    /\ history' = Arrived(Shifted(history), held, new)
    /\ waiting' = [a \in DOMAIN held \ new |-> held[a]]

\* The newest sample of another tag, when `new' arrives, a sample and its age, or
\* nothing does: what is drained may be older than what is there.
Latest(t, new) ==
  LET old == Older1(latest[t])
  IN IF new = <<>> \/ (t \in DOMAIN latest /\ old.age <= new[2]) THEN old
     ELSE [value |-> new[1].value, quality |-> new[1].quality, age |-> new[2]]

Readings ==
  \E new \in [Tags -> (setting.inputs \X (IF setting.outages THEN 0 .. MaxAge ELSE {0})) \cup {<<>>}] :
    /\ down' => \A t \in Tags : new[t] = <<>>
    /\ latest' = [t \in {u \in Tags : new[u] # <<>> \/ u \in DOMAIN latest} |-> Latest(t, new[t])]

\* time.sleep(TICK_S): samples arrive, and the archive may go or come back.
Tick ==
  /\ pc = 0 /\ pc' = 1 /\ ran' = "none"
  /\ down' \in IF setting.outages THEN BOOLEAN ELSE {FALSE}
  /\ \/ Samples(Shifted(waiting))
     \/ \E s \in setting.tag : Samples(With(Shifted(waiting), 0, s))
  /\ Readings
  /\ flags' = Aged(flags)
  /\ results' = [k \in DOMAIN results |-> [results[k] EXCEPT !.age = 1]]
  /\ due' = [j \in Timed |-> Less1(due[j])]
  /\ kpiDue' = [d \in DOMAIN definitions |-> Less1(kpiDue[d])]
  /\ calm' = IF down' THEN 0 ELSE Clamp(calm + 1, Calm)
  /\ UNCHANGED <<setting, health, definitions, todo>>

\* The archive goes away in the middle of a cycle.
Lose == /\ setting.outages /\ ~ down /\ pc # 0 /\ down' = TRUE
        /\ UNCHANGED <<setting, tables, waiting, calm, pc, todo, due, kpiDue, ran>>

\* seed_kpis: a definition that has changed is closed and the next one opened.
Superseded(equation) == Append([definitions EXCEPT ![Len(definitions)].current = FALSE],
                               [equation |-> equation, current |-> TRUE])

Seed ==
  /\ ~ down /\ Len(definitions) < Len(setting.equations)
  /\ definitions' = Superseded(setting.equations[Len(definitions) + 1])
  /\ kpiDue' = [d \in DOMAIN definitions' |-> IF d \in DOMAIN kpiDue THEN kpiDue[d] ELSE 0]
  /\ UNCHANGED <<setting, history, latest, flags, health, results, waiting, down, calm, pc, todo, due, ran>>

Init ==
  /\ setting \in Settings
  /\ history = <<>> /\ waiting = <<>> /\ latest = <<>> /\ flags = {} /\ health = Unknown
  /\ definitions = <<[equation |-> setting.equations[1], current |-> TRUE]>> /\ results = <<>>
  /\ down = FALSE /\ calm = 0 /\ pc = 0 /\ todo = <<>> /\ ran = "none"
  /\ due = [j \in Timed |-> 0] /\ kpiDue = <<0>>

Engine == \/ Load \/ RunKpi \/ RunQuality
          \/ \E j \in Range(Jobs) \ {"kpis"} : Skip(j) \/ FailJob(j) \/ RunOther(j)
Next == Engine \/ Tick \/ Lose \/ Seed

Spec == Init /\ [][Next]_vars
\* The loop goes on whatever its jobs do, and sleeps a second at a time.
FairSpec == Spec /\ WF_vars(Engine) /\ WF_vars(Tick)

-----------------------------------------------------------------------------
(* quality.py:289 "an excursion that has since returned still happened": when evaluations have been possible for an   *)
(* interval, every sample out of range that has been in the archive for as long, less a tick, and is not older than    *)
(* the lookback, is flagged: also one that came late, out of a backlog, and one that an evaluation that failed had     *)
(* before it.                                                                                                         *)
Excursion(a) == CheckRange(history[a].value, RuleRows)
ExcursionsFlagged ==
  pc = 0 /\ calm >= Every["quality"] =>
    \A a \in DOMAIN history :
      a < Lookback /\ history[a].here >= Known /\ Excursion(a) => <<a, "range">> \in flags

(* The same, however old a sample is when it comes: what an outage longer than the lookback has kept is looked at?     *)
BacklogFlagged ==
  pc = 0 /\ calm >= Every["quality"] =>
    \A a \in DOMAIN history : history[a].here >= Known /\ Excursion(a) => <<a, "range">> \in flags

(* check_frozen, tag_health: a failure that looks healthy is found, when evaluations have been possible for an         *)
(* interval.  A tag that has sent the same number at every tick of its window and an interval, each in the archive     *)
(* when it was sent, is frozen; one that has been quiet for longer than its limit and an interval is stale or missing. *)
For(rule) == RuleRows[rule] + Known
Unchanging == \A a \in 0 .. For("frozen") :
  /\ a \in DOMAIN history /\ history[a].here >= Clamp(a, Known)
  /\ history[a].value # Null /\ history[a].value = history[0].value
Quiet == \A a \in DOMAIN history : a > For("stale")
SilentTroubleSeen ==
  pc = 0 /\ calm >= Every["quality"] =>
    /\ Unchanging => "frozen" \in health.states
    /\ Quiet => health.states \cap {"stale", "missing"} # {}

(* kpi.py "a KPI with a Bad input does not return zero, does not return the last good value": a number was computed   *)
(* of inputs that were all Good and recent when it was, whichever elements they hang on.  (And every variable keeps    *)
(* its type.)                                                                                                         *)
OnlyGoodGivesANumber ==
  TypeOK /\ \A k \in DOMAIN results : results[k].age = 0 /\ results[k].result.value # NoValue =>
    /\ results[k].result.quality = "Good"
    /\ \A v \in DOMAIN Inputs : \E d \in Subtree(k[2]) :
         /\ Inputs[v] \in DOMAIN TagOf[d] /\ TagOf[d][Inputs[v]] \in DOMAIN latest
         /\ LET s == latest[TagOf[d][Inputs[v]]] IN s.quality = "Good" /\ s.age < MaxAge

(* kpi.py, seed_kpis.py "every stored result still points at the equation that produced it", also when the            *)
(* definition is superseded while the engine is in the middle of computing it.                                        *)
ResultsTraceToEquation == \A k \in DOMAIN results : results[k].equation = definitions[k[1]].equation

(* service.py: jobs that end every cycle they run in with a database error (a frame the one-open index refuses, say)  *)
(* do not keep the jobs after them from running, once the archive stays.                                              *)
EveryJobRuns == \A j \in Range(Jobs) : []<>(down \/ j \in setting.failing \/ ran = j)
=============================================================================
