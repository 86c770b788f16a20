-------------------------------- MODULE Alerts --------------------------------
(***************************************************************************)
(* ops/alerts.py: evaluators (the engine service, and the command line of   *)
(* `make alerts-watch') go over the enabled rules, decide whether each is in *)
(* alarm, raise or clear its alert and mail what was raised.                *)
(*                                                                         *)
(* An evaluator's transactions are READ COMMITTED and it commits where the   *)
(* code does, so every statement that another evaluator, the clock or a      *)
(* failure can come before is a step of its own: `pc' names the next one.    *)
(*                                                                         *)
(* Time is counted in alert intervals.  A sample is what a rule can tell of  *)
(* it: Good below or above the threshold, Uncertain, Bad.  Rules on a KPI, a *)
(* capacity metric or a collector look at one latest row.                   *)
(***************************************************************************)
EXTENDS Integers, FiniteSets, SequencesExt

CONSTANTS
  Evaluators,
  RuleOrder,      \* names of the rules, ORDER BY name
  RuleOf,         \* kind, condition and for_seconds of each
  Samples,        \* samples the watched tag may produce
  Latest,         \* latest rows the other subjects may have
  Files,          \* what the configuration file may list
  Mail,           \* CRPMS_SMTP_HOST is set and the rules have recipients
  MaxNow,         \* bound: alert intervals
  MaxFailures     \* bound: evaluators interrupted

Rules       == Range(RuleOrder)
TagSample   == {"low", "high", "uncertain", "bad"}
LatestRow   == {"none", "low", "high", "uncertain", "bad"}
Conditions  == {"stale", "bad", "uncertain", ">"}

ASSUME OrderAssumption == RuleOrder \in Seq(Range(RuleOrder))
ASSUME RuleAssumption ==
  RuleOf \in [Rules -> [kind : {"tag", "kpi", "capacity", "collector"},
                        condition : Conditions, for : Nat]]
ASSUME EvaluatorAssumption == IsFiniteSet(Evaluators)
ASSUME SampleAssumption == Samples \subseteq TagSample /\ Latest \subseteq LatestRow
ASSUME FileAssumption   == Files \subseteq SUBSET Rules
ASSUME BoundAssumption  == MaxNow \in Nat /\ MaxFailures \in Nat

VARIABLES
  now,       \* the present
  archive,   \* the watched tag's sample at each past time, or "none"
  latest,    \* the latest row of the other subjects
  rules,     \* table alert_rule: name -> "absent", "enabled", "disabled"
  config,    \* rules of the configuration file when it was last seeded
  alert,     \* table alert, in the order of their ids
  sent,      \* mails sent for alerts of each rule
  ev,        \* each evaluator
  failures

vars == <<now, archive, latest, rules, config, alert, sent, ev, failures>>

\* todo: the places in RuleOrder of the rules yet to be checked.
Idle(seen) == [pc |-> "idle", todo |-> {}, firing |-> FALSE, id |-> 0,
               began |-> 0, result |-> "none", cycle |-> seen]
Checking(todo, began, seen) ==
  [pc |-> "evaluate", todo |-> todo, firing |-> FALSE, id |-> 0,
   began |-> began, result |-> "none", cycle |-> seen]

Alert == [rule : Rules, raised : Nat, cleared : BOOLEAN,
          delivered : BOOLEAN, error : BOOLEAN, mails : Nat]

TypeOK ==
  /\ now \in 0 .. MaxNow
  /\ archive \in [1 .. now -> Samples \cup {"none"}]
  /\ latest \in Latest
  /\ rules \in [Rules -> {"absent", "enabled", "disabled"}]
  /\ config \subseteq Rules
  /\ alert \in Seq(Alert) /\ sent \in [Rules -> Nat]
  /\ \A e \in Evaluators :
       /\ ev[e].pc \in {"idle", "evaluate", "look", "raise", "clear", "find", "deliver", "record"}
       /\ ev[e].todo \subseteq DOMAIN RuleOrder /\ ev[e].id \in 0 .. Len(alert)
       /\ ev[e].pc = "idle" <=> ev[e].todo = {}
       /\ ev[e].pc \in {"clear", "deliver", "record"} =>
            ev[e].id # 0 /\ alert[ev[e].id].rule = RuleOrder[Min(ev[e].todo)]
  /\ failures \in 0 .. MaxFailures

Open(r) == {i \in DOMAIN alert : alert[i].rule = r /\ ~ alert[i].cleared}

-----------------------------------------------------------------------------
(* evaluate                                                                 *)

Longer(for) == IF for > 1 THEN for ELSE 1

\* The times of the rows the query returns: the last sample before the window
\* and those inside it.
InWindow(since) == {t \in 1 .. now : t >= since /\ archive[t] # "none"}
\* Mutant of RowsFrom: only the samples inside the window.
RowsFrom_InWindow(since) == InWindow(since)

RowsFrom(since) ==
  LET before == {t \in 1 .. now : t < since /\ archive[t] # "none"}
  IN InWindow(since) \cup {t \in before : \A u \in before : u <= t}

TagFires(condition, for) ==
  LET since == now - Longer(for)
      rows  == RowsFrom(since)
      all(sample) == rows # {} /\ \A t \in rows : archive[t] = sample
  IN \/ condition = "stale" /\ InWindow(since) = {}
     \/ condition = "bad" /\ all("bad")
     \/ condition = "uncertain" /\ all("uncertain")
     \/ condition = ">" /\ all("high")

KpiFires(condition)       == \/ condition = "bad" /\ latest = "bad"
                             \/ condition = ">" /\ latest = "high"
CapacityFires(condition)  == condition = ">" /\ latest = "high"
\* collector_leader: no row, not alive, alive and shallow, alive and deep.
CollectorFires(condition) == \/ latest \in {"none", "bad"}
                             \/ condition = ">" /\ latest = "high"

Fires(rule) ==
  CASE rule.kind = "tag"       -> TagFires(rule.condition, rule.for)
    [] rule.kind = "kpi"       -> KpiFires(rule.condition)
    [] rule.kind = "capacity"  -> CapacityFires(rule.condition)
    [] rule.kind = "collector" -> CollectorFires(rule.condition)

-----------------------------------------------------------------------------
(* run_once, one evaluator                                                  *)

Become(e, state) == ev' = [ev EXCEPT ![e] = state]
At(e, pc)        == ev[e].pc = pc
Rule(e)          == RuleOrder[Min(ev[e].todo)]

\* On to the next rule, or to the end of the cycle.  A commit begins another
\* transaction, and its time is what the next rule's alert would be raised at; a
\* rule that had nothing to do has committed nothing.
NextRule(e, began) ==
  LET todo == ev[e].todo \ {Min(ev[e].todo)}
  IN IF todo = {} THEN Idle(ev[e].cycle) ELSE Checking(todo, began, ev[e].cycle)
Committed(e) == NextRule(e, Len(alert'))
Untouched == UNCHANGED <<now, archive, latest, rules, config, failures>>

\* load_rules.  One cycle an interval; after MaxNow, time means nothing more.
Load(e) ==
  /\ At(e, "idle") /\ (ev[e].cycle < now \/ now = MaxNow)
  /\ LET todo == {i \in DOMAIN RuleOrder : rules[RuleOrder[i]] = "enabled"} IN
     /\ todo # {}
     /\ Become(e, Checking(todo, Len(alert), now))
  /\ UNCHANGED <<alert, sent>> /\ Untouched

Evaluate(e) ==
  /\ At(e, "evaluate")
  /\ Become(e, [ev[e] EXCEPT !.pc = "look", !.firing = Fires(RuleOf[Rule(e)])])
  /\ UNCHANGED <<alert, sent>> /\ Untouched

MayRaise(firing, open) == firing /\ open = {}

\* Mutant of MayClear: one whose mail has not left is kept.
MayClear_Delivered(firing, open) == {i \in open : ~ firing /\ alert[i].delivered}
MayClear(firing, open) == {i \in open : ~ firing}

\* raise_or_clear up to its SELECT; the row it fetches is any open one.
Look(e) ==
  /\ At(e, "look") /\ UNCHANGED <<alert, sent>> /\ Untouched
  /\ LET firing == ev[e].firing
         open   == Open(Rule(e)) IN
     \/ MayRaise(firing, open) /\ Become(e, [ev[e] EXCEPT !.pc = "raise"])
     \/ \E i \in MayClear(firing, open) : Become(e, [ev[e] EXCEPT !.pc = "clear", !.id = i])
     \/ /\ ~ MayRaise(firing, open) /\ MayClear(firing, open) = {}
        /\ Become(e, NextRule(e, ev[e].began))

Raise(e) ==
  /\ At(e, "raise")
  /\ alert' = Append(alert, [rule |-> Rule(e), raised |-> ev[e].began, cleared |-> FALSE,
                             delivered |-> FALSE, error |-> FALSE, mails |-> 0])
  /\ Become(e, [ev[e] EXCEPT !.pc = "find", !.began = Len(alert')])
  /\ UNCHANGED sent /\ Untouched

Clear(e) ==
  /\ At(e, "clear")
  /\ alert' = [alert EXCEPT ![ev[e].id].cleared = TRUE]
  /\ Become(e, Committed(e))
  /\ UNCHANGED sent /\ Untouched

\* Mutant of Newest: the oldest.
Newest_Oldest(r)  == {i \in DOMAIN alert : /\ alert[i].rule = r
                                           /\ \A j \in 1 .. i - 1 : alert[j].rule # r}

\* run_once looks for what it has just raised: the newest alert of the rule.
\* raised_at is the beginning of the transaction that raised it.
Newest(r) ==
  LET mine == {i \in DOMAIN alert : alert[i].rule = r}
  IN {i \in mine : \A j \in mine : alert[j].raised <= alert[i].raised}

Find(e) ==
  /\ At(e, "find") /\ UNCHANGED <<alert, sent>> /\ Untouched
  /\ \E i \in Newest(Rule(e)) : Become(e, [ev[e] EXCEPT !.pc = "deliver", !.id = i])

\* Mutant of Sending: a refused message is recorded as delivered.
Sending_Optimist == {[sent |-> TRUE, result |-> "delivered"], [sent |-> FALSE, result |-> "delivered"]}

Sending == {[sent |-> FALSE, result |-> "error"]}
           \cup (IF Mail THEN [sent : {TRUE}, result : {"delivered", "error"}] ELSE {})

\* deliver: the mail itself.  Leaving the session may fail after the message
\* was accepted; without a host or recipients there is no message to send.
Send(e) ==
  /\ At(e, "deliver") /\ Untouched
  /\ \E s \in Sending :
       /\ IF s.sent THEN /\ alert' = [alert EXCEPT ![ev[e].id].mails = @ + 1]
                         /\ sent' = [sent EXCEPT ![Rule(e)] = @ + 1]
                    ELSE UNCHANGED <<alert, sent>>
       /\ Become(e, [ev[e] EXCEPT !.pc = "record", !.result = s.result])

Record(e) ==
  /\ At(e, "record")
  /\ alert' = IF ev[e].result = "delivered"
              THEN [alert EXCEPT ![ev[e].id].delivered = TRUE]
              ELSE [alert EXCEPT ![ev[e].id].error = TRUE]
  /\ Become(e, Committed(e))
  /\ UNCHANGED sent /\ Untouched

\* A database error ends the cycle, a crash the process; either way the next
\* cycle starts from the beginning, and what was not committed is not there.
Interrupted(e) ==
  /\ ~ At(e, "idle") /\ failures < MaxFailures
  /\ failures' = failures + 1
  /\ Become(e, Idle(ev[e].cycle))
  /\ UNCHANGED <<now, archive, latest, rules, config, alert, sent>>

Run(e) == \/ Load(e) \/ Evaluate(e) \/ Look(e) \/ Raise(e) \/ Clear(e)
          \/ Find(e) \/ Send(e) \/ Record(e)

-----------------------------------------------------------------------------
(* What the evaluators read                                                 *)

Tick ==
  /\ now < MaxNow /\ now' = now + 1
  /\ \E s \in Samples \cup {"none"} : archive' = [t \in 1 .. now' |-> IF t = now' THEN s ELSE archive[t]]
  /\ latest' \in Latest
  /\ UNCHANGED <<rules, config, alert, sent, ev, failures>>

\* ops/seed_alerts.py with the rules `wanted' in the file: what is missing is
\* inserted, what is no longer wanted is disabled.  A rule that exists keeps
\* its `enabled', which is not one of the FIELDS.
Seeded(wanted) ==
  [r \in Rules |-> IF r \in wanted
                   THEN IF rules[r] = "absent" THEN "enabled" ELSE rules[r]
                   ELSE IF rules[r] = "absent" THEN "absent" ELSE "disabled"]

Seed ==
  /\ \E wanted \in Files :
       /\ config' = wanted
       /\ rules' = Seeded(wanted)
  /\ UNCHANGED <<now, archive, latest, alert, sent, ev, failures>>

Init ==
  /\ now = 0 /\ archive = <<>> /\ latest \in Latest
  /\ config = {}
  /\ rules = [r \in Rules |-> "absent"]
  /\ alert = <<>> /\ sent = [r \in Rules |-> 0]
  /\ ev = [e \in Evaluators |-> Idle(0)]
  /\ failures = 0

Next ==
  \/ Tick \/ Seed
  \/ \E e \in Evaluators : Run(e) \/ Interrupted(e)

Spec     == Init /\ [][Next]_vars
Fairness == WF_vars(Tick) /\ \A e \in Evaluators : WF_vars(Run(e))
FairSpec == Spec /\ Fairness
-----------------------------------------------------------------------------
(* Properties                                                               *)

HeldAt(t) ==
  LET upTo == {u \in 1 .. now : u <= t /\ archive[u] # "none"}
  IN IF upTo = {} THEN "unknown" ELSE archive[CHOOSE u \in upTo : \A v \in upTo : v <= u]

\* A condition on a tag is true when, by a history that is reported by
\* exception, it has held at every moment of the window that the archive knows
\* of, from just before it.  Then an alert on a tag that stays Bad does not come and go with its
\* heartbeats (alerts.py:77), and one Bad sample after a good one is no alarm.
HeldThroughout ==
  \A for \in 0 .. MaxNow, c \in {<<"bad", "bad">>, <<"uncertain", "uncertain">>, <<">", "high">>} :
    TagFires(c[1], for) <=>
      /\ HeldAt(now) = c[2]
      /\ \A t \in now - Longer(for) - 1 .. now : HeldAt(t) \in {c[2], "unknown"}

\* An evaluator looks for an open alert and inserts in two statements that no
\* constraint backs, and finds the alert it raised by rule and age, in a later
\* transaction.  What a race can cost is bounded, however long it goes on and
\* whatever is interrupted: each evaluator raises at most one alert over the
\* others' and mails none twice, and a rule sends no more mails than it raised
\* alerts.
RaceIsBounded ==
  \A r \in Rules :
    LET mine == {i \in DOMAIN alert : alert[i].rule = r} IN
    /\ Cardinality(Open(r)) <= Cardinality(Evaluators)
    /\ \A i \in mine : alert[i].mails <= Cardinality(Evaluators)
    /\ sent[r] <= Cardinality(mine)

\* alert.delivered is only said of what the mail server accepted, whichever
\* evaluator says it (and every variable keeps its type).
DeliveredWasMailed == TypeOK /\ \A i \in DOMAIN alert : alert[i].delivered => alert[i].mails > 0

\* Once the subject of an enabled rule has come to rest, so does the rule: in
\* alarm with an alert open, otherwise with none, also those that racing or
\* interrupted evaluators left behind.
Settles ==
  \A r \in Rules :
    /\ <>[](now = MaxNow /\ rules[r] = "enabled" /\ Fires(RuleOf[r])) => <>[](Open(r) # {})
    /\ <>[](now = MaxNow /\ rules[r] = "enabled" /\ ~ Fires(RuleOf[r])) => <>[](Open(r) = {})

-----------------------------------------------------------------------------
(* What the documentation says and the code does not do: no run checks it;  *)
(* the README says on which instance TLC refutes it.                         *)

\* "Rules are rows [...] Adding an alert is configuration" (alerts.py:3): what
\* the configuration that was last seeded asks for is evaluated.
ConfiguredIsEnabled == \A r \in config : rules[r] = "enabled"
=============================================================================
