----------------------------- MODULE AlertsProofs -----------------------------
(***************************************************************************)
(* Theorems about Alerts, for every finite set of evaluators, every list of *)
(* rules and every history of the subjects:                                 *)
(*   DeliveredMeansMailed   Spec => []DeliveredWasMailed                    *)
(*   RacesAreBounded        Spec => []RaceIsBounded                         *)
(*   FiresWhenHeld          Spec => []HeldThroughout                        *)
(* TypeInv is inductive by itself.  RaceInv counts, beside what has happened, *)
(* what the evaluators may still do, and is inductive with it.              *)
(***************************************************************************)
EXTENDS Alerts, Extrema

-----------------------------------------------------------------------------
(* The inductive invariant, part one: types.                                *)

Worker == [pc : {"idle", "evaluate", "look", "raise", "clear", "find", "deliver", "record"},
           todo : SUBSET DOMAIN RuleOrder, firing : BOOLEAN, id : Nat, began : Nat,
           result : {"none", "delivered", "error"}, cycle : Nat]

\* What an evaluator's place says of the alert it has in hand.
AtWork(w, table) ==
  /\ w.pc = "idle" <=> w.todo = {}
  /\ w.id \in 0 .. Len(table) /\ w.began <= Len(table)
  /\ w.pc \in {"clear", "deliver", "record"} =>
       w.id # 0 /\ table[w.id].rule = RuleOrder[Min(w.todo)]
  /\ w.pc = "record" /\ w.result = "delivered" => table[w.id].mails > 0

\* alert is stamped with the beginning of the transaction that raises it.
Stamped(table) ==
  \A i \in DOMAIN table : table[i].raised < i /\ (table[i].delivered => table[i].mails > 0)

TypeInv ==
  /\ now \in 0 .. MaxNow
  /\ archive \in [1 .. now -> Samples \cup {"none"}]
  /\ latest \in Latest
  /\ rules \in [Rules -> {"absent", "enabled", "disabled"}]
  /\ config \subseteq Rules
  /\ alert \in Seq(Alert) /\ sent \in [Rules -> Nat]
  /\ ev \in [Evaluators -> Worker]
  /\ \A e \in Evaluators : AtWork(ev[e], alert)
  /\ failures \in 0 .. MaxFailures
  /\ Stamped(alert)

LEMMA TypeInvImplies == TypeInv => DeliveredWasMailed
<1> SUFFICES ASSUME TypeInv PROVE DeliveredWasMailed
  OBVIOUS
<1>1. ASSUME NEW e \in Evaluators
      PROVE  /\ ev[e].pc \in {"idle", "evaluate", "look", "raise", "clear", "find", "deliver", "record"}
             /\ ev[e].todo \subseteq DOMAIN RuleOrder /\ ev[e].id \in 0 .. Len(alert)
             /\ ev[e].pc = "idle" <=> ev[e].todo = {}
             /\ ev[e].pc \in {"clear", "deliver", "record"} =>
                  ev[e].id # 0 /\ alert[ev[e].id].rule = RuleOrder[Min(ev[e].todo)]
  BY DEF TypeInv, AtWork, Worker
<1> QED BY <1>1 DEF TypeInv, Stamped, DeliveredWasMailed, TypeOK

\* The rule that an evaluator is at.
LEMMA FirstOfTodo ==
  ASSUME NEW todo \in SUBSET DOMAIN RuleOrder, todo # {}
  PROVE  Min(todo) \in todo /\ RuleOrder[Min(todo)] \in Rules
<1>1. todo \subseteq Nat
  BY OrderAssumption
<1>2. Min(todo) \in todo
  BY <1>1, MinIsLeast
<1> QED BY <1>2 DEF Rules, Range

\* A rule is in alarm or is not.
LEMMA FiresIsBoolean ==
  ASSUME NEW r \in Rules PROVE Fires(RuleOf[r]) \in BOOLEAN
<1>1. RuleOf[r].kind \in {"tag", "kpi", "capacity", "collector"}
  BY RuleAssumption
<1>2. CASE RuleOf[r].kind = "tag"
  BY <1>2 DEF Fires, TagFires
<1>3. CASE RuleOf[r].kind = "kpi"
  BY <1>3 DEF Fires, KpiFires
<1>4. CASE RuleOf[r].kind = "capacity"
  BY <1>4 DEF Fires, CapacityFires
<1>5. CASE RuleOf[r].kind = "collector"
  BY <1>5 DEF Fires, CollectorFires
<1> QED BY <1>1, <1>2, <1>3, <1>4, <1>5

\* Going on to the next rule.
LEMMA NextWorker ==
  ASSUME TypeInv, NEW e \in Evaluators, ev[e].pc # "idle", NEW b \in Nat, b <= Len(alert)
  PROVE  /\ NextRule(e, b) \in Worker
         /\ NextRule(e, b).pc \in {"idle", "evaluate"} /\ NextRule(e, b).id = 0
         /\ NextRule(e, b).pc = "idle" <=> NextRule(e, b).todo = {}
         /\ NextRule(e, b).pc = "evaluate" => NextRule(e, b).began = b
         /\ NextRule(e, b).began <= Len(alert)
<1> DEFINE rest == ev[e].todo \ {Min(ev[e].todo)}
<1>1. ev[e] \in Worker /\ Len(alert) \in Nat /\ rest \in SUBSET DOMAIN RuleOrder /\ ev[e].cycle \in Nat
  BY DEF TypeInv, Worker
<1>2. NextRule(e, b) = IF rest = {} THEN Idle(ev[e].cycle) ELSE Checking(rest, b, ev[e].cycle)
  BY DEF NextRule
<1> HIDE DEF rest
<1>4. CASE rest = {}
  BY <1>1, <1>2, <1>4 DEF Worker, Idle
<1>5. CASE rest # {}
  BY <1>1, <1>2, <1>5 DEF Worker, Checking
<1> QED BY <1>4, <1>5

\* The types of the tables, and of what an evaluator holds.
LEMMA TypesKnown ==
  ASSUME TypeInv
  PROVE  /\ alert \in Seq(Alert) /\ Len(alert) \in Nat /\ DOMAIN alert = 1 .. Len(alert)
         /\ \A i \in DOMAIN alert : alert[i] \in Alert /\ alert[i].mails \in Nat /\ alert[i].raised \in Nat
         /\ sent \in [Rules -> Nat] /\ failures \in 0 .. MaxFailures /\ Stamped(alert)
         /\ ev \in [Evaluators -> Worker]
         /\ \A e \in Evaluators : ev[e] \in Worker /\ AtWork(ev[e], alert)
<1>1. alert \in Seq(Alert)
  BY DEF TypeInv
<1>2. \A i \in DOMAIN alert : alert[i] \in Alert
  BY <1>1
<1>3. \A i \in DOMAIN alert : alert[i].mails \in Nat /\ alert[i].raised \in Nat
  BY <1>2 DEF Alert
<1> QED BY <1>1, <1>2, <1>3 DEF TypeInv

\* Nothing happens to the table of alerts.
LEMMA SameTable ==
  ASSUME TypeInv, UNCHANGED <<alert, sent>>
  PROVE  /\ alert' \in Seq(Alert) /\ Len(alert') = Len(alert) /\ Len(alert') >= Len(alert) /\ Stamped(alert')
         /\ sent' \in [Rules -> Nat]
         /\ \A i \in DOMAIN alert : alert'[i].rule = alert[i].rule /\ alert'[i].mails >= alert[i].mails
BY TypesKnown

\* Any step of one evaluator.
LEMMA OneMoves ==
  ASSUME TypeInv, NEW e \in Evaluators, ev' = [ev EXCEPT ![e] = ev'[e]],
         ev'[e] \in Worker, AtWork(ev'[e], alert'),
         alert' \in Seq(Alert), Len(alert') >= Len(alert), Stamped(alert'), sent' \in [Rules -> Nat],
         \A i \in DOMAIN alert : alert'[i].rule = alert[i].rule /\ alert'[i].mails >= alert[i].mails,
         UNCHANGED <<now, archive, latest, rules, config>>, failures' \in 0 .. MaxFailures
  PROVE  TypeInv'
<1>1. ev' \in [Evaluators -> Worker] /\ \A f \in Evaluators : f # e => ev'[f] = ev[f]
  BY DEF TypeInv
<1>2. ASSUME NEW f \in Evaluators PROVE AtWork(ev'[f], alert')
  <2>1. CASE f = e
    BY <2>1
  <2>2. CASE f # e
    <3>1. ev'[f] = ev[f] /\ AtWork(ev[f], alert) /\ ev[f] \in Worker
      BY <1>1, <2>2 DEF TypeInv
    <3>2. Len(alert) \in Nat /\ Len(alert') \in Nat /\ DOMAIN alert = 1 .. Len(alert)
      BY DEF TypeInv
    <3>3. ev[f].id # 0 => ev[f].id \in DOMAIN alert
      BY <3>1, <3>2 DEF AtWork
    <3>4. /\ ev'[f].id \in 0 .. Len(alert') /\ ev'[f].began <= Len(alert')
      BY <3>1, <3>2 DEF AtWork, Worker
    <3>5. ev'[f].pc \in {"clear", "deliver", "record"} =>
            ev'[f].id # 0 /\ alert'[ev'[f].id].rule = RuleOrder[Min(ev'[f].todo)]
      BY <3>1, <3>3 DEF AtWork
    <3>6. ev'[f].pc = "record" /\ ev'[f].result = "delivered" => alert'[ev'[f].id].mails > 0
      <4> SUFFICES ASSUME ev'[f].pc = "record", ev'[f].result = "delivered"
                   PROVE  alert'[ev'[f].id].mails > 0
        OBVIOUS
      <4>1. ev[f].id \in DOMAIN alert /\ alert[ev[f].id].mails > 0
        BY <3>1, <3>3 DEF AtWork
      <4>2. alert'[ev[f].id].mails >= alert[ev[f].id].mails
        BY <4>1
      <4>3. alert[ev[f].id].mails \in Nat /\ alert'[ev[f].id].mails \in Nat
        <5>1. ev[f].id \in DOMAIN alert'
          BY <3>2, <4>1
        <5>2. alert \in Seq(Alert) /\ alert' \in Seq(Alert)
          BY DEF TypeInv
        <5>3. alert[ev[f].id] \in Alert /\ alert'[ev[f].id] \in Alert
          BY <4>1, <5>1, <5>2
        <5> QED BY <5>3 DEF Alert
      <4> QED BY <3>1, <4>1, <4>2, <4>3
    <3> QED BY <3>1, <3>4, <3>5, <3>6 DEF AtWork
  <2> QED BY <2>1, <2>2
<1> QED BY <1>1, <1>2 DEF TypeInv

LEMMA TypeLoad ==
  ASSUME TypeInv, NEW e \in Evaluators, Load(e)
  PROVE  TypeInv' /\ ev'[e].began = Len(alert) /\ ev'[e].pc = "evaluate"
<1> DEFINE todo == {i \in DOMAIN RuleOrder : rules[RuleOrder[i]] = "enabled"}
<1>1. /\ ev' = [ev EXCEPT ![e] = Checking(todo, Len(alert), now)]
      /\ todo # {} /\ UNCHANGED <<alert, sent, now, archive, latest, rules, config, failures>>
  BY DEF Load, Become, Untouched
<1>2. todo \in SUBSET DOMAIN RuleOrder /\ Len(alert) \in Nat /\ now \in Nat
  BY DEF TypeInv
<1> HIDE DEF todo
<1>3. ev'[e] = [pc |-> "evaluate", todo |-> todo, firing |-> FALSE, id |-> 0,
                began |-> Len(alert), result |-> "none", cycle |-> now]
  BY <1>1, TypesKnown DEF Checking
<1>4. ev'[e] \in Worker
  BY <1>2, <1>3 DEF Worker
<1>6. AtWork(ev'[e], alert')
  <2>1. ev'[e].pc = "evaluate" /\ ev'[e].todo # {} /\ ev'[e].id = 0 /\ ev'[e].began = Len(alert)
    BY <1>1, <1>3
  <2>2. Len(alert') = Len(alert)
    BY <1>1
  <2> QED BY <1>2, <2>1, <2>2 DEF AtWork
<1>5. ev' = [ev EXCEPT ![e] = ev'[e]]
  BY <1>1, TypesKnown
<1>7. TypeInv'
  <2>1. /\ UNCHANGED <<alert, sent>> /\ UNCHANGED <<now, archive, latest, rules, config>>
        /\ failures' \in 0 .. MaxFailures
    BY <1>1, TypesKnown
  <2> QED BY <1>4, <1>5, <1>6, <2>1, SameTable, OneMoves
<1> QED BY <1>1, <1>3, <1>7

LEMMA TypeEvaluate ==
  ASSUME TypeInv, NEW e \in Evaluators, Evaluate(e)
  PROVE  /\ TypeInv'
         /\ ev'[e].pc = "look" /\ ev'[e].todo = ev[e].todo /\ ev'[e].began = ev[e].began
<1>1. /\ ev' = [ev EXCEPT ![e] = [ev[e] EXCEPT !.pc = "look", !.firing = Fires(RuleOf[Rule(e)])]]
      /\ UNCHANGED <<alert, sent, now, archive, latest, rules, config, failures>> /\ ev[e].pc = "evaluate"
  BY DEF Evaluate, Become, Untouched, At
<1>2. ev[e] \in Worker /\ AtWork(ev[e], alert)
  BY DEF TypeInv
<1>3. Fires(RuleOf[Rule(e)]) \in BOOLEAN
  <2>1. Rule(e) \in Rules
    BY <1>1, <1>2, FirstOfTodo DEF Rule, Worker, AtWork
  <2> QED BY <2>1, FiresIsBoolean
<1>4. /\ ev'[e] = [ev[e] EXCEPT !.pc = "look", !.firing = Fires(RuleOf[Rule(e)])]
      /\ ev' = [ev EXCEPT ![e] = ev'[e]]
  BY <1>1, TypesKnown
<1>5. ev'[e] \in Worker
  BY <1>2, <1>3, <1>4 DEF Worker
<1>6. /\ ev'[e].pc = "look" /\ ev'[e].todo = ev[e].todo /\ ev'[e].began = ev[e].began
      /\ ev'[e].id = ev[e].id
  BY <1>2, <1>4 DEF Worker
<1>8. AtWork(ev'[e], alert')
  <2>1. alert' = alert
    BY <1>1
  <2> QED BY <1>1, <1>2, <1>6, <2>1 DEF AtWork
<1>7. TypeInv'
  <2>1. /\ UNCHANGED <<alert, sent>> /\ UNCHANGED <<now, archive, latest, rules, config>>
        /\ failures' \in 0 .. MaxFailures
    BY <1>1, TypesKnown
  <2> QED BY <1>4, <1>5, <1>8, <2>1, SameTable, OneMoves
<1> QED BY <1>6, <1>7

\* Going on to the next rule is a step that keeps the types.
LEMMA TypeNextRule ==
  ASSUME TypeInv, NEW e \in Evaluators, ev[e].pc # "idle", NEW b \in Nat, b <= Len(alert),
         ev' = [ev EXCEPT ![e] = NextRule(e, b)],
         alert' \in Seq(Alert), Len(alert') = Len(alert), Stamped(alert'), UNCHANGED sent,
         \A i \in DOMAIN alert : alert'[i].rule = alert[i].rule /\ alert'[i].mails >= alert[i].mails,
         UNCHANGED <<now, archive, latest, rules, config, failures>>
  PROVE  /\ TypeInv'
         /\ ev'[e].pc \in {"idle", "evaluate"}
         /\ ev'[e].pc = "evaluate" => ev'[e].began = b
<1>1. ev'[e] = NextRule(e, b) /\ ev' = [ev EXCEPT ![e] = ev'[e]] /\ Len(alert) \in Nat
  BY DEF TypeInv
<1>2. ev'[e] \in Worker /\ AtWork(ev'[e], alert')
  BY <1>1, NextWorker DEF AtWork
<1>3. ev'[e].pc \in {"idle", "evaluate"} /\ (ev'[e].pc = "evaluate" => ev'[e].began = b)
  BY <1>1, NextWorker
<1>4. sent' \in [Rules -> Nat] /\ failures' \in 0 .. MaxFailures /\ Len(alert') >= Len(alert)
  BY <1>1, TypesKnown
<1>5. TypeInv'
  BY <1>1, <1>2, <1>4, OneMoves
<1> QED BY <1>3, <1>5

LEMMA TypeLook ==
  ASSUME TypeInv, NEW e \in Evaluators, Look(e)
  PROVE  /\ TypeInv'
         /\ \/ /\ ev'[e].pc \in {"idle", "evaluate", "clear"}
               /\ ev'[e].pc = "evaluate" => ev'[e].began = ev[e].began
            \/ /\ ev'[e].pc = "raise" /\ ev'[e].began = ev[e].began
               /\ Open(Rule(e)) = {} /\ ev'[e].todo = ev[e].todo
<1>1. /\ ev[e] \in Worker /\ AtWork(ev[e], alert) /\ ev[e].pc = "look"
      /\ UNCHANGED <<alert, sent, now, archive, latest, rules, config, failures>>
  BY TypesKnown DEF Look, At, Untouched
<1>2. CASE /\ MayRaise(ev[e].firing, Open(Rule(e)))
           /\ ev' = [ev EXCEPT ![e] = [ev[e] EXCEPT !.pc = "raise"]]
  <2>1. ev'[e] = [ev[e] EXCEPT !.pc = "raise"] /\ ev' = [ev EXCEPT ![e] = ev'[e]]
    BY <1>2, TypesKnown
  <2>2. ev'[e] \in Worker /\ AtWork(ev'[e], alert')
    BY <1>1, <2>1 DEF Worker, AtWork
  <2>3. ev'[e].pc = "raise" /\ ev'[e].began = ev[e].began /\ ev'[e].todo = ev[e].todo
    BY <1>1, <2>1 DEF Worker
  <2>4. TypeInv'
    BY <1>1, <2>1, <2>2, TypesKnown, SameTable, OneMoves
  <2> QED BY <1>2, <2>3, <2>4 DEF MayRaise
<1>3. CASE \E i \in MayClear(ev[e].firing, Open(Rule(e))) :
             ev' = [ev EXCEPT ![e] = [ev[e] EXCEPT !.pc = "clear", !.id = i]]
  <2>1. PICK i \in Open(Rule(e)) : ev' = [ev EXCEPT ![e] = [ev[e] EXCEPT !.pc = "clear", !.id = i]]
    BY <1>3 DEF MayClear
  <2>2. ev'[e] = [ev[e] EXCEPT !.pc = "clear", !.id = i] /\ ev' = [ev EXCEPT ![e] = ev'[e]]
    BY <2>1, TypesKnown
  <2>3. i \in 1 .. Len(alert) /\ alert[i].rule = RuleOrder[Min(ev[e].todo)]
    BY <2>1 DEF Open, Rule
  <2>4. ev'[e] \in Worker
    <3>1. i \in Nat
      BY <2>3
    <3> QED BY <1>1, <2>2, <3>1 DEF Worker
  <2>5. ev'[e].pc = "clear" /\ ev'[e].id = i /\ ev'[e].todo = ev[e].todo /\ ev'[e].began = ev[e].began
    BY <1>1, <2>2 DEF Worker
  <2>7. AtWork(ev'[e], alert')
    <3>1. alert' = alert /\ i \in 0 .. Len(alert) /\ i # 0
      BY <1>1, <2>3
    <3> QED BY <1>1, <2>3, <2>5, <3>1 DEF AtWork
  <2>6. TypeInv'
    BY <1>1, <2>2, <2>4, <2>7, TypesKnown, SameTable, OneMoves
  <2> QED BY <2>5, <2>6
<1>4. CASE ev' = [ev EXCEPT ![e] = NextRule(e, ev[e].began)]
  <2>1. ev[e].began \in Nat /\ ev[e].began <= Len(alert)
    BY <1>1 DEF Worker, AtWork
  <2> QED BY <1>1, <1>4, <2>1, TypesKnown, SameTable, TypeNextRule
<1> QED BY <1>2, <1>3, <1>4 DEF Look, Become

LEMMA TypeRaise ==
  ASSUME TypeInv, NEW e \in Evaluators, Raise(e)
  PROVE  /\ TypeInv'
         /\ Len(alert') = Len(alert) + 1 /\ \A i \in DOMAIN alert : alert'[i] = alert[i]
         /\ alert'[Len(alert) + 1].mails = 0 /\ ~ alert'[Len(alert) + 1].cleared
         /\ alert'[Len(alert) + 1].rule = Rule(e) /\ alert'[Len(alert) + 1].raised = ev[e].began
         /\ ev'[e].pc = "find" /\ ev'[e].todo = ev[e].todo
<1> DEFINE new == [rule |-> Rule(e), raised |-> ev[e].began, cleared |-> FALSE,
                   delivered |-> FALSE, error |-> FALSE, mails |-> 0]
<1>1. /\ ev' = [ev EXCEPT ![e] = [ev[e] EXCEPT !.pc = "find", !.began = Len(alert')]]
      /\ alert' = Append(alert, new) /\ ev[e].pc = "raise"
      /\ UNCHANGED <<sent, now, archive, latest, rules, config, failures>>
  BY DEF Raise, Become, Untouched, At
<1>2. ev[e] \in Worker /\ AtWork(ev[e], alert) /\ Len(alert) \in Nat /\ alert \in Seq(Alert)
  BY TypesKnown
<1>3. ev[e].began \in Nat /\ ev[e].began <= Len(alert)
  BY <1>2 DEF Worker, AtWork
<1>4. new \in Alert
  <2>1. Rule(e) \in Rules
    BY <1>1, <1>2, FirstOfTodo DEF Rule, Worker, AtWork
  <2> QED BY <1>3, <2>1 DEF Alert
<1> HIDE DEF new
<1>5. /\ alert' \in Seq(Alert) /\ Len(alert') = Len(alert) + 1
      /\ alert'[Len(alert) + 1] = new /\ \A i \in DOMAIN alert : alert'[i] = alert[i]
  BY <1>1, <1>2, <1>4
<1>6. new.mails = 0 /\ ~ new.cleared /\ ~ new.delivered /\ new.rule = Rule(e) /\ new.raised = ev[e].began
  BY DEF new
<1>7. Stamped(alert')
  <2> SUFFICES ASSUME NEW i \in DOMAIN alert'
               PROVE  alert'[i].raised < i /\ (alert'[i].delivered => alert'[i].mails > 0)
    BY DEF Stamped
  <2>1. i \in DOMAIN alert \/ i = Len(alert) + 1
    BY <1>2, <1>5
  <2>2. CASE i \in DOMAIN alert
    BY <1>5, <2>2, TypesKnown DEF Stamped
  <2>3. CASE i = Len(alert) + 1
    BY <1>2, <1>3, <1>5, <1>6, <2>3
  <2> QED BY <2>1, <2>2, <2>3
<1>8. /\ ev'[e] = [ev[e] EXCEPT !.pc = "find", !.began = Len(alert) + 1]
      /\ ev' = [ev EXCEPT ![e] = ev'[e]]
  BY <1>1, <1>5, TypesKnown
<1>9. ev'[e] \in Worker
  <2>1. Len(alert) + 1 \in Nat
    BY <1>2
  <2> QED BY <1>2, <1>8, <2>1 DEF Worker
<1>10. /\ ev'[e].pc = "find" /\ ev'[e].todo = ev[e].todo /\ ev'[e].began = Len(alert) + 1
       /\ ev'[e].id = ev[e].id
  BY <1>2, <1>8 DEF Worker
<1>11. AtWork(ev'[e], alert')
  BY <1>1, <1>2, <1>5, <1>10 DEF AtWork
<1>12. TypeInv'
  <2>1. \A i \in DOMAIN alert : alert'[i].rule = alert[i].rule /\ alert'[i].mails >= alert[i].mails
    BY <1>5, TypesKnown
  <2>2. sent' \in [Rules -> Nat] /\ failures' \in 0 .. MaxFailures /\ Len(alert') >= Len(alert)
    BY <1>1, <1>2, <1>5, TypesKnown
  <2> QED BY <1>1, <1>5, <1>7, <1>8, <1>9, <1>11, <2>1, <2>2, OneMoves
<1> QED BY <1>5, <1>6, <1>10, <1>12

\* One alert changes, in what is neither its rule nor its age, and not for the worse.
LEMMA OneAlertChanges ==
  ASSUME TypeInv, NEW i \in DOMAIN alert, alert' = [alert EXCEPT ![i] = alert'[i]],
         alert'[i] \in Alert, alert'[i].rule = alert[i].rule, alert'[i].raised = alert[i].raised,
         alert'[i].mails >= alert[i].mails, alert'[i].delivered => alert'[i].mails > 0
  PROVE  /\ alert' \in Seq(Alert) /\ Len(alert') = Len(alert) /\ Stamped(alert')
         /\ \A j \in DOMAIN alert : alert'[j].rule = alert[j].rule /\ alert'[j].mails >= alert[j].mails
         /\ \A j \in DOMAIN alert : alert'[j].raised = alert[j].raised
         /\ \A j \in DOMAIN alert : j # i => alert'[j] = alert[j]
<1>1. alert' \in Seq(Alert) /\ Len(alert') = Len(alert) /\ DOMAIN alert' = DOMAIN alert
  <2> DEFINE new == alert'[i]
  <2>1. alert \in Seq(Alert) /\ new \in Alert /\ alert' = [alert EXCEPT ![i] = new]
    BY TypesKnown
  <2> HIDE DEF new
  <2> QED BY <2>1
<1>2. \A j \in DOMAIN alert : j # i => alert'[j] = alert[j]
  BY TypesKnown
<1>3. \A j \in DOMAIN alert : alert'[j].mails >= alert[j].mails /\ alert'[j].rule = alert[j].rule /\ alert'[j].raised = alert[j].raised
  BY <1>2, TypesKnown
<1>4. Stamped(alert')
  BY <1>1, <1>2, <1>3, TypesKnown DEF Stamped
<1> QED BY <1>1, <1>2, <1>3, <1>4

LEMMA TypeClear ==
  ASSUME TypeInv, NEW e \in Evaluators, Clear(e)
  PROVE  /\ TypeInv' /\ Len(alert') = Len(alert) /\ UNCHANGED sent
         /\ \A i \in DOMAIN alert : /\ alert'[i].rule = alert[i].rule /\ alert'[i].mails = alert[i].mails
                                    /\ alert'[i].raised = alert[i].raised
                                    /\ alert[i].cleared => alert'[i].cleared
         /\ ev'[e].pc \in {"idle", "evaluate"}
         /\ ev'[e].pc = "evaluate" => ev'[e].began = Len(alert)
<1> DEFINE i == ev[e].id
<1>1. /\ ev' = [ev EXCEPT ![e] = NextRule(e, Len(alert'))] /\ ev[e].pc = "clear"
      /\ alert' = [alert EXCEPT ![i].cleared = TRUE]
      /\ UNCHANGED <<sent, now, archive, latest, rules, config, failures>>
  BY DEF Clear, Become, Committed, Untouched, At
<1>2. i \in DOMAIN alert
  BY <1>1, TypesKnown DEF AtWork
<1> HIDE DEF i
<1>3. alert' = [alert EXCEPT ![i] = alert'[i]] /\ alert'[i] = [alert[i] EXCEPT !.cleared = TRUE]
  BY <1>1, <1>2, TypesKnown
<1>4. /\ alert'[i] \in Alert /\ alert'[i].rule = alert[i].rule /\ alert'[i].mails = alert[i].mails
      /\ alert'[i].raised = alert[i].raised /\ alert'[i].delivered = alert[i].delivered /\ alert'[i].cleared
  BY <1>2, <1>3, TypesKnown DEF Alert
<1>5. alert'[i].mails >= alert[i].mails /\ (alert'[i].delivered => alert'[i].mails > 0)
  BY <1>2, <1>4, TypesKnown DEF Stamped
<1>6. /\ alert' \in Seq(Alert) /\ Len(alert') = Len(alert) /\ Stamped(alert')
      /\ \A j \in DOMAIN alert : alert'[j].rule = alert[j].rule /\ alert'[j].mails >= alert[j].mails
      /\ \A j \in DOMAIN alert : alert'[j].raised = alert[j].raised
      /\ \A j \in DOMAIN alert : j # i => alert'[j] = alert[j]
  BY <1>2, <1>3, <1>4, <1>5, OneAlertChanges
<1>7. /\ TypeInv' /\ ev'[e].pc \in {"idle", "evaluate"}
      /\ ev'[e].pc = "evaluate" => ev'[e].began = Len(alert)
  <2>1. UNCHANGED sent /\ UNCHANGED <<now, archive, latest, rules, config, failures>> /\ ev[e].pc # "idle"
    BY <1>1
  <2>2. Len(alert') = Len(alert) /\ Len(alert) \in Nat /\ Len(alert) <= Len(alert)
    BY <1>6, TypesKnown
  <2> QED BY <1>1, <1>6, <2>1, <2>2, TypeNextRule
<1>8. \A j \in DOMAIN alert : alert'[j].mails = alert[j].mails /\ (alert[j].cleared => alert'[j].cleared)
  BY <1>4, <1>6
<1> QED BY <1>1, <1>6, <1>7, <1>8

LEMMA TypeFind ==
  ASSUME TypeInv, NEW e \in Evaluators, Find(e)
  PROVE  TypeInv' /\ ev'[e].pc = "deliver" /\ ev'[e].id \in Newest(Rule(e)) /\ ev'[e].todo = ev[e].todo
<1>1. PICK i \in Newest(Rule(e)) : ev' = [ev EXCEPT ![e] = [ev[e] EXCEPT !.pc = "deliver", !.id = i]]
  BY DEF Find, Become
<1>2. /\ ev[e].pc = "find" /\ UNCHANGED <<alert, sent>>
      /\ UNCHANGED <<now, archive, latest, rules, config>> /\ failures' \in 0 .. MaxFailures
  BY TypesKnown DEF Find, At, Untouched
<1>3. ev[e] \in Worker /\ AtWork(ev[e], alert) /\ Len(alert) \in Nat
  BY TypesKnown
<1>4. i \in 1 .. Len(alert) /\ i \in Nat /\ alert[i].rule = RuleOrder[Min(ev[e].todo)]
  BY <1>1, <1>3, TypesKnown DEF Newest, Rule
<1>5. /\ ev'[e] = [ev[e] EXCEPT !.pc = "deliver", !.id = i]
      /\ ev' = [ev EXCEPT ![e] = ev'[e]]
  BY <1>1, TypesKnown
<1>6. ev'[e] \in Worker
  BY <1>3, <1>4, <1>5 DEF Worker
<1>7. ev'[e].pc = "deliver" /\ ev'[e].id = i /\ ev'[e].todo = ev[e].todo /\ ev'[e].began = ev[e].began
  BY <1>3, <1>5 DEF Worker
<1>8. AtWork(ev'[e], alert')
  <2>1. alert' = alert /\ i \in 0 .. Len(alert) /\ i # 0
    BY <1>2, <1>4
  <2> QED BY <1>2, <1>3, <1>4, <1>7, <2>1 DEF AtWork
<1>9. TypeInv'
  BY <1>2, <1>5, <1>6, <1>8, SameTable, OneMoves
<1> QED BY <1>1, <1>7, <1>9

\* Only what was sent is called delivered.
LEMMA SendingKinds ==
  ASSUME NEW s \in Sending
  PROVE  s.result \in {"delivered", "error"} /\ (s.result = "delivered" => s.sent)
<1>1. CASE s = [sent |-> FALSE, result |-> "error"]
  BY <1>1
<1>2. CASE s \in [sent : {TRUE}, result : {"delivered", "error"}]
  BY <1>2
<1>3. s \in {[sent |-> FALSE, result |-> "error"]}
            \cup (IF Mail THEN [sent : {TRUE}, result : {"delivered", "error"}] ELSE {})
  BY DEF Sending
<1>4. s = [sent |-> FALSE, result |-> "error"] \/ s \in [sent : {TRUE}, result : {"delivered", "error"}]
  <2> DEFINE some == [sent : {TRUE}, result : {"delivered", "error"}]
             none == [sent |-> FALSE, result |-> "error"]
  <2>1. s \in {none} \cup (IF Mail THEN some ELSE {})
    BY <1>3
  <2> HIDE DEF some, none
  <2>2. s = none \/ s \in some
    BY <2>1
  <2> QED BY <2>2 DEF some, none
<1> QED BY <1>1, <1>2, <1>4

LEMMA TypeSend ==
  ASSUME TypeInv, NEW e \in Evaluators, Send(e)
  PROVE  /\ TypeInv' /\ Len(alert') = Len(alert)
         /\ ev[e].pc = "deliver" /\ ev'[e].pc = "record" /\ ev[e].id \in DOMAIN alert
         /\ \A i \in DOMAIN alert : /\ alert'[i].rule = alert[i].rule /\ alert'[i].raised = alert[i].raised
                                    /\ alert'[i].cleared = alert[i].cleared
         /\ \/ UNCHANGED sent /\ \A i \in DOMAIN alert : alert'[i].mails = alert[i].mails
            \/ /\ sent' = [sent EXCEPT ![Rule(e)] = @ + 1]
               /\ alert'[ev[e].id].mails = alert[ev[e].id].mails + 1
               /\ \A i \in DOMAIN alert : i # ev[e].id => alert'[i].mails = alert[i].mails
<1> DEFINE i == ev[e].id
<1>1. /\ ev[e].pc = "deliver" /\ UNCHANGED <<now, archive, latest, rules, config>>
      /\ failures' \in 0 .. MaxFailures
  BY TypesKnown DEF Send, At, Untouched
<1>2. ev[e] \in Worker /\ AtWork(ev[e], alert) /\ Len(alert) \in Nat
  BY TypesKnown
<1>3. i \in DOMAIN alert /\ i # 0 /\ i \in 0 .. Len(alert) /\ alert[i].rule = RuleOrder[Min(ev[e].todo)]
  BY <1>1, <1>2, TypesKnown DEF AtWork
<1>4. PICK s \in Sending :
        /\ IF s.sent THEN /\ alert' = [alert EXCEPT ![i].mails = @ + 1]
                          /\ sent' = [sent EXCEPT ![Rule(e)] = @ + 1]
                     ELSE UNCHANGED <<alert, sent>>
        /\ ev' = [ev EXCEPT ![e] = [ev[e] EXCEPT !.pc = "record", !.result = s.result]]
  BY DEF Send, Become
<1>5. s.result \in {"delivered", "error"} /\ (s.result = "delivered" => s.sent)
  BY <1>4, SendingKinds
<1>6. /\ ev'[e] = [ev[e] EXCEPT !.pc = "record", !.result = s.result]
      /\ ev' = [ev EXCEPT ![e] = ev'[e]]
  BY <1>4, TypesKnown
<1>7. ev'[e] \in Worker
  <2>1. \A w \in Worker : \A r \in {"delivered", "error"} :
          [w EXCEPT !.pc = "record", !.result = r] \in Worker
    BY DEF Worker
  <2>2. [ev[e] EXCEPT !.pc = "record", !.result = s.result] \in Worker
    BY <1>2, <1>5, <2>1
  <2> QED BY <1>6, <2>2
<1>8. /\ ev'[e].pc = "record" /\ ev'[e].todo = ev[e].todo /\ ev'[e].began = ev[e].began
      /\ ev'[e].id = i /\ ev'[e].result = s.result
  BY <1>2, <1>6 DEF Worker
<1> HIDE DEF i
<1>9. /\ alert' \in Seq(Alert) /\ Len(alert') = Len(alert) /\ Stamped(alert') /\ sent' \in [Rules -> Nat]
      /\ \A j \in DOMAIN alert : alert'[j].rule = alert[j].rule /\ alert'[j].mails >= alert[j].mails
      /\ \A j \in DOMAIN alert : alert'[j].raised = alert[j].raised /\ alert'[j].cleared = alert[j].cleared
      /\ s.sent => alert'[i].mails > 0
      /\ \/ UNCHANGED sent /\ \A j \in DOMAIN alert : alert'[j].mails = alert[j].mails
         \/ /\ sent' = [sent EXCEPT ![Rule(e)] = @ + 1]
            /\ alert'[i].mails = alert[i].mails + 1
            /\ \A j \in DOMAIN alert : j # i => alert'[j].mails = alert[j].mails
  <2>1. CASE ~ s.sent
    BY <1>4, <2>1, SameTable, TypesKnown
  <2>2. CASE s.sent
    <3>1. alert' = [alert EXCEPT ![i].mails = @ + 1] /\ sent' = [sent EXCEPT ![Rule(e)] = @ + 1]
      BY <1>4, <2>2
    <3>2. alert' = [alert EXCEPT ![i] = alert'[i]] /\ alert'[i] = [alert[i] EXCEPT !.mails = @ + 1]
      BY <1>3, <3>1, TypesKnown
    <3>3. alert[i] \in Alert /\ alert[i].mails \in Nat /\ alert[i].mails + 1 \in Nat
      BY <1>3, TypesKnown
    <3>4. /\ alert'[i] \in Alert /\ alert'[i].rule = alert[i].rule /\ alert'[i].mails = alert[i].mails + 1
          /\ alert'[i].raised = alert[i].raised /\ alert'[i].cleared = alert[i].cleared
      BY <3>2, <3>3 DEF Alert
    <3>5. alert'[i].mails >= alert[i].mails /\ alert'[i].mails > 0
      BY <3>3, <3>4
    <3>6. /\ alert' \in Seq(Alert) /\ Len(alert') = Len(alert) /\ Stamped(alert')
          /\ \A j \in DOMAIN alert : alert'[j].rule = alert[j].rule /\ alert'[j].mails >= alert[j].mails
          /\ \A j \in DOMAIN alert : alert'[j].raised = alert[j].raised
          /\ \A j \in DOMAIN alert : j # i => alert'[j] = alert[j]
      BY <1>3, <3>2, <3>4, <3>5, OneAlertChanges
    <3>7. \A j \in DOMAIN alert : alert'[j].cleared = alert[j].cleared
      BY <3>4, <3>6
    <3>8. sent' \in [Rules -> Nat]
      <4>1. sent \in [Rules -> Nat] /\ Rule(e) \in Rules
        BY <1>1, <1>2, FirstOfTodo, TypesKnown DEF Rule, Worker, AtWork
      <4> QED BY <3>1, <4>1
    <3> QED BY <3>1, <3>4, <3>5, <3>6, <3>7, <3>8
  <2> QED BY <2>1, <2>2
<1>10. AtWork(ev'[e], alert')
  <2>1. alert'[i].rule = alert[i].rule
    BY <1>3, <1>9
  <2> QED BY <1>1, <1>2, <1>3, <1>5, <1>8, <1>9, <2>1 DEF AtWork
<1>11. TypeInv'
  <2>1. Len(alert') >= Len(alert)
    BY <1>2, <1>9
  <2> QED BY <1>1, <1>6, <1>7, <1>9, <1>10, <2>1, OneMoves
<1> QED BY <1>1, <1>3, <1>8, <1>9, <1>11 DEF i

LEMMA TypeRecord ==
  ASSUME TypeInv, NEW e \in Evaluators, Record(e)
  PROVE  /\ TypeInv' /\ Len(alert') = Len(alert) /\ UNCHANGED sent
         /\ \A i \in DOMAIN alert : /\ alert'[i].rule = alert[i].rule /\ alert'[i].mails = alert[i].mails
                                    /\ alert'[i].raised = alert[i].raised
                                    /\ alert[i].cleared => alert'[i].cleared
         /\ ev'[e].pc \in {"idle", "evaluate"}
         /\ ev'[e].pc = "evaluate" => ev'[e].began = Len(alert)
<1> DEFINE i == ev[e].id
<1>1. /\ ev' = [ev EXCEPT ![e] = NextRule(e, Len(alert'))] /\ ev[e].pc = "record"
      /\ alert' = IF ev[e].result = "delivered"
                  THEN [alert EXCEPT ![i].delivered = TRUE] ELSE [alert EXCEPT ![i].error = TRUE]
      /\ UNCHANGED <<sent, now, archive, latest, rules, config, failures>>
  BY DEF Record, Become, Committed, Untouched, At
<1>2. i \in DOMAIN alert /\ (ev[e].result = "delivered" => alert[i].mails > 0)
  BY <1>1, TypesKnown DEF AtWork
<1> HIDE DEF i
<1>3. alert' = [alert EXCEPT ![i] = alert'[i]]
  BY <1>1, <1>2, TypesKnown
<1>4. \/ ev[e].result = "delivered" /\ alert'[i] = [alert[i] EXCEPT !.delivered = TRUE]
      \/ alert'[i] = [alert[i] EXCEPT !.error = TRUE]
  BY <1>1, <1>2, TypesKnown
<1>5. alert[i] \in Alert /\ alert[i].mails \in Nat
  BY <1>2, TypesKnown
<1>6. /\ alert'[i] \in Alert /\ alert'[i].rule = alert[i].rule /\ alert'[i].mails = alert[i].mails
      /\ alert'[i].raised = alert[i].raised /\ alert'[i].cleared = alert[i].cleared
      /\ alert'[i].delivered = alert[i].delivered \/ ev[e].result = "delivered"
  BY <1>4, <1>5 DEF Alert
<1>7. alert'[i].mails >= alert[i].mails /\ (alert'[i].delivered => alert'[i].mails > 0)
  BY <1>2, <1>5, <1>6, TypesKnown DEF Stamped
<1>8. /\ alert' \in Seq(Alert) /\ Len(alert') = Len(alert) /\ Stamped(alert')
      /\ \A j \in DOMAIN alert : alert'[j].rule = alert[j].rule /\ alert'[j].mails >= alert[j].mails
      /\ \A j \in DOMAIN alert : alert'[j].raised = alert[j].raised
      /\ \A j \in DOMAIN alert : j # i => alert'[j] = alert[j]
  BY <1>2, <1>3, <1>6, <1>7, OneAlertChanges
<1>9. /\ TypeInv' /\ ev'[e].pc \in {"idle", "evaluate"}
      /\ ev'[e].pc = "evaluate" => ev'[e].began = Len(alert)
  <2>1. UNCHANGED sent /\ UNCHANGED <<now, archive, latest, rules, config, failures>> /\ ev[e].pc # "idle"
    BY <1>1
  <2>2. Len(alert') = Len(alert) /\ Len(alert) \in Nat /\ Len(alert) <= Len(alert)
    BY <1>8, TypesKnown
  <2> QED BY <1>1, <1>8, <2>1, <2>2, TypeNextRule
<1>10. \A j \in DOMAIN alert : alert'[j].mails = alert[j].mails /\ (alert[j].cleared => alert'[j].cleared)
  BY <1>6, <1>8
<1> QED BY <1>1, <1>8, <1>9, <1>10

LEMMA TypeInterrupted ==
  ASSUME TypeInv, NEW e \in Evaluators, Interrupted(e)
  PROVE  TypeInv' /\ ev'[e].pc = "idle" /\ UNCHANGED <<alert, sent>>
<1>1. /\ ev' = [ev EXCEPT ![e] = Idle(ev[e].cycle)] /\ UNCHANGED <<alert, sent>>
      /\ UNCHANGED <<now, archive, latest, rules, config>>
  BY DEF Interrupted, Become
<1>2. failures' \in 0 .. MaxFailures
  BY TypesKnown, BoundAssumption DEF Interrupted
<1>3. ev'[e] = Idle(ev[e].cycle) /\ ev' = [ev EXCEPT ![e] = ev'[e]] /\ ev[e].cycle \in Nat /\ Len(alert) \in Nat
  BY <1>1, TypesKnown DEF Worker
<1>4. ev'[e] \in Worker /\ ev'[e].pc = "idle"
  BY <1>3 DEF Idle, Worker
<1>5. AtWork(ev'[e], alert')
  BY <1>1, <1>3 DEF Idle, AtWork
<1> QED BY <1>1, <1>2, <1>3, <1>4, <1>5, SameTable, OneMoves

LEMMA TypeOutside ==
  ASSUME TypeInv, Tick \/ Seed
  PROVE  TypeInv' /\ UNCHANGED <<alert, sent, ev>>
<1>1. UNCHANGED <<alert, sent, ev, failures>>
  BY DEF Tick, Seed
<1>2. CASE Tick
  <2>1. now \in 0 .. MaxNow /\ now < MaxNow /\ now' = now + 1 /\ UNCHANGED <<rules, config>> /\ latest' \in Latest
    BY <1>2 DEF Tick, TypeInv
  <2>2. now' \in 0 .. MaxNow
    BY <2>1, BoundAssumption
  <2>3. PICK s \in Samples \cup {"none"} : archive' = [t \in 1 .. now' |-> IF t = now' THEN s ELSE archive[t]]
    BY <1>2 DEF Tick
  <2>4. \A t \in 1 .. now' : t # now' => archive[t] \in Samples \cup {"none"}
    <3>1. \A t \in 1 .. now' : t # now' => t \in 1 .. now
      BY <2>1
    <3>2. archive \in [1 .. now -> Samples \cup {"none"}]
      BY DEF TypeInv
    <3> QED BY <3>1, <3>2
  <2>5. archive' \in [1 .. now' -> Samples \cup {"none"}]
    BY <2>3, <2>4
  <2> QED BY <1>1, <2>1, <2>2, <2>5, TypesKnown DEF TypeInv
<1>3. CASE Seed
  <2>1. PICK wanted \in Files : config' = wanted /\ rules' = Seeded(wanted)
    BY <1>3 DEF Seed
  <2>2. config' \subseteq Rules
    BY <2>1, FileAssumption
  <2>3. rules' \in [Rules -> {"absent", "enabled", "disabled"}]
    BY <2>1 DEF Seeded, TypeInv
  <2> QED BY <1>1, <1>3, <2>2, <2>3, TypesKnown DEF TypeInv, Seed
<1> QED BY <1>1, <1>2, <1>3

\* An evaluator's step is its own.
LEMMA OneAtATime ==
  ASSUME TypeInv, NEW e \in Evaluators, Run(e) \/ Interrupted(e)
  PROVE  \A f \in Evaluators : f # e => ev'[f] = ev[f]
<1>1. ev \in [Evaluators -> Worker]
  BY DEF TypeInv
<1>2. ASSUME NEW state, Become(e, state) PROVE \A f \in Evaluators : f # e => ev'[f] = ev[f]
  BY <1>1, <1>2 DEF Become
<1>3. \E state : Become(e, state)
  BY DEF Run, Load, Evaluate, Look, Raise, Clear, Find, Send, Record, Interrupted
<1> QED BY <1>2, <1>3

LEMMA TypeInit == Init => TypeInv
<1> SUFFICES ASSUME Init PROVE TypeInv
  OBVIOUS
<1>1. /\ now = 0 /\ archive = <<>> /\ latest \in Latest /\ config = {} /\ alert = <<>> /\ failures = 0
      /\ rules = [r \in Rules |-> "absent"] /\ sent = [r \in Rules |-> 0]
      /\ ev = [e \in Evaluators |-> Idle(0)]
  BY DEF Init
<1>2. Idle(0) \in Worker /\ AtWork(Idle(0), alert)
  BY <1>1 DEF Idle, Worker, AtWork
<1>3. archive \in [1 .. now -> Samples \cup {"none"}] /\ now \in 0 .. MaxNow /\ failures \in 0 .. MaxFailures
  BY <1>1, BoundAssumption
<1>4. ev \in [Evaluators -> Worker] /\ \A e \in Evaluators : AtWork(ev[e], alert)
  BY <1>1, <1>2
<1>5. alert \in Seq(Alert) /\ sent \in [Rules -> Nat] /\ Stamped(alert) /\ config \subseteq Rules
  BY <1>1 DEF Stamped
<1> QED BY <1>1, <1>3, <1>4, <1>5 DEF TypeInv

LEMMA TypeNext == TypeInv /\ [Next]_vars => TypeInv'
<1> SUFFICES ASSUME TypeInv, [Next]_vars PROVE TypeInv'
  OBVIOUS
<1>1. CASE Tick \/ Seed
  BY <1>1, TypeOutside
<1>2. ASSUME NEW e \in Evaluators, Run(e) \/ Interrupted(e) PROVE TypeInv'
  BY <1>2, TypeLoad, TypeEvaluate, TypeLook, TypeRaise, TypeClear, TypeFind, TypeSend, TypeRecord,
     TypeInterrupted DEF Run
<1>3. CASE UNCHANGED vars
  BY <1>3 DEF vars, TypeInv
<1> QED BY <1>1, <1>2, <1>3 DEF Next

LEMMA TypeHolds == Spec => []TypeInv
BY TypeInit, TypeNext, PTL DEF Spec

\* An alert says `delivered' only of a mail that the server accepted, whoever
\* sent it and whatever was interrupted in between (alerts.py, deliver).
THEOREM DeliveredMeansMailed == Spec => []DeliveredWasMailed
BY TypeHolds, TypeInvImplies, PTL

-----------------------------------------------------------------------------
(* The inductive invariant, part two: what a race can cost.  Everyone counts *)
(* who can still act: who is about to raise an alert, who may come to mail   *)
(* one, who will mail for a rule.  Each of them is charged in advance.       *)

Place(w) == RuleOrder[Min(w.todo)]

OpenIn(r, table)   == {i \in DOMAIN table : table[i].rule = r /\ ~ table[i].cleared}
Mine(r, table)     == {i \in DOMAIN table : table[i].rule = r}
NewestIn(r, table) ==
  {i \in Mine(r, table) : \A j \in Mine(r, table) : table[j].raised <= table[i].raised}

Raisers(r, all) == {e \in Evaluators : all[e].pc = "raise" /\ Place(all[e]) = r}
Mailers(r, all) == {e \in Evaluators : all[e].pc \in {"find", "deliver"} /\ Place(all[e]) = r}

\* Whoever began after the alert was raised stamps what it raises later than
\* that, and so will not take this alert for its own.
MayMail(w, i, table) ==
  \/ w.pc = "deliver" /\ w.id = i
  \/ w.pc = "find" /\ i \in NewestIn(Place(w), table)
  \/ w.pc \in {"evaluate", "look", "raise"} /\ w.began <= table[i].raised
Candidates(i, all, table) == {e \in Evaluators : MayMail(all[e], i, table)}

OpenCharged(all, table) ==
  \A r \in Rules : Cardinality(OpenIn(r, table)) + Cardinality(Raisers(r, all)) <= Cardinality(Evaluators)
MailsCharged(all, table) ==
  \A i \in DOMAIN table : table[i].mails + Cardinality(Candidates(i, all, table)) <= Cardinality(Evaluators)
SentCharged(all, table, mails) ==
  \A r \in Rules : mails[r] + Cardinality(Mailers(r, all)) <= Cardinality(Mine(r, table))

RaceInv == OpenCharged(ev, alert) /\ MailsCharged(ev, alert) /\ SentCharged(ev, alert, sent)

\* Sets of evaluators and of alerts are finite.
LEMMA GroupsAreFinite ==
  ASSUME NEW S \in SUBSET Evaluators
  PROVE  IsFiniteSet(S) /\ Cardinality(S) \in Nat /\ Cardinality(S) <= Cardinality(Evaluators)
<1>1. IsFiniteSet(S) /\ Cardinality(S) <= Cardinality(Evaluators)
  BY EvaluatorAssumption, FS_Subset
<1> QED BY <1>1, FS_CardinalityType

LEMMA TableIsFinite ==
  ASSUME NEW table \in Seq(Alert), NEW S \in SUBSET DOMAIN table
  PROVE  IsFiniteSet(S) /\ Cardinality(S) \in Nat
<1>1. DOMAIN table = 1 .. Len(table) /\ Len(table) \in Nat
  OBVIOUS
<1>2. IsFiniteSet(DOMAIN table)
  BY <1>1, FS_Interval
<1>3. IsFiniteSet(S)
  BY <1>2, FS_Subset
<1> QED BY <1>3, FS_CardinalityType

\* Fewer are no more.
LEMMA FewerEvaluators ==
  ASSUME NEW S \in SUBSET Evaluators, NEW T \in SUBSET S
  PROVE  Cardinality(T) <= Cardinality(S) /\ Cardinality(T) \in Nat /\ Cardinality(S) \in Nat
<1>1. IsFiniteSet(S)
  BY GroupsAreFinite
<1> QED BY <1>1, FS_Subset, GroupsAreFinite

\* One less.
LEMMA OneEvaluatorLess ==
  ASSUME NEW S \in SUBSET Evaluators, NEW e \in S, NEW T \in SUBSET (S \ {e})
  PROVE  Cardinality(T) + 1 <= Cardinality(S) /\ Cardinality(T) \in Nat
<1>1. IsFiniteSet(S) /\ Cardinality(S) \in Nat
  BY GroupsAreFinite
<1>2. Cardinality(S \ {e}) = Cardinality(S) - 1
  BY <1>1, FS_RemoveElement
<1>3. Cardinality(T) <= Cardinality(S \ {e}) /\ Cardinality(T) \in Nat
  BY FewerEvaluators
<1> QED BY <1>1, <1>2, <1>3

\* A step that raises nothing, mails nothing and gives nobody a new claim.
LEMMA CalmStep ==
  ASSUME TypeInv, RaceInv, alert' \in Seq(Alert), Len(alert') = Len(alert), UNCHANGED sent,
         \A i \in DOMAIN alert : /\ alert'[i].rule = alert[i].rule /\ alert'[i].mails = alert[i].mails
                                 /\ alert'[i].raised = alert[i].raised
                                 /\ alert[i].cleared => alert'[i].cleared,
         \A f \in Evaluators :
           \/ ev'[f] = ev[f]
           \/ /\ ev'[f].pc = "raise" => ev[f].pc = "raise" /\ ev'[f].todo = ev[f].todo
              /\ ev'[f].pc \in {"find", "deliver"} =>
                   ev[f].pc \in {"find", "deliver"} /\ ev'[f].todo = ev[f].todo
              /\ \A i \in DOMAIN alert : MayMail(ev'[f], i, alert') => MayMail(ev[f], i, alert)
  PROVE  RaceInv'
<1>1. DOMAIN alert' = DOMAIN alert /\ alert \in Seq(Alert)
  BY TypesKnown
<1>2. \A r : Mine(r, alert') = Mine(r, alert) /\ OpenIn(r, alert') \subseteq OpenIn(r, alert)
  BY <1>1 DEF Mine, OpenIn
<1>3. \A r : NewestIn(r, alert') = NewestIn(r, alert)
  <2> TAKE r
  <2>1. \A i \in Mine(r, alert) : i \in DOMAIN alert
    BY DEF Mine
  <2> QED BY <1>2, <2>1 DEF NewestIn
<1>4. \A f \in Evaluators : \A i \in DOMAIN alert : MayMail(ev'[f], i, alert') => MayMail(ev[f], i, alert)
  <2> TAKE f \in Evaluators
  <2> TAKE i \in DOMAIN alert
  <2>1. CASE ev'[f] = ev[f]
    BY <1>3, <2>1 DEF MayMail
  <2> QED BY <2>1
<1>5. OpenCharged(ev', alert')
  <2> SUFFICES ASSUME NEW r \in Rules
               PROVE  Cardinality(OpenIn(r, alert')) + Cardinality(Raisers(r, ev')) <= Cardinality(Evaluators)
    BY DEF OpenCharged
  <2>1. Raisers(r, ev') \subseteq Raisers(r, ev)
    BY DEF Raisers, Place
  <2>2. /\ Cardinality(Raisers(r, ev')) <= Cardinality(Raisers(r, ev))
        /\ Cardinality(Raisers(r, ev')) \in Nat /\ Cardinality(Raisers(r, ev)) \in Nat
    BY <2>1, FewerEvaluators DEF Raisers
  <2>3. /\ Cardinality(OpenIn(r, alert')) <= Cardinality(OpenIn(r, alert))
        /\ Cardinality(OpenIn(r, alert')) \in Nat /\ Cardinality(OpenIn(r, alert)) \in Nat
    <3>1. OpenIn(r, alert) \in SUBSET DOMAIN alert /\ OpenIn(r, alert') \in SUBSET DOMAIN alert
      BY <1>2 DEF OpenIn
    <3> QED BY <1>1, <1>2, <3>1, TableIsFinite, FS_Subset
  <2>4. Cardinality(OpenIn(r, alert)) + Cardinality(Raisers(r, ev)) <= Cardinality(Evaluators)
    BY DEF RaceInv, OpenCharged
  <2>5. Cardinality(Evaluators) \in Nat
    BY GroupsAreFinite
  <2> QED BY <2>2, <2>3, <2>4, <2>5
<1>6. MailsCharged(ev', alert')
  <2> SUFFICES ASSUME NEW i \in DOMAIN alert
               PROVE  alert'[i].mails + Cardinality(Candidates(i, ev', alert')) <= Cardinality(Evaluators)
    BY <1>1 DEF MailsCharged
  <2>1. Candidates(i, ev', alert') \subseteq Candidates(i, ev, alert)
    BY <1>4 DEF Candidates
  <2>2. /\ Cardinality(Candidates(i, ev', alert')) <= Cardinality(Candidates(i, ev, alert))
        /\ Cardinality(Candidates(i, ev', alert')) \in Nat /\ Cardinality(Candidates(i, ev, alert)) \in Nat
    BY <2>1, FewerEvaluators DEF Candidates
  <2>3. alert[i].mails + Cardinality(Candidates(i, ev, alert)) <= Cardinality(Evaluators)
    BY DEF RaceInv, MailsCharged
  <2>4. Cardinality(Evaluators) \in Nat /\ alert[i].mails \in Nat /\ alert'[i].mails = alert[i].mails
    BY GroupsAreFinite, TypesKnown
  <2> QED BY <2>2, <2>3, <2>4
<1>7. SentCharged(ev', alert', sent')
  <2> SUFFICES ASSUME NEW r \in Rules
               PROVE  sent[r] + Cardinality(Mailers(r, ev')) <= Cardinality(Mine(r, alert))
    BY <1>2 DEF SentCharged
  <2>1. Mailers(r, ev') \subseteq Mailers(r, ev)
    BY DEF Mailers, Place
  <2>2. /\ Cardinality(Mailers(r, ev')) <= Cardinality(Mailers(r, ev))
        /\ Cardinality(Mailers(r, ev')) \in Nat /\ Cardinality(Mailers(r, ev)) \in Nat
    BY <2>1, FewerEvaluators DEF Mailers
  <2>3. sent[r] + Cardinality(Mailers(r, ev)) <= Cardinality(Mine(r, alert))
    BY DEF RaceInv, SentCharged
  <2>4. sent[r] \in Nat /\ Cardinality(Mine(r, alert)) \in Nat
    BY <1>1, TypesKnown, TableIsFinite DEF Mine
  <2> QED BY <2>2, <2>3, <2>4
<1> QED BY <1>5, <1>6, <1>7 DEF RaceInv

\* An evaluator that begins with a rule has no claim: every alert there is is
\* older than its transaction.
LEMMA BeginnersClaimNothing ==
  ASSUME TypeInv, NEW w, w.pc \in {"idle", "evaluate", "clear", "record"},
         w.pc = "evaluate" => w.began = Len(alert),
         NEW table, Len(table) = Len(alert), \A i \in DOMAIN alert : table[i].raised = alert[i].raised
  PROVE  \A i \in DOMAIN alert : ~ MayMail(w, i, table)
<1> TAKE i \in DOMAIN alert
<1>1. alert[i].raised < i /\ i \in 1 .. Len(alert) /\ alert[i].raised \in Nat /\ Len(alert) \in Nat
  BY TypesKnown DEF Stamped
<1> QED BY <1>1 DEF MayMail

LEMMA RaceLoad ==
  ASSUME TypeInv, RaceInv, NEW e \in Evaluators, Load(e) PROVE RaceInv'
<1>1. UNCHANGED <<alert, sent>> /\ Run(e)
  BY DEF Load, Run
<1>2. ev'[e].pc = "evaluate" /\ ev'[e].began = Len(alert)
  BY TypeLoad
<1>3. \A i \in DOMAIN alert : ~ MayMail(ev'[e], i, alert')
  BY <1>1, <1>2, BeginnersClaimNothing
<1> QED BY <1>1, <1>2, <1>3, TypesKnown, OneAtATime, CalmStep

LEMMA RaceEvaluate ==
  ASSUME TypeInv, RaceInv, NEW e \in Evaluators, Evaluate(e) PROVE RaceInv'
<1>1. UNCHANGED <<alert, sent>> /\ Run(e) /\ ev[e].pc = "evaluate"
  BY DEF Evaluate, Run, At
<1>2. ev'[e].pc = "look" /\ ev'[e].began = ev[e].began
  BY TypeEvaluate
<1>3. \A i \in DOMAIN alert : MayMail(ev'[e], i, alert') => MayMail(ev[e], i, alert)
  BY <1>1, <1>2 DEF MayMail
<1> QED BY <1>1, <1>2, <1>3, TypesKnown, OneAtATime, CalmStep

LEMMA RaceLook ==
  ASSUME TypeInv, RaceInv, NEW e \in Evaluators, Look(e) PROVE RaceInv'
<1>1. UNCHANGED <<alert, sent>> /\ Run(e) /\ ev[e].pc = "look"
  BY DEF Look, Run, At
<1>2. CASE /\ ev'[e].pc \in {"idle", "evaluate", "clear"}
           /\ ev'[e].pc = "evaluate" => ev'[e].began = ev[e].began
  <2>1. \A i \in DOMAIN alert : MayMail(ev'[e], i, alert') => MayMail(ev[e], i, alert)
    <3>1. CASE ev'[e].pc = "evaluate"
      BY <1>1, <1>2, <3>1 DEF MayMail
    <3>2. CASE ev'[e].pc \in {"idle", "clear"}
      BY <1>2, <3>2 DEF MayMail
    <3> QED BY <1>2, <3>1, <3>2
  <2>2. ev'[e].pc # "raise" /\ ev'[e].pc \notin {"find", "deliver"}
    BY <1>2
  <2> QED BY <1>1, <2>1, <2>2, TypesKnown, OneAtATime, CalmStep
<1>3. CASE /\ ev'[e].pc = "raise" /\ ev'[e].began = ev[e].began
           /\ Open(Rule(e)) = {} /\ ev'[e].todo = ev[e].todo
  <2>1. \A f \in Evaluators : f # e => ev'[f] = ev[f]
    BY <1>1, OneAtATime
  <2>2. Rule(e) = Place(ev[e]) /\ OpenIn(Rule(e), alert) = {}
    BY <1>3 DEF Rule, Place, Open, OpenIn
  <2>3. OpenCharged(ev', alert')
    <3> SUFFICES ASSUME NEW r \in Rules
                 PROVE  Cardinality(OpenIn(r, alert)) + Cardinality(Raisers(r, ev')) <= Cardinality(Evaluators)
      BY <1>1 DEF OpenCharged
    <3>1. /\ Cardinality(OpenIn(r, alert)) \in Nat /\ Cardinality(Evaluators) \in Nat
          /\ Cardinality(Raisers(r, ev')) \in Nat /\ Cardinality(Raisers(r, ev')) <= Cardinality(Evaluators)
      BY TypesKnown, TableIsFinite, GroupsAreFinite DEF OpenIn, Raisers
    <3>2. CASE OpenIn(r, alert) = {}
      BY <3>1, <3>2, FS_EmptySet
    <3>3. CASE OpenIn(r, alert) # {}
      <4>1. Place(ev'[e]) # r
        BY <1>3, <2>2, <3>3 DEF Place
      <4>2. Raisers(r, ev') \subseteq Raisers(r, ev)
        BY <2>1, <4>1 DEF Raisers
      <4>3. /\ Cardinality(Raisers(r, ev')) <= Cardinality(Raisers(r, ev))
            /\ Cardinality(Raisers(r, ev)) \in Nat
        BY <4>2, FewerEvaluators DEF Raisers
      <4>4. Cardinality(OpenIn(r, alert)) + Cardinality(Raisers(r, ev)) <= Cardinality(Evaluators)
        BY DEF RaceInv, OpenCharged
      <4> QED BY <3>1, <4>3, <4>4
    <3> QED BY <3>2, <3>3
  <2>4. MailsCharged(ev', alert')
    <3>1. ASSUME NEW i \in DOMAIN alert PROVE Candidates(i, ev', alert) = Candidates(i, ev, alert)
      <4>1. MayMail(ev'[e], i, alert) <=> MayMail(ev[e], i, alert)
        BY <1>1, <1>3 DEF MayMail
      <4> QED BY <2>1, <4>1 DEF Candidates
    <3> QED BY <1>1, <3>1 DEF RaceInv, MailsCharged
  <2>5. SentCharged(ev', alert', sent')
    <3>1. ASSUME NEW r \in Rules PROVE Mailers(r, ev') = Mailers(r, ev)
      BY <1>1, <1>3, <2>1 DEF Mailers
    <3> QED BY <1>1, <3>1 DEF RaceInv, SentCharged
  <2> QED BY <2>3, <2>4, <2>5 DEF RaceInv
<1> QED BY <1>2, <1>3, TypeLook

LEMMA RaceClear ==
  ASSUME TypeInv, RaceInv, NEW e \in Evaluators, Clear(e) PROVE RaceInv'
<1>1. /\ TypeInv' /\ Len(alert') = Len(alert) /\ UNCHANGED sent
      /\ \A i \in DOMAIN alert : /\ alert'[i].rule = alert[i].rule /\ alert'[i].mails = alert[i].mails
                                 /\ alert'[i].raised = alert[i].raised
                                 /\ alert[i].cleared => alert'[i].cleared
      /\ ev'[e].pc \in {"idle", "evaluate"}
      /\ ev'[e].pc = "evaluate" => ev'[e].began = Len(alert)
  BY TypeClear
<1>2. \A i \in DOMAIN alert : ~ MayMail(ev'[e], i, alert')
  BY <1>1, BeginnersClaimNothing
<1>3. alert' \in Seq(Alert) /\ \A f \in Evaluators : f # e => ev'[f] = ev[f]
  BY <1>1, OneAtATime DEF Run, TypeInv
<1> QED BY <1>1, <1>2, <1>3, CalmStep

LEMMA RaceRecord ==
  ASSUME TypeInv, RaceInv, NEW e \in Evaluators, Record(e) PROVE RaceInv'
<1>1. /\ TypeInv' /\ Len(alert') = Len(alert) /\ UNCHANGED sent
      /\ \A i \in DOMAIN alert : /\ alert'[i].rule = alert[i].rule /\ alert'[i].mails = alert[i].mails
                                 /\ alert'[i].raised = alert[i].raised
                                 /\ alert[i].cleared => alert'[i].cleared
      /\ ev'[e].pc \in {"idle", "evaluate"}
      /\ ev'[e].pc = "evaluate" => ev'[e].began = Len(alert)
  BY TypeRecord
<1>2. \A i \in DOMAIN alert : ~ MayMail(ev'[e], i, alert')
  BY <1>1, BeginnersClaimNothing
<1>3. alert' \in Seq(Alert) /\ \A f \in Evaluators : f # e => ev'[f] = ev[f]
  BY <1>1, OneAtATime DEF Run, TypeInv
<1> QED BY <1>1, <1>2, <1>3, CalmStep

LEMMA RaceFind ==
  ASSUME TypeInv, RaceInv, NEW e \in Evaluators, Find(e) PROVE RaceInv'
<1>1. UNCHANGED <<alert, sent>> /\ Run(e) /\ ev[e].pc = "find"
  BY DEF Find, Run, At
<1>2. ev'[e].pc = "deliver" /\ ev'[e].id \in Newest(Rule(e)) /\ ev'[e].todo = ev[e].todo
  BY TypeFind
<1>3. Newest(Rule(e)) = NewestIn(Place(ev[e]), alert)
  BY DEF Newest, NewestIn, Mine, Rule, Place
<1>4. \A i \in DOMAIN alert : MayMail(ev'[e], i, alert') => MayMail(ev[e], i, alert)
  BY <1>1, <1>2, <1>3 DEF MayMail
<1> QED BY <1>1, <1>2, <1>4, TypesKnown, OneAtATime, CalmStep

LEMMA RaceInterrupted ==
  ASSUME TypeInv, RaceInv, NEW e \in Evaluators, Interrupted(e) PROVE RaceInv'
<1>1. UNCHANGED <<alert, sent>> /\ ev'[e].pc = "idle"
  BY TypeInterrupted
<1>2. \A i \in DOMAIN alert : ~ MayMail(ev'[e], i, alert')
  BY <1>1, BeginnersClaimNothing
<1> QED BY <1>1, <1>2, TypesKnown, OneAtATime, CalmStep

\* Who raises an alert no longer may raise one, and may mail the one it raised.
LEMMA RaceRaise ==
  ASSUME TypeInv, RaceInv, NEW e \in Evaluators, Raise(e) PROVE RaceInv'
<1> DEFINE new == Len(alert) + 1
           mine == Place(ev[e])
<1>1. /\ Len(alert') = new /\ \A i \in DOMAIN alert : alert'[i] = alert[i]
      /\ alert'[new].mails = 0 /\ ~ alert'[new].cleared
      /\ alert'[new].rule = mine /\ alert'[new].raised = ev[e].began
      /\ ev'[e].pc = "find" /\ ev'[e].todo = ev[e].todo /\ TypeInv'
  BY TypeRaise DEF Rule, Place
<1>2. ev[e].pc = "raise" /\ UNCHANGED sent /\ Run(e)
  BY DEF Raise, At, Run
<1>3. \A f \in Evaluators : f # e => ev'[f] = ev[f]
  BY <1>2, OneAtATime
<1>4. alert' \in Seq(Alert) /\ alert \in Seq(Alert) /\ Len(alert) \in Nat
  BY <1>1, TypesKnown DEF TypeInv
<1>5. DOMAIN alert = 1 .. Len(alert) /\ DOMAIN alert' = DOMAIN alert \cup {new} /\ new \notin DOMAIN alert
  BY <1>1, <1>4
<1>6. Place(ev'[e]) = mine
  BY <1>1 DEF Place
<1> HIDE DEF new, mine
<1>7. /\ \A r : r # mine => OpenIn(r, alert') = OpenIn(r, alert) /\ Mine(r, alert') = Mine(r, alert)
      /\ OpenIn(mine, alert') = OpenIn(mine, alert) \cup {new}
      /\ Mine(mine, alert') = Mine(mine, alert) \cup {new}
  BY <1>1, <1>5 DEF OpenIn, Mine
<1>8. OpenCharged(ev', alert')
  <2> SUFFICES ASSUME NEW r \in Rules
               PROVE  Cardinality(OpenIn(r, alert')) + Cardinality(Raisers(r, ev')) <= Cardinality(Evaluators)
    BY DEF OpenCharged
  <2>1. /\ Cardinality(OpenIn(r, alert)) + Cardinality(Raisers(r, ev)) <= Cardinality(Evaluators)
        /\ IsFiniteSet(OpenIn(r, alert)) /\ Cardinality(OpenIn(r, alert)) \in Nat /\ Cardinality(Evaluators) \in Nat
        /\ Cardinality(Raisers(r, ev)) \in Nat
    BY <1>4, TableIsFinite, GroupsAreFinite DEF OpenIn, Raisers, RaceInv, OpenCharged
  <2>2. CASE r # mine
    <3>1. Raisers(r, ev') \subseteq Raisers(r, ev)
      BY <1>1, <1>3 DEF Raisers
    <3>2. /\ Cardinality(Raisers(r, ev')) <= Cardinality(Raisers(r, ev))
          /\ Cardinality(Raisers(r, ev')) \in Nat
      BY <3>1, FewerEvaluators DEF Raisers
    <3> QED BY <1>7, <2>1, <2>2, <3>2
  <2>3. CASE r = mine
    <3>1. e \in Raisers(r, ev) /\ Raisers(r, ev') \subseteq Raisers(r, ev) \ {e}
      BY <1>1, <1>2, <1>3, <2>3 DEF Raisers, mine
    <3>2. Cardinality(Raisers(r, ev')) + 1 <= Cardinality(Raisers(r, ev)) /\ Cardinality(Raisers(r, ev')) \in Nat
      BY <3>1, OneEvaluatorLess DEF Raisers
    <3>3. new \notin OpenIn(r, alert)
      BY <1>5 DEF OpenIn
    <3>4. Cardinality(OpenIn(r, alert')) = Cardinality(OpenIn(r, alert)) + 1
      BY <1>7, <2>1, <2>3, <3>3, FS_AddElement
    <3> QED BY <2>1, <3>2, <3>4
  <2> QED BY <2>2, <2>3
<1>9. MailsCharged(ev', alert')
  <2> SUFFICES ASSUME NEW i \in DOMAIN alert'
               PROVE  alert'[i].mails + Cardinality(Candidates(i, ev', alert')) <= Cardinality(Evaluators)
    BY DEF MailsCharged
  <2>1. CASE i = new
    <3>1. /\ Cardinality(Candidates(i, ev', alert')) <= Cardinality(Evaluators)
          /\ Cardinality(Candidates(i, ev', alert')) \in Nat
      BY GroupsAreFinite DEF Candidates
    <3> QED BY <1>1, <2>1, <3>1
  <2>2. CASE i # new
    <3>1. i \in DOMAIN alert
      BY <1>5, <2>2
    <3>2. ASSUME NEW r, i \in NewestIn(r, alert')
          PROVE  i \in NewestIn(r, alert) /\ (r = mine => ev[e].began <= alert[i].raised)
      <4>1. i \in Mine(r, alert) /\ Mine(r, alert) \subseteq Mine(r, alert') /\ Mine(r, alert) \subseteq DOMAIN alert
        BY <1>7, <3>1, <3>2, <2>2 DEF NewestIn, Mine
      <4>2. \A j \in Mine(r, alert) : alert[j].raised <= alert[i].raised
        <5> TAKE j \in Mine(r, alert)
        <5>1. alert'[j].raised <= alert'[i].raised
          BY <3>2, <4>1 DEF NewestIn
        <5> QED BY <1>1, <3>1, <4>1, <5>1
      <4>3. ASSUME r = mine PROVE ev[e].began <= alert[i].raised
        <5>1. new \in Mine(r, alert')
          BY <1>7, <4>3
        <5>2. alert'[new].raised <= alert'[i].raised
          BY <3>2, <5>1 DEF NewestIn
        <5> QED BY <1>1, <3>1, <5>2
      <4> QED BY <4>1, <4>2, <4>3 DEF NewestIn
    <3>3. ASSUME NEW f \in Evaluators, MayMail(ev'[f], i, alert') PROVE MayMail(ev[f], i, alert)
      <4>1. CASE f = e
        <5>1. i \in NewestIn(mine, alert')
          BY <1>1, <1>6, <3>3, <4>1 DEF MayMail
        <5> QED BY <1>2, <3>2, <4>1, <5>1 DEF MayMail
      <4>2. CASE f # e
        <5>1. ev'[f] = ev[f] /\ alert'[i].raised = alert[i].raised
          BY <1>1, <1>3, <3>1, <4>2
        <5> QED BY <3>2, <3>3, <5>1 DEF MayMail
      <4> QED BY <4>1, <4>2
    <3>4. Candidates(i, ev', alert') \subseteq Candidates(i, ev, alert)
      BY <3>3 DEF Candidates
    <3>5. /\ Cardinality(Candidates(i, ev', alert')) <= Cardinality(Candidates(i, ev, alert))
          /\ Cardinality(Candidates(i, ev', alert')) \in Nat /\ Cardinality(Candidates(i, ev, alert)) \in Nat
      BY <3>4, FewerEvaluators DEF Candidates
    <3>6. alert[i].mails + Cardinality(Candidates(i, ev, alert)) <= Cardinality(Evaluators)
      BY <3>1 DEF RaceInv, MailsCharged
    <3>7. Cardinality(Evaluators) \in Nat /\ alert[i].mails \in Nat /\ alert'[i].mails = alert[i].mails
      BY <1>1, <3>1, GroupsAreFinite, TypesKnown
    <3> QED BY <3>5, <3>6, <3>7
  <2> QED BY <2>1, <2>2
<1>10. SentCharged(ev', alert', sent')
  <2> SUFFICES ASSUME NEW r \in Rules
               PROVE  sent[r] + Cardinality(Mailers(r, ev')) <= Cardinality(Mine(r, alert'))
    BY <1>2 DEF SentCharged
  <2>1. /\ sent[r] + Cardinality(Mailers(r, ev)) <= Cardinality(Mine(r, alert)) /\ sent[r] \in Nat
        /\ IsFiniteSet(Mine(r, alert)) /\ Cardinality(Mine(r, alert)) \in Nat
        /\ IsFiniteSet(Mailers(r, ev)) /\ Cardinality(Mailers(r, ev)) \in Nat
    BY <1>4, TypesKnown, TableIsFinite, GroupsAreFinite DEF Mine, Mailers, RaceInv, SentCharged
  <2>2. CASE r # mine
    <3>1. Mailers(r, ev') = Mailers(r, ev)
      BY <1>1, <1>2, <1>3, <1>6, <2>2 DEF Mailers
    <3> QED BY <1>7, <2>1, <2>2, <3>1
  <2>3. CASE r = mine
    <3>1. Mailers(r, ev') = Mailers(r, ev) \cup {e} /\ e \notin Mailers(r, ev)
      BY <1>1, <1>2, <1>3, <1>6, <2>3 DEF Mailers
    <3>2. Cardinality(Mailers(r, ev')) = Cardinality(Mailers(r, ev)) + 1
      BY <2>1, <3>1, FS_AddElement
    <3>3. new \notin Mine(r, alert)
      BY <1>5 DEF Mine
    <3>4. Cardinality(Mine(r, alert')) = Cardinality(Mine(r, alert)) + 1
      BY <1>7, <2>1, <2>3, <3>3, FS_AddElement
    <3> QED BY <2>1, <3>2, <3>4
  <2> QED BY <2>2, <2>3
<1> QED BY <1>8, <1>9, <1>10 DEF RaceInv

\* Who mails an alert has no claim left on any.
LEMMA RaceSend ==
  ASSUME TypeInv, RaceInv, NEW e \in Evaluators, Send(e) PROVE RaceInv'
<1> DEFINE id == ev[e].id
<1>1. /\ TypeInv' /\ Len(alert') = Len(alert)
      /\ ev[e].pc = "deliver" /\ ev'[e].pc = "record" /\ id \in DOMAIN alert
      /\ \A i \in DOMAIN alert : /\ alert'[i].rule = alert[i].rule /\ alert'[i].raised = alert[i].raised
                                 /\ alert'[i].cleared = alert[i].cleared
      /\ \/ UNCHANGED sent /\ \A i \in DOMAIN alert : alert'[i].mails = alert[i].mails
         \/ /\ sent' = [sent EXCEPT ![Rule(e)] = @ + 1]
            /\ alert'[id].mails = alert[id].mails + 1
            /\ \A i \in DOMAIN alert : i # id => alert'[i].mails = alert[i].mails
  BY TypeSend
<1>2. alert' \in Seq(Alert) /\ alert \in Seq(Alert) /\ DOMAIN alert' = DOMAIN alert
  BY <1>1, TypesKnown DEF TypeInv
<1>3. \A f \in Evaluators : f # e => ev'[f] = ev[f]
  BY OneAtATime DEF Run
<1>4. \A i \in DOMAIN alert : ~ MayMail(ev'[e], i, alert')
  BY <1>1, BeginnersClaimNothing
<1>5. CASE UNCHANGED sent /\ \A i \in DOMAIN alert : alert'[i].mails = alert[i].mails
  BY <1>1, <1>2, <1>3, <1>4, <1>5, CalmStep
<1>6. CASE /\ sent' = [sent EXCEPT ![Rule(e)] = @ + 1]
           /\ alert'[id].mails = alert[id].mails + 1
           /\ \A i \in DOMAIN alert : i # id => alert'[i].mails = alert[i].mails
  <2>1. \A r : Mine(r, alert') = Mine(r, alert) /\ OpenIn(r, alert') = OpenIn(r, alert)
    BY <1>1, <1>2 DEF Mine, OpenIn
  <2>2. \A r : NewestIn(r, alert') = NewestIn(r, alert)
    <3> TAKE r
    <3>1. \A i \in Mine(r, alert) : i \in DOMAIN alert
      BY DEF Mine
    <3> QED BY <1>1, <2>1, <3>1 DEF NewestIn
  <2>3. OpenCharged(ev', alert')
    <3>1. ASSUME NEW r \in Rules PROVE Raisers(r, ev') = Raisers(r, ev)
      BY <1>1, <1>3 DEF Raisers
    <3> QED BY <2>1, <3>1 DEF RaceInv, OpenCharged
  <2>4. MailsCharged(ev', alert')
    <3> SUFFICES ASSUME NEW i \in DOMAIN alert
                 PROVE  alert'[i].mails + Cardinality(Candidates(i, ev', alert')) <= Cardinality(Evaluators)
      BY <1>2 DEF MailsCharged
    <3>1. \A f \in Evaluators : MayMail(ev'[f], i, alert') => MayMail(ev[f], i, alert) /\ f # e
      <4> SUFFICES ASSUME NEW f \in Evaluators, MayMail(ev'[f], i, alert')
                   PROVE  MayMail(ev[f], i, alert) /\ f # e
        OBVIOUS
      <4>1. f # e
        BY <1>4
      <4>2. ev'[f] = ev[f] /\ alert'[i].raised = alert[i].raised
        BY <1>1, <1>3, <4>1
      <4> QED BY <2>2, <4>1, <4>2 DEF MayMail
    <3>2. Candidates(i, ev', alert') \subseteq Candidates(i, ev, alert) \ {e}
      BY <3>1 DEF Candidates
    <3>3. /\ alert[i].mails + Cardinality(Candidates(i, ev, alert)) <= Cardinality(Evaluators)
          /\ Cardinality(Evaluators) \in Nat /\ alert[i].mails \in Nat
      BY GroupsAreFinite, TypesKnown DEF RaceInv, MailsCharged
    <3>4. CASE i = id
      <4>1. e \in Candidates(i, ev, alert)
        BY <1>1, <3>4 DEF Candidates, MayMail
      <4>2. /\ Cardinality(Candidates(i, ev', alert')) + 1 <= Cardinality(Candidates(i, ev, alert))
            /\ Cardinality(Candidates(i, ev', alert')) \in Nat
        BY <3>2, <4>1, OneEvaluatorLess DEF Candidates
      <4>3. Cardinality(Candidates(i, ev, alert)) \in Nat
        BY GroupsAreFinite DEF Candidates
      <4> QED BY <1>6, <3>3, <3>4, <4>2, <4>3
    <3>5. CASE i # id
      <4>1. /\ Cardinality(Candidates(i, ev', alert')) <= Cardinality(Candidates(i, ev, alert))
            /\ Cardinality(Candidates(i, ev', alert')) \in Nat /\ Cardinality(Candidates(i, ev, alert)) \in Nat
        BY <3>2, FewerEvaluators DEF Candidates
      <4> QED BY <1>6, <3>3, <3>5, <4>1
    <3> QED BY <3>4, <3>5
  <2>5. SentCharged(ev', alert', sent')
    <3> SUFFICES ASSUME NEW r \in Rules
                 PROVE  sent'[r] + Cardinality(Mailers(r, ev')) <= Cardinality(Mine(r, alert))
      BY <2>1 DEF SentCharged
    <3>1. Mailers(r, ev') \subseteq Mailers(r, ev) \ {e}
      BY <1>1, <1>3 DEF Mailers
    <3>2. /\ sent[r] + Cardinality(Mailers(r, ev)) <= Cardinality(Mine(r, alert))
          /\ sent[r] \in Nat /\ Cardinality(Mine(r, alert)) \in Nat /\ sent \in [Rules -> Nat]
          /\ Cardinality(Mailers(r, ev)) \in Nat
      BY <1>2, TypesKnown, TableIsFinite, GroupsAreFinite DEF Mine, Mailers, RaceInv, SentCharged
    <3>3. CASE r = Rule(e)
      <4>1. e \in Mailers(r, ev)
        BY <1>1, <3>3 DEF Mailers, Rule, Place
      <4>2. /\ Cardinality(Mailers(r, ev')) + 1 <= Cardinality(Mailers(r, ev))
            /\ Cardinality(Mailers(r, ev')) \in Nat
        BY <3>1, <4>1, OneEvaluatorLess DEF Mailers
      <4> QED BY <1>6, <3>2, <3>3, <4>2
    <3>4. CASE r # Rule(e)
      <4>1. /\ Cardinality(Mailers(r, ev')) <= Cardinality(Mailers(r, ev))
            /\ Cardinality(Mailers(r, ev')) \in Nat
        BY <3>1, FewerEvaluators DEF Mailers
      <4> QED BY <1>6, <3>2, <3>4, <4>1
    <3> QED BY <3>3, <3>4
  <2> QED BY <2>3, <2>4, <2>5 DEF RaceInv
<1> QED BY <1>1, <1>5, <1>6

LEMMA RaceInit == Init => RaceInv
<1> SUFFICES ASSUME Init PROVE RaceInv
  OBVIOUS
<1>1. alert = <<>> /\ sent = [r \in Rules |-> 0] /\ \A e \in Evaluators : ev[e].pc = "idle"
  BY DEF Init, Idle
<1>2. \A r : OpenIn(r, alert) = {} /\ Mine(r, alert) = {} /\ Raisers(r, ev) = {} /\ Mailers(r, ev) = {}
  BY <1>1 DEF OpenIn, Mine, Raisers, Mailers
<1>3. Cardinality(Evaluators) \in Nat /\ Cardinality({}) = 0
  BY GroupsAreFinite, FS_EmptySet
<1>4. OpenCharged(ev, alert)
  BY <1>2, <1>3 DEF OpenCharged
<1>5. MailsCharged(ev, alert)
  BY <1>1 DEF MailsCharged
<1>6. SentCharged(ev, alert, sent)
  <2> USE DEF SentCharged
  <2> TAKE r \in Rules
  <2>1. sent[r] = 0 /\ Mailers(r, ev) = {} /\ Mine(r, alert) = {}
    BY <1>1, <1>2
  <2> QED BY <1>3, <2>1
<1> QED BY <1>4, <1>5, <1>6 DEF RaceInv

LEMMA RaceNext == TypeInv /\ RaceInv /\ [Next]_vars => RaceInv'
<1> SUFFICES ASSUME TypeInv, RaceInv, [Next]_vars PROVE RaceInv'
  OBVIOUS
<1>1. CASE UNCHANGED <<alert, sent, ev>>
  BY <1>1, TypesKnown, CalmStep
<1>2. ASSUME NEW e \in Evaluators, Run(e) \/ Interrupted(e) PROVE RaceInv'
  BY <1>2, RaceLoad, RaceEvaluate, RaceLook, RaceRaise, RaceClear, RaceFind, RaceSend, RaceRecord,
     RaceInterrupted DEF Run
<1>3. Tick \/ Seed \/ UNCHANGED vars => UNCHANGED <<alert, sent, ev>>
  BY DEF Tick, Seed, vars
<1> QED BY <1>1, <1>2, <1>3 DEF Next

LEMMA RaceInvImplies == TypeInv /\ RaceInv => RaceIsBounded
<1> SUFFICES ASSUME TypeInv, RaceInv, NEW r \in Rules
             PROVE  /\ Cardinality(Open(r)) <= Cardinality(Evaluators)
                    /\ \A i \in Mine(r, alert) : alert[i].mails <= Cardinality(Evaluators)
                    /\ sent[r] <= Cardinality(Mine(r, alert))
  BY DEF RaceIsBounded, Mine
<1>1. Cardinality(Evaluators) \in Nat /\ Cardinality(Raisers(r, ev)) \in Nat /\ Cardinality(Mailers(r, ev)) \in Nat
  BY GroupsAreFinite DEF Raisers, Mailers
<1>2. Cardinality(Open(r)) <= Cardinality(Evaluators)
  <2>1. Cardinality(OpenIn(r, alert)) + Cardinality(Raisers(r, ev)) <= Cardinality(Evaluators)
    BY DEF RaceInv, OpenCharged
  <2>2. Open(r) = OpenIn(r, alert) /\ Cardinality(OpenIn(r, alert)) \in Nat
    BY TypesKnown, TableIsFinite DEF Open, OpenIn
  <2> QED BY <1>1, <2>1, <2>2
<1>3. ASSUME NEW i \in Mine(r, alert) PROVE alert[i].mails <= Cardinality(Evaluators)
  <2>1. alert[i].mails + Cardinality(Candidates(i, ev, alert)) <= Cardinality(Evaluators)
    BY DEF RaceInv, MailsCharged, Mine
  <2>2. alert[i].mails \in Nat /\ Cardinality(Candidates(i, ev, alert)) \in Nat
    BY TypesKnown, GroupsAreFinite DEF Candidates, Mine
  <2> QED BY <1>1, <2>1, <2>2
<1>4. sent[r] <= Cardinality(Mine(r, alert))
  <2>1. sent[r] + Cardinality(Mailers(r, ev)) <= Cardinality(Mine(r, alert))
    BY DEF RaceInv, SentCharged
  <2>2. sent[r] \in Nat /\ Cardinality(Mine(r, alert)) \in Nat
    BY TypesKnown, TableIsFinite DEF Mine
  <2> QED BY <1>1, <2>1, <2>2
<1> QED BY <1>2, <1>3, <1>4

\* However many evaluators race, for however long and whoever is interrupted:
\* a rule has at most one open alert for each of them, none of them mails an
\* alert twice, and a rule mails no more often than it raised (alerts.py,
\* raise_or_clear and run_once, which no lock or constraint protects).
THEOREM RacesAreBounded == Spec => []RaceIsBounded
<1>1. Spec => [](TypeInv /\ RaceInv)
  BY TypeInit, TypeNext, RaceInit, RaceNext, PTL DEF Spec
<1> QED BY <1>1, RaceInvImplies, PTL

-----------------------------------------------------------------------------
(* The conditions on a tag.                                                 *)

\* The archive's samples at or before a time, and the last of them.
Known(t) == {u \in 1 .. now : u <= t /\ archive[u] # "none"}

LEMMA LastKnown ==
  ASSUME TypeInv, NEW t \in Int
  PROVE  \/ Known(t) = {} /\ HeldAt(t) = "unknown"
         \/ \E u \in Known(t) : (\A v \in Known(t) : v <= u) /\ HeldAt(t) = archive[u]
<1> DEFINE last == CHOOSE u \in Known(t) : \A v \in Known(t) : v <= u
<1>1. HeldAt(t) = IF Known(t) = {} THEN "unknown" ELSE archive[last]
  BY DEF HeldAt, Known
<1>2. CASE Known(t) # {}
  <2>1. Known(t) \subseteq Nat /\ IsFiniteSet(Known(t))
    <3>1. now \in Nat /\ Known(t) \subseteq 1 .. now
      BY DEF TypeInv, Known
    <3>2. IsFiniteSet(1 .. now)
      BY <3>1, FS_Interval
    <3> QED BY <3>1, <3>2, FS_Subset
  <2>2. \E u \in Known(t) : \A v \in Known(t) : u >= v
    BY <1>2, <2>1, LargestExists
  <2>3. \E u \in Known(t) : \A v \in Known(t) : v <= u
    BY <2>1, <2>2
  <2>4. last \in Known(t) /\ \A v \in Known(t) : v <= last
    BY <2>3
  <2> QED BY <1>1, <1>2, <2>4
<1> QED BY <1>1, <1>2

\* What the query fetches includes the last sample at any time of the window.
LEMMA LastIsFetched ==
  ASSUME TypeInv, NEW since \in Int, NEW t \in Int, since - 1 <= t,
         NEW u \in Known(t), \A v \in Known(t) : v <= u
  PROVE  u \in RowsFrom(since)
<1>1. now \in Int /\ u \in 1 .. now /\ archive[u] # "none"
  BY DEF TypeInv, Known
<1>2. CASE u >= since
  BY <1>1, <1>2 DEF RowsFrom, InWindow
<1>3. CASE u < since
  <2>1. ASSUME NEW v \in 1 .. now, v < since, archive[v] # "none" PROVE v <= u
    BY <2>1 DEF Known
  <2> QED BY <1>1, <1>3, <2>1 DEF RowsFrom
<1> QED BY <1>1, <1>2, <1>3

\* And what it fetches is the last sample at some time of the window.
LEMMA FetchedIsLast ==
  ASSUME TypeInv, NEW since \in Int, since <= now, NEW u \in RowsFrom(since)
  PROVE  \E t \in since - 1 .. now : HeldAt(t) = archive[u]
<1>1. now \in Int /\ u \in 1 .. now /\ archive[u] # "none"
  BY DEF TypeInv, RowsFrom, InWindow
<1>2. CASE u >= since
  <2>1. u \in Known(u) /\ \A v \in Known(u) : v <= u
    BY <1>1 DEF Known
  <2>2. HeldAt(u) = archive[u]
    <3>1. PICK w \in Known(u) : (\A v \in Known(u) : v <= w) /\ HeldAt(u) = archive[w]
      BY <1>1, <2>1, LastKnown
    <3>2. w = u
      BY <1>1, <2>1, <3>1 DEF Known
    <3> QED BY <3>1, <3>2
  <2> QED BY <1>1, <1>2, <2>2
<1>3. CASE u < since
  <2>1. u \in Known(since - 1) /\ \A v \in Known(since - 1) : v <= u
    <3>1. \A v \in 1 .. now : v < since /\ archive[v] # "none" => v <= u
      BY <1>1, <1>3 DEF RowsFrom, InWindow
    <3> QED BY <1>1, <1>3, <3>1 DEF Known
  <2>2. HeldAt(since - 1) = archive[u]
    <3>1. PICK w \in Known(since - 1) :
            (\A v \in Known(since - 1) : v <= w) /\ HeldAt(since - 1) = archive[w]
      BY <1>1, <2>1, LastKnown
    <3>2. w = u
      BY <1>1, <2>1, <3>1 DEF Known
    <3> QED BY <3>1, <3>2
  <2>3. since - 1 \in since - 1 .. now
    BY <1>1
  <2> QED BY <2>2, <2>3
<1> QED BY <1>1, <1>2, <1>3

LEMMA FetchedMeansHeld ==
  ASSUME TypeInv, NEW since \in Int, since <= now, NEW s, s # "unknown"
  PROVE  /\ RowsFrom(since) # {}
         /\ \A u \in RowsFrom(since) : archive[u] = s
         <=>
         /\ HeldAt(now) = s
         /\ \A t \in since - 1 .. now : HeldAt(t) \in {s, "unknown"}
<1>1. now \in Int
  BY DEF TypeInv
<1>2. \A u \in RowsFrom(since) : u \in Known(now)
  BY <1>1 DEF RowsFrom, InWindow, Known
<1>3. \A u \in RowsFrom(since) : archive[u] # "unknown"
  <2>1. \A u \in 1 .. now : archive[u] \in Samples \cup {"none"}
    BY DEF TypeInv
  <2>2. Samples \subseteq TagSample
    BY SampleAssumption
  <2> QED BY <2>1, <2>2, <1>2 DEF TagSample, Known
<1>4. ASSUME RowsFrom(since) # {}, \A u \in RowsFrom(since) : archive[u] = s
      PROVE  HeldAt(now) = s /\ \A t \in since - 1 .. now : HeldAt(t) \in {s, "unknown"}
  <2>1. ASSUME NEW t \in since - 1 .. now PROVE HeldAt(t) \in {s, "unknown"}
    BY <1>1, <1>4, <2>1, LastKnown, LastIsFetched
  <2>2. HeldAt(now) = s
    <3>1. PICK u \in Known(now) : (\A v \in Known(now) : v <= u) /\ HeldAt(now) = archive[u]
      BY <1>1, <1>2, <1>4, LastKnown
    <3>2. u \in RowsFrom(since)
      BY <1>1, <3>1, LastIsFetched
    <3> QED BY <1>4, <3>1, <3>2
  <2> QED BY <2>1, <2>2
<1>5. ASSUME HeldAt(now) = s, \A t \in since - 1 .. now : HeldAt(t) \in {s, "unknown"}
      PROVE  RowsFrom(since) # {} /\ \A u \in RowsFrom(since) : archive[u] = s
  <2>1. RowsFrom(since) # {}
    <3>1. PICK u \in Known(now) : \A v \in Known(now) : v <= u
      BY <1>1, <1>5, LastKnown
    <3> QED BY <1>1, <3>1, LastIsFetched
  <2>2. ASSUME NEW u \in RowsFrom(since) PROVE archive[u] = s
    <3>1. archive[u] \in {s, "unknown"}
      BY <1>5, <2>2, FetchedIsLast
    <3> QED BY <1>3, <2>2, <3>1
  <2> QED BY <2>1, <2>2
<1> QED BY <1>4, <1>5

LEMMA TypeInvMeansHeld == TypeInv => HeldThroughout
<1> DEFINE kinds == {<<"bad", "bad">>, <<"uncertain", "uncertain">>, <<">", "high">>}
<1> SUFFICES ASSUME TypeInv, NEW for \in 0 .. MaxNow, NEW c \in kinds
             PROVE  TagFires(c[1], for) <=>
                      /\ HeldAt(now) = c[2]
                      /\ \A t \in now - Longer(for) - 1 .. now : HeldAt(t) \in {c[2], "unknown"}
  BY DEF HeldThroughout
<1> DEFINE since == now - Longer(for)
<1>1. now \in Int /\ for \in Nat /\ Longer(for) \in Nat /\ Longer(for) >= 1
  BY BoundAssumption DEF TypeInv, Longer
<1>2. since \in Int /\ since <= now
  BY <1>1
<1>3. TagFires(c[1], for) <=> /\ RowsFrom(since) # {}
                              /\ \A u \in RowsFrom(since) : archive[u] = c[2]
  <2>1. CASE c = <<"bad", "bad">>
    BY <2>1 DEF TagFires
  <2>2. CASE c = <<"uncertain", "uncertain">>
    BY <2>2 DEF TagFires
  <2>3. CASE c = <<">", "high">>
    BY <2>3 DEF TagFires
  <2> QED BY <2>1, <2>2, <2>3
<1>4. c[2] # "unknown"
  OBVIOUS
<1> HIDE DEF since, kinds
<1>5. TagFires(c[1], for) <=>
        /\ HeldAt(now) = c[2]
        /\ \A t \in since - 1 .. now : HeldAt(t) \in {c[2], "unknown"}
  BY <1>2, <1>3, <1>4, FetchedMeansHeld
<1> QED BY <1>5 DEF since

\* A condition on a tag is true exactly when it has held, by a history that is
\* reported by exception, from just before the window to the present
\* (alerts.py, evaluate on the rows of its window query).
THEOREM FiresWhenHeld == Spec => []HeldThroughout
BY TypeHolds, TypeInvMeansHeld, PTL
=============================================================================
