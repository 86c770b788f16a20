------------------------------- MODULE Ingress -------------------------------
(***************************************************************************)
(* collector/session.py: one subscription per group of tags, the watch over  *)
(* the server's message numbers, and what becomes of each DataValue; the      *)
(* supervisor of main.py that connects and disconnects; and the event stream  *)
(* that gaps, refusals and samples are emitted on.  The source numbers, loses *)
(* and repeats messages.  A subscription's data messages carry one DataValue. *)
(***************************************************************************)
EXTENDS EventStream

CONSTANTS
  Settings,      \* what a behaviour may contain (Setting)
  Tags,          \* configured tags, with their group and whether they have a source path
  GroupOf, HasPath,
  Groups         \* sequence of the groups

\* How many data messages a subscription sends, messages are lost and repeated,
\* connections are lost and the source restarts; the DataValues that it sends,
\* each the set of what is wrong with it; the sets of tags it may have; whether
\* browsers connect; the events that a sample makes; and how often
\* connect fails with the link up.
Setting == [data : Nat, lose : Nat, repeat : Nat, cut : Nat, restart : Nat,
            values : SUBSET SUBSET {"noSource", "noStatus", "text", "noServer"},
            nodes : SUBSET SUBSET Tags, browsers : BOOLEAN, events : SUBSET Nat, halfway : Nat]

ASSUME SettingAssumption ==
  \A s \in Settings : s \in Setting /\ s.nodes # {}
ASSUME TagAssumption == IsFiniteSet(Tags) /\ \A t \in Tags : \E i \in DOMAIN Groups : Groups[i] = GroupOf[t]

VARIABLES
  setting,       \* what may still happen
  server,        \* last id assigned, its tags, its subscriptions: tags and next number
  wire,          \* messages on the way
  link,          \* the connection works
  session,       \* phase, the subscriptions it holds and the one that it is making,
                 \* the groups still to subscribe
  last,          \* PublishSequence._last
  counts,        \* IngressCounts, and samples
  heard          \* for the properties: per subscription the numbers known of, and
                 \* how many data messages that makes for those that have ended;
                 \* the ids that disconnect did not hold, and whether the source
                 \* has given one of them again

vars == <<setting, server, wire, link, session, last, counts, heard, stream, clients>>

Empty == [i \in {} |-> 0]
Put(f, i, x) == [j \in DOMAIN f \cup {i} |-> IF j = i THEN x ELSE f[j]]
Without(f, i) == Restrict(f, DOMAIN f \ {i})
Budget(what) == setting[what] > 0
Spend(what) == setting' = [setting EXCEPT ![what] = @ - 1]

-----------------------------------------------------------------------------
(* PublishSequence.                                                          *)

\* Mutant of Observe: a keep-alive says nothing.
Observe_DataOnly(id, number, keep) ==
  LET new == id \notin DOMAIN last IN
  CASE keep             -> [last |-> IF new THEN Put(last, id, number - 1) ELSE last, missed |-> 0]
    [] ~ keep /\ new    -> [last |-> Put(last, id, number), missed |-> 0]
    [] ~ keep /\ ~ new  -> IF number <= last[id] THEN [last |-> last, missed |-> 0]
                           ELSE [last |-> Put(last, id, number), missed |-> number - last[id] - 1]

\* A keep-alive carries the number of the next data message.
Observe(id, number, keep) ==
  LET seen == IF keep THEN number - 1 ELSE number
  IN IF id \notin DOMAIN last THEN [last |-> Put(last, id, seen), missed |-> 0]
     ELSE IF seen <= last[id] THEN [last |-> last, missed |-> 0]
     ELSE [last |-> Put(last, id, seen),
           missed |-> IF keep THEN seen - last[id] ELSE seen - last[id] - 1]

\* Mutant of Forget: nothing is forgotten.
Forget_Nothing(id) == last
Forget(id) == Without(last, id)

-----------------------------------------------------------------------------
(* _SubscriptionHandler.handle.                                               *)

Refusals == <<"noSource", "noStatus", "text">>
NoCounts == [noSource |-> 0, noStatus |-> 0, text |-> 0, noServer |-> 0,
             gaps |-> 0, missed |-> 0, unresolved |-> 0, samples |-> 0]

\* What is counted for a DataValue: the first reason to refuse it, or a sample.
Outcome(dv) ==
  LET reasons == {i \in DOMAIN Refusals : Refusals[i] \in dv}
  IN IF reasons # {} THEN {Refusals[Min(reasons)]} ELSE {"samples"} \cup (dv \cap {"noServer"})

Counted(outcome, missed) ==
  [what \in DOMAIN counts |-> counts[what] +
     (IF what = "missed" THEN missed
      ELSE IF what \in outcome \/ (what = "gaps" /\ missed > 0) THEN 1 ELSE 0)]

\* Events: one for a gap, one for a refusal, the pipeline's for a sample.
Events(outcome, missed) ==
  {(IF missed > 0 THEN 1 ELSE 0) + n :
     n \in IF "samples" \in outcome THEN setting.events ELSE {Cardinality(outcome)}}

\* For the properties: what a subscription's messages have told of its numbers.
Told(h, m) ==
  LET seen == IF m.keep THEN m.number - 1 ELSE m.number
      old  == IF m.id \in DOMAIN h.of THEN h.of[m.id]
              ELSE [from |-> IF m.keep THEN seen + 1 ELSE seen, to |-> seen, got |-> {}]
      new  == [old EXCEPT !.to = Max({@, seen}), !.got = @ \cup IF m.keep THEN {} ELSE {seen}]
  IN IF m.again THEN [h EXCEPT !.repeats = @ + 1] ELSE [h EXCEPT !.of = Put(@, m.id, new)]

Known(h, id) == IF id \in DOMAIN h.of THEN h.of[id].to - h.of[id].from + 1 ELSE 0
Ended(h, id) == [h EXCEPT !.of = Without(@, id), !.past = @ + Known(h, id)]
Due(h) == h.past + SumFunction([id \in DOMAIN h.of |-> Known(h, id)])

Handle(m) ==
  LET o       == Observe(m.id, m.number, m.keep)
      outcome == IF m.keep THEN {} ELSE Outcome(m.value)
  IN /\ last' = o.last
     /\ counts' = Counted(outcome, o.missed)
     /\ heard' = Told(heard, m)
     /\ \E n \in Events(outcome, o.missed) : Emit(n)

\* The library calls back for the subscriptions that it has.
Deliver ==
  /\ link /\ wire # <<>>
  /\ IF Head(wire).id \in DOMAIN server.subs THEN Handle(Head(wire))
     ELSE UNCHANGED <<last, counts, heard, streamVars>>
  /\ wire' = Tail(wire)
  /\ UNCHANGED <<setting, server, link, session>>

-----------------------------------------------------------------------------
(* The supervisor: connect, watch, disconnect.                                *)

\* Tags with a source path that the source has.
Acquired == {t \in server.nodes : HasPath[t]}

Unresolved == Cardinality(Tags \ Acquired)

Connect ==
  /\ session.phase = "off" /\ link' = TRUE
  /\ session' = [phase |-> "connecting", subs |-> <<>>, opening |-> {}, forgot |-> FALSE,
                 groups |-> SelectSeq(Groups, LAMBDA g : \E t \in Acquired : GroupOf[t] = g)]
  /\ counts' = [counts EXCEPT !.unresolved = Unresolved]
  /\ UNCHANGED <<setting, server, wire, last, heard, streamVars>>

\* create_subscription for the next group; its numbers are watched from here on.
Subscribe ==
  /\ session.phase = "connecting" /\ link /\ session.groups # <<>> /\ session.opening = {}
  /\ LET id == server.ids + 1
     IN /\ server' = [server EXCEPT !.ids = id, !.subs = Put(@, id, [tags |-> {}, next |-> 1])]
        /\ session' = [session EXCEPT !.opening = {id}]
        /\ heard' = [Ended(heard, id) EXCEPT !.reused = @ \/ id \in heard.stray \cap DOMAIN last]
  /\ UNCHANGED <<setting, wire, link, last, counts, streamVars>>

\* subscribe_data_change for a tag of the group.  The session holds the
\* subscription, and disconnect will forget it, when the last tag is monitored.
Monitor ==
  /\ session.phase = "connecting" /\ link
  /\ \E id \in session.opening :
       LET todo == {t \in Acquired : GroupOf[t] = Head(session.groups)} \ server.subs[id].tags
       IN \E t \in todo :
            /\ server' = [server EXCEPT !.subs[id].tags = @ \cup {t}]
            /\ session' = IF todo # {t} THEN session
                          ELSE [session EXCEPT !.subs = Append(@, id), !.opening = {}, !.groups = Tail(@)]
  /\ UNCHANGED <<setting, wire, link, last, counts, heard, streamVars>>

Connected ==
  /\ session.phase = "connecting" /\ link /\ session.groups = <<>>
  /\ session' = [session EXCEPT !.phase = "on"]
  /\ UNCHANGED <<setting, server, wire, link, last, counts, heard, streamVars>>

\* connect raises, or check_connection does.
GiveUp ==
  /\ \/ session.phase \in {"connecting", "on"} /\ ~ link /\ UNCHANGED setting
     \/ session.phase = "connecting" /\ link /\ Budget("halfway") /\ Spend("halfway")
  /\ session' = [session EXCEPT !.phase = "closing"]
  /\ UNCHANGED <<server, wire, link, last, counts, heard, streamVars>>

\* disconnect forgets a subscription, and then waits for delete().
ForgetFirst ==
  /\ session.phase = "closing" /\ session.subs # <<>> /\ ~ session.forgot
  /\ last' = Forget(Head(session.subs))
  /\ heard' = Ended(heard, Head(session.subs))
  /\ session' = [session EXCEPT !.forgot = TRUE]
  /\ UNCHANGED <<setting, server, wire, link, counts, streamVars>>

DeleteFirst ==
  /\ session.phase = "closing" /\ session.forgot
  /\ server' = [server EXCEPT !.subs = Without(@, Head(session.subs))]
  /\ session' = [session EXCEPT !.forgot = FALSE, !.subs = Tail(@)]
  /\ UNCHANGED <<setting, wire, link, last, counts, heard, streamVars>>

\* The client closes its session, and the source drops what is left of it.
Disconnected ==
  /\ session.phase = "closing" /\ session.subs = <<>>
  /\ session' = [session EXCEPT !.phase = "off", !.opening = {}] /\ link' = FALSE /\ wire' = <<>>
  /\ server' = [server EXCEPT !.subs = Empty]
  /\ heard' = [heard EXCEPT !.stray = @ \cup session.opening]
  /\ UNCHANGED <<setting, last, counts, streamVars>>

Supervise == Connect \/ Subscribe \/ Monitor \/ Connected \/ GiveUp \/ ForgetFirst \/ DeleteFirst \/ Disconnected

-----------------------------------------------------------------------------
(* The source and the network.                                               *)

Message(id, keep, value) ==
  [id |-> id, number |-> server.subs[id].next, keep |-> keep, value |-> value, again |-> FALSE]

Publish(id) ==
  /\ link /\ server.subs[id].tags # {} /\ server.subs[id].next <= setting.data
  /\ \E value \in setting.values : wire' = Append(wire, Message(id, FALSE, value))
  /\ server' = [server EXCEPT !.subs[id].next = @ + 1]
  /\ UNCHANGED <<setting, link, session, last, counts, heard, streamVars>>

KeepAlive(id) ==
  /\ link /\ \A i \in DOMAIN wire : ~ (wire[i].keep /\ wire[i].id = id)
  /\ wire' = Append(wire, Message(id, TRUE, {}))
  /\ UNCHANGED <<setting, server, link, session, last, counts, heard, streamVars>>

Republish(id) ==
  /\ link /\ Budget("repeat") /\ Spend("repeat") /\ id \in DOMAIN heard.of
  /\ \E n \in heard.of[id].got :
       wire' = Append(wire, [Message(id, FALSE, {}) EXCEPT !.number = n, !.again = TRUE])
  /\ UNCHANGED <<server, link, session, last, counts, heard, streamVars>>

Lose ==
  /\ Budget("lose") /\ Spend("lose")
  /\ \E i \in DOMAIN wire : wire' = RemoveAt(wire, i)
  /\ UNCHANGED <<server, link, session, last, counts, heard, streamVars>>

Cut ==
  /\ link /\ Budget("cut") /\ Spend("cut")
  /\ link' = FALSE /\ wire' = <<>> /\ server' = [server EXCEPT !.subs = Empty]
  /\ UNCHANGED <<session, last, counts, heard, streamVars>>

Restart ==
  /\ Budget("restart") /\ Spend("restart")
  /\ \E nodes \in setting.nodes : server' = [ids |-> 0, nodes |-> nodes, subs |-> Empty]
  /\ link' = FALSE /\ wire' = <<>>
  /\ UNCHANGED <<session, last, counts, heard, streamVars>>

Source ==
  \/ \E id \in DOMAIN server.subs : Publish(id) \/ KeepAlive(id) \/ Republish(id)
  \/ Lose \/ Cut \/ Restart

Browse == setting.browsers /\ Serve /\ UNCHANGED <<setting, server, wire, link, session, last, counts, heard>>

Init ==
  /\ setting \in Settings
  /\ \E nodes \in setting.nodes : server = [ids |-> 0, nodes |-> nodes, subs |-> Empty]
  /\ wire = <<>> /\ link = FALSE /\ last = Empty /\ counts = NoCounts
  /\ session = [phase |-> "off", subs |-> <<>>, opening |-> {}, groups |-> <<>>, forgot |-> FALSE]
  /\ heard = [of |-> Empty, past |-> 0, repeats |-> 0, stray |-> {}, reused |-> FALSE]
  /\ StreamInit

Next == Deliver \/ Supervise \/ Source \/ Browse
Spec == Init /\ [][Next]_vars

\* The session's tasks run; a source with nothing to send sends keep-alives.
Ids == 1 .. 4
FairSpec == Spec /\ WF_vars(Deliver) /\ WF_vars(Supervise)
                 /\ \A id \in Ids : WF_vars(id \in DOMAIN server.subs /\ KeepAlive(id))

-----------------------------------------------------------------------------
TypeOK ==
  /\ \A i \in DOMAIN wire : wire[i].number \in 1 .. setting.data + 1
  /\ \A what \in DOMAIN counts : counts[what] \in Nat
  /\ session.phase \in {"off", "connecting", "on", "closing"}
  /\ link => DOMAIN server.subs = Range(session.subs) \cup session.opening
  /\ counts.gaps <= counts.missed

\* Not so by itself: see below.
AllAccounted ==
  counts.samples + counts.noSource + counts.noStatus + counts.text + counts.missed = Due(heard) + heard.repeats

(* session.py:13: of the data messages of a subscription, from the first that was heard of to the last, each has       *)
(* become a sample, a counted refusal, or a message counted as missed; once, over reconnects and re-used ids, and a     *)
(* repeated one is not a gap.  Until the source, started again, gives the id of a subscription that was cut off        *)
(* between its watch (session.py:325) and its place in _subscriptions (:332): disconnect does not forget that one,     *)
(* and the number it leaves behind hides gaps of the new one, or counts what came before the first message of it       *)
(* that was heard.  (And every variable keeps its type.)                                                             *)
EveryMessageAccounted == heard.reused \/ (TypeOK /\ AllAccounted)

(* session.py:16: a hole in the numbers above the one remembered becomes known, by the next message or a keep-alive,    *)
(* or the connection ends.                                                                                            *)
Unnoticed(id, n) ==
  /\ last[id] < n /\ n < server.subs[id].next
  /\ \A i \in DOMAIN wire : wire[i].id = id /\ ~ wire[i].keep => wire[i].number # n
SomeUnnoticed == \E id \in DOMAIN last \cap DOMAIN server.subs : \E n \in 1 .. setting.data : Unnoticed(id, n)
GapsSurface == SomeUnnoticed ~> ~ SomeUnnoticed
=============================================================================
