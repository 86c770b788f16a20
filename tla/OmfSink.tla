------------------------------- MODULE OmfSink -------------------------------
(***************************************************************************)
(* The collector with OMF as its output: collector/omf_sink.py and omf.py     *)
(* under the forwarder of pipeline.py, and archive/omf_receiver.py, which     *)
(* keeps what was registered in memory and writes to the archive.  A post     *)
(* blocks the event loop, so it is one step; a query of the database is not.  *)
(***************************************************************************)
EXTENDS Integers, SequencesExt, FiniteSetsExt

CONSTANTS
  Settings,      \* what a behaviour may contain (Setting)
  Tags,
  BatchSize,     \* the most samples that a batch or a round of drain takes
  MaxRows,       \* the most rows that the buffer holds
  None           \* no value, no server timestamp

\* How many samples are made, of which kinds; how often the database and the
\* receiver stop, a request or its answer is lost, and the collector is stopped or
\* killed; the tags that the archive does not know.
Setting == [size : Nat, tags : SUBSET Tags, kinds : SUBSET {"Good", "Bad", "health"},
            db : Nat, receiver : Nat, lose : Nat, stops : Nat, unknown : SUBSET Tags]

ASSUME SettingAssumption == Settings \subseteq Setting
ASSUME BatchAssumption == BatchSize \in Nat \ {0}
ASSUME RowsAssumption == MaxRows \in Nat \ {0}

VARIABLES
  setting,
  made,          \* the samples acquired
  lost,          \* those a forwarder had in hand when an exception ended it
  dropped,       \* those in hand at a stop, or in memory at a kill
  records,       \* those discarded by a full buffer whose loss record waits there
  ledger,        \* those whose loss is in collector_loss
  queue,         \* those not yet taken by the forwarder
  buffer,        \* the durable buffer, in the order of source timestamps
  fwd,           \* where the forwarder is, its batch, whether the link is up
  sink,          \* the database connection, and whether it has registered
  receiver,      \* up, and its types and containers
  db,            \* up
  stored         \* rows of sample

losses == <<lost, dropped, records, ledger>>
vars == <<setting, made, losses, queue, buffer, fwd, sink, receiver, db, stored>>

Budget(what) == setting[what] > 0
Spent(what) == [setting EXCEPT ![what] = @ - 1]
Known == Tags \ setting.unknown

-----------------------------------------------------------------------------
(* Messages.                                                                 *)

\* A Bad sample has no value, one of the collector's own no server timestamp.
Sample(ts, tag, kind) ==
  [tag |-> tag, ts |-> ts, server |-> IF kind = "health" THEN None ELSE ts + 100,
   value |-> IF kind = "Bad" THEN None ELSE ts, quality |-> kind # "Bad"]

\* Mutant of Body: an absent server timestamp is filled in.
Body_Fills(s) == [SourceTime |-> s.ts, ServerTime |-> IF s.server = None THEN s.ts ELSE s.server,
                  Value |-> s.value, Quality |-> s.quality]

\* data_message: every property, null or not.
Body(s) == [SourceTime |-> s.ts, ServerTime |-> s.server, Value |-> s.value, Quality |-> s.quality]

Complete(v) == {"SourceTime", "ServerTime", "Value", "Quality"} \subseteq DOMAIN v

\* Receiver._row, and INSERT ... ON CONFLICT DO NOTHING.
Row(tag, v) == [tag |-> tag, ts |-> v.SourceTime, server |-> v.ServerTime, value |-> v.Value, quality |-> v.Quality]
Insert(rows) == stored \cup {r \in rows : \A old \in stored : old.tag # r.tag \/ old.ts # r.ts}

\* One transaction: a container that is not known, or that no tag has, refuses
\* the whole message.
Accepted(batch) ==
  /\ receiver.up /\ db
  /\ \A s \in Range(batch) : s.tag \in receiver.containers /\ s.tag \in Known /\ Complete(Body(s))

\* What a post of the batch may come to: what is stored, and what the client is told.
Posts(batch) ==
  LET rows == Insert({Row(s.tag, Body(s)) : s \in Range(batch)})
  IN IF Accepted(batch)
     THEN {[rows |-> rows, ok |-> TRUE, cut |-> FALSE]}
          \cup {[rows |-> r, ok |-> FALSE, cut |-> TRUE] : r \in IF Budget("lose") THEN {rows, stored} ELSE {}}
     ELSE {[rows |-> stored, ok |-> FALSE, cut |-> FALSE]}

Settle(p) == stored' = p.rows /\ setting' = IF p.cut THEN Spent("lose") ELSE setting

-----------------------------------------------------------------------------
(* The forwarder: collecting a batch, connecting in order to start, recover or  *)
(* write, registering, writing, draining, sending loss records; ended by an     *)
(* exception or a stop, stopped.                                               *)

At(place) == [fwd EXCEPT !.at = place]
Fresh == [conn |-> "none", registered |-> FALSE]

\* Where the forwarder goes when the link fails, and after a drain: at a start,
\* on with the start.
OnwardTo(place) == IF fwd.why = "start" THEN "tasks" ELSE place
Down == [at |-> OnwardTo("wait"), why |-> IF fwd.why = "start" THEN "start" ELSE "recover",
         link |-> FALSE, batch |-> <<>>]

\* _buffer: later samples are put behind earlier ones; beyond MaxRows the oldest
\* are discarded, and their loss is recorded in the same transaction.
Excess(batch) == LET n == Len(buffer) + Len(batch) IN n - Min({n, MaxRows})
Kept(batch) == SubSeq(buffer \o batch, Excess(batch) + 1, Len(buffer) + Len(batch))
Discarded(batch) == SubSeq(buffer \o batch, 1, Excess(batch))
Keep(batch) == buffer' = Kept(batch) /\ records' = records \cup Range(Discarded(batch))

\* _collect_batch, one sample at a time: each is an await.
Collect ==
  /\ fwd.at = "wait" /\ queue # <<>> /\ Len(fwd.batch) < BatchSize
  /\ fwd' = [fwd EXCEPT !.batch = Append(@, Head(queue))] /\ queue' = Tail(queue)
  /\ UNCHANGED <<setting, made, losses, buffer, sink, receiver, db, stored>>

\* The batch is complete.  Bound: samples after the first setting.size are not
\* recorded; one of them may still be what makes a forwarder whose link is down
\* try again.
Take ==
  /\ fwd.at = "wait"
  /\ \/ fwd.batch # <<>> /\ fwd.link /\ fwd' = At("write") /\ UNCHANGED <<buffer, records>>
     \/ /\ ~ fwd.link
        /\ fwd.batch # <<>> \/ (queue = <<>> /\ Cardinality(made) = setting.size)
        /\ fwd' = [fwd EXCEPT !.at = "connect", !.batch = <<>>] /\ Keep(fwd.batch)
  /\ UNCHANGED <<setting, made, lost, dropped, ledger, queue, sink, receiver, db, stored>>

\* SinkUnavailable from connect: the start waits and tries again, a recovery is
\* left to the next batch, a write fails.
Unavailable ==
  CASE fwd.why = "start"   -> fwd' = At("connect") /\ UNCHANGED <<buffer, records>>
    [] fwd.why = "recover" -> fwd' = At("wait") /\ UNCHANGED <<buffer, records>>
    [] fwd.why = "write"   -> fwd' = Down /\ Keep(fwd.batch)

\* psycopg.Error: only the start expects it.  The batch was a local variable of
\* the forwarder.
Raises ==
  /\ fwd' = IF fwd.why = "start" THEN At("connect") ELSE [fwd EXCEPT !.at = "ended", !.batch = <<>>]
  /\ lost' = lost \cup Range(fwd.batch)

\* _db, which does not notice that an open connection is broken.
OpenDb ==
  /\ fwd.at = "connect" /\ sink.conn = "none"
  /\ \/ db /\ sink' = [sink EXCEPT !.conn = "open"] /\ UNCHANGED <<fwd, buffer, records>>
     \/ ~ db /\ Unavailable /\ UNCHANGED sink
  /\ UNCHANGED <<setting, made, lost, dropped, ledger, queue, receiver, db, stored>>

\* output_tags; the error of a broken connection closes it.
AskTags ==
  /\ fwd.at = "connect" /\ sink.conn # "none"
  /\ \/ sink.conn = "open" /\ fwd' = At("register") /\ UNCHANGED <<sink, lost>>
     \/ sink.conn = "broken" /\ sink' = [sink EXCEPT !.conn = "none"] /\ Raises
  /\ UNCHANGED <<setting, made, dropped, records, ledger, queue, buffer, receiver, db, stored>>

\* Mutant of ContainerMessage: containers are created once.
ContainerMessage_Once == IF sink.registered THEN {} ELSE Known
ContainerMessage == Known

Types(r) == [r EXCEPT !.types = TRUE]
Containers(r) == [r EXCEPT !.containers = @ \cup ContainerMessage]

\* Mutant of Recovered: live writing resumes at once.
Recovered_AtOnce == [fwd EXCEPT !.at = "wait", !.link = TRUE]
\* drain, which with an empty buffer only sends loss records.
Recovered == [fwd EXCEPT !.at = IF buffer = <<>> THEN "losses" ELSE "drain", !.link = TRUE]

\* The rest of connect: either message, or its answer, may be lost.
Register ==
  /\ fwd.at = "register"
  /\ \/ /\ receiver.up
        /\ receiver' = Containers(Types(receiver)) /\ sink' = [sink EXCEPT !.registered = TRUE]
        /\ fwd' = CASE fwd.why = "start"   -> At("tags")
                   [] fwd.why = "recover" -> Recovered
                   [] fwd.why = "write"   -> At("write")
        /\ UNCHANGED <<setting, buffer, records>>
     \/ /\ ~ receiver.up /\ Unavailable /\ UNCHANGED <<setting, receiver, sink>>
     \/ /\ receiver.up /\ Budget("lose") /\ setting' = Spent("lose")
        /\ receiver' \in {receiver, Types(receiver), Containers(Types(receiver))}
        /\ Unavailable /\ UNCHANGED sink
  /\ UNCHANGED <<made, lost, dropped, ledger, queue, db, stored>>

\* The start reads its tags and registers its run, and drains what a previous
\* run has left, if it has left anything.
ReadTags ==
  /\ fwd.at = "tags"
  /\ \/ sink.conn = "open" /\ UNCHANGED sink
        /\ fwd' = [fwd EXCEPT !.at = IF buffer = <<>> THEN "tasks" ELSE "drain", !.link = TRUE]
     \/ sink.conn # "open" /\ fwd' = At("connect") /\ sink' = [sink EXCEPT !.conn = "none"]
  /\ UNCHANGED <<setting, made, losses, queue, buffer, receiver, db, stored>>

\* The rest of the start: _health_tag_ids opens a connection of its own, and
\* nothing expects it to fail.
StartTasks ==
  /\ fwd.at = "tasks"
  /\ \/ db /\ fwd' = [fwd EXCEPT !.at = "wait", !.why = "recover"]
     \/ ~ db /\ fwd' = [fwd EXCEPT !.at = "stopped", !.link = FALSE]
  /\ UNCHANGED <<setting, made, losses, queue, buffer, sink, receiver, db, stored>>

\* write connects when it is not registered.
Write ==
  /\ fwd.at = "write"
  /\ \/ /\ ~ sink.registered /\ fwd' = [fwd EXCEPT !.at = "connect", !.why = "write"]
        /\ UNCHANGED <<setting, buffer, records, stored>>
     \/ /\ sink.registered
        /\ \E p \in Posts(fwd.batch) :
             /\ Settle(p)
             /\ \/ p.ok /\ fwd' = [fwd EXCEPT !.at = "losses", !.why = "recover", !.batch = <<>>]
                   /\ UNCHANGED <<buffer, records>>
                \/ ~ p.ok /\ fwd' = Down /\ Keep(fwd.batch)
  /\ UNCHANGED <<made, lost, dropped, ledger, queue, sink, receiver, db>>

\* One round of drain, until it has its answer: what is queued is put into the
\* buffer, and the oldest rows are posted.
Round(rows) == SubSeq(rows, 1, Min({BatchSize, Len(rows)}))
Drain ==
  /\ fwd.at = "drain" /\ queue' = <<>> /\ Keep(queue)
  /\ \/ Kept(queue) = <<>> /\ fwd' = At("losses") /\ UNCHANGED <<setting, stored>>
     \/ /\ Kept(queue) # <<>>
        /\ \E p \in Posts(Round(Kept(queue))) :
             /\ Settle(p)
             /\ fwd' = IF p.ok THEN At("forget") ELSE Down
  /\ UNCHANGED <<made, lost, dropped, ledger, sink, receiver, db>>

\* forget.
Forget ==
  /\ fwd.at = "forget" /\ fwd' = At("drain")
  /\ buffer' = SubSeq(buffer, Len(Round(buffer)) + 1, Len(buffer))
  /\ UNCHANGED <<setting, made, losses, queue, sink, receiver, db, stored>>

\* What has been committed of loss records whose insertion was cut off.
CutOff == {ledger, IF fwd.at = "losses" /\ (db \/ sink.conn = "broken") THEN ledger \cup records ELSE ledger}

\* _forward_losses.  A database error closes the sink, which is then no longer
\* registered.
SendLosses ==
  /\ fwd.at = "losses" /\ fwd' = At(OnwardTo("wait"))
  /\ \/ records = {} /\ UNCHANGED <<records, ledger, sink>>
     \/ /\ records # {} /\ sink.conn # "broken" /\ db
        /\ ledger' = ledger \cup records /\ records' = {} /\ sink' = [sink EXCEPT !.conn = "open"]
     \/ /\ records # {} /\ sink.conn = "none" /\ ~ db /\ UNCHANGED <<records, ledger, sink>>
     \/ /\ records # {} /\ sink.conn = "broken" /\ sink' = Fresh
        /\ ledger' \in CutOff /\ UNCHANGED records
  /\ UNCHANGED <<setting, made, lost, dropped, queue, buffer, receiver, db, stored>>

\* The collector stops when the forwarder has ended, and keeps what is queued.
Shutdown ==
  /\ fwd.at = "ended" /\ fwd' = [At("stopped") EXCEPT !.link = FALSE]
  /\ Keep(queue) /\ queue' = <<>>
  /\ UNCHANGED <<setting, made, lost, dropped, ledger, sink, receiver, db, stored>>

Start ==
  /\ fwd.at = "stopped"
  /\ fwd' = [fwd EXCEPT !.at = "connect", !.why = "start"] /\ sink' = Fresh
  /\ UNCHANGED <<setting, made, losses, queue, buffer, receiver, db, stored>>

Forwarder ==
  \/ Collect \/ Take \/ OpenDb \/ AskTags \/ Register \/ ReadTags \/ StartTasks \/ Write
  \/ Drain \/ Forget \/ SendLosses \/ Shutdown \/ Start

-----------------------------------------------------------------------------
\* Only at these places does the event loop run anything but the forwarder: a post
\* blocks it, and so does the buffer.
Awaits == fwd.why # "start" /\ fwd.at \in {"wait", "connect", "losses"}

\* SIGTERM or SIGINT: the forwarder's task is cancelled where it waits.
Stop ==
  /\ Awaits /\ Budget("stops") /\ setting' = Spent("stops")
  /\ fwd' = [fwd EXCEPT !.at = "ended", !.batch = <<>>] /\ dropped' = dropped \cup Range(fwd.batch)
  /\ ledger' \in CutOff
  /\ UNCHANGED <<made, lost, records, queue, buffer, sink, receiver, db, stored>>

\* SIGKILL, which leaves the buffer with its loss records.
Kill ==
  /\ fwd.at # "stopped" /\ Budget("stops") /\ setting' = Spent("stops")
  /\ fwd' = [fwd EXCEPT !.at = "stopped", !.link = FALSE, !.batch = <<>>] /\ queue' = <<>>
  /\ dropped' = dropped \cup Range(fwd.batch) \cup Range(queue)
  /\ ledger' \in CutOff
  /\ UNCHANGED <<made, lost, records, buffer, sink, receiver, db, stored>>

\* on_sample, once the session has been started.
Acquire ==
  /\ Awaits \/ fwd.at = "ended"
  /\ Cardinality(made) < setting.size
  /\ \E tag \in setting.tags, kind \in setting.kinds :
       LET s == Sample(Cardinality(made) + 1, tag, kind)
       IN made' = made \cup {s} /\ queue' = Append(queue, s)
  /\ UNCHANGED <<setting, losses, buffer, fwd, sink, receiver, db, stored>>

ReceiverStops ==
  /\ receiver.up /\ Budget("receiver") /\ setting' = Spent("receiver")
  /\ receiver' = [up |-> FALSE, types |-> FALSE, containers |-> {}]
  /\ UNCHANGED <<made, losses, queue, buffer, fwd, sink, db, stored>>

ReceiverStarts ==
  /\ ~ receiver.up /\ receiver' = [receiver EXCEPT !.up = TRUE]
  /\ UNCHANGED <<setting, made, losses, queue, buffer, fwd, sink, db, stored>>

DbStops ==
  /\ db /\ Budget("db") /\ setting' = Spent("db") /\ db' = FALSE
  /\ sink' = [sink EXCEPT !.conn = IF @ = "open" THEN "broken" ELSE @]
  /\ UNCHANGED <<made, losses, queue, buffer, fwd, receiver, stored>>

DbStarts ==
  /\ ~ db /\ db' = TRUE
  /\ UNCHANGED <<setting, made, losses, queue, buffer, fwd, sink, receiver, stored>>

Repair == ReceiverStarts \/ DbStarts

Init ==
  /\ setting \in Settings /\ made = {} /\ lost = {} /\ dropped = {} /\ records = {} /\ ledger = {}
  /\ queue = <<>> /\ buffer = <<>> /\ stored = {}
  /\ fwd = [at |-> "connect", why |-> "start", link |-> FALSE, batch |-> <<>>]
  /\ sink = Fresh /\ db = TRUE
  /\ receiver = [up |-> TRUE, types |-> FALSE, containers |-> {}]

Next == Forwarder \/ Acquire \/ Stop \/ Kill \/ ReceiverStops \/ DbStops \/ Repair
Spec == Init /\ [][Next]_vars

\* The forwarder's task runs, what stopped is started again, and so is a
\* collector that has ended.  Samples keep coming, the collector's own at least.
FairSpec == Spec /\ WF_vars(Forwarder) /\ WF_vars(Acquire) /\ WF_vars(ReceiverStarts) /\ WF_vars(DbStarts)

-----------------------------------------------------------------------------
Ascending(s) == \A i, j \in DOMAIN s : i < j => s[i].ts < s[j].ts

TypeOK ==
  /\ fwd.at \in {"wait", "connect", "register", "tags", "tasks", "write", "drain", "forget", "losses", "ended", "stopped"}
  /\ fwd.why \in {"start", "recover", "write"}
  /\ Ascending(buffer) /\ Ascending(queue) /\ Len(buffer) <= MaxRows
  /\ receiver.containers # {} => receiver.types
  /\ fwd.at = "write" => fwd.batch # <<>> /\ fwd.link

(* omf_receiver.py:9: what is stored is what was acquired: both timestamps, the value or its absence, the quality.     *)
StoredAsMade == stored \subseteq made

OnRecord == records \cup ledger
Gone == lost \cup dropped \cup OnRecord

(* Between acquisition and the archive a sample is lost in four ways only: an exception ended the forwarder that had   *)
(* it in hand, a stop found it there, a kill found it in memory, or a full buffer discarded it, and then its loss is   *)
(* on record, in the buffer or in the archive (pipeline.py:171).  Any other is stored, buffered, queued or in hand.    *)
(* And pipeline.py:225 "live forwarding cannot resume while older samples are still waiting": on this sink as on the   *)
(* other, nothing is stored, or discarded, before an older sample is.  (And every variable keeps its type.)            *)
InCustody ==
  /\ TypeOK
  /\ made \subseteq stored \cup Range(buffer) \cup Range(queue) \cup Range(fwd.batch) \cup Gone
  /\ \A s \in made, r \in stored \cup OnRecord : s.ts < r.ts => s \in stored \cup Gone

(* A receiver that has forgotten its containers is told them again, and every sample arrives, whatever stopped, but    *)
(* for those that InCustody lets be lost: with a buffer that does not fill and no stop, all that no exception took.    *)
Acquired(n) == Cardinality(made) >= n
Settled(n) == Cardinality(stored \cup Gone) >= n
EverySampleStored == \A n \in 1 .. 4 : Acquired(n) ~> Settled(n)

-----------------------------------------------------------------------------
(* What the documentation says and the code does not do.  A run refutes the second; no run checks the first: the      *)
(* README says on which instance TLC refutes it.                                                                      *)

(* omf_sink.py:83 "A rejected data message does NOT mean the types and containers are gone": the sink registers when   *)
(* it has not, or when the receiver has forgotten.                                                                 *)
RegistersForCause ==
  [][fwd.at = "register" /\ fwd' # fwd /\ receiver.up => ~ sink.registered \/ ~ (Known \subseteq receiver.containers)]_vars

(* README.md:113 "An archive outage survived with zero loss and ordered recovery", and omf_sink.py:4 "Everything        *)
(* upstream ... is unchanged": no outage costs a sample that a buffer still has room for, none being in hand of a      *)
(* forwarder that an exception ended.                                                                               *)
OutageLosesNothing == lost = {}
=============================================================================
