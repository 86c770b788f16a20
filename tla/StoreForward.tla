---------------------------- MODULE StoreForward ----------------------------
(***************************************************************************)
(* The collector's store-and-forward path: samples arrive from the source  *)
(* session, are numbered and queued (collector/pipeline.py), forwarded to  *)
(* the archive (collector/sink.py), kept in a SQLite buffer while the      *)
(* archive is out of reach (collector/buffer.py), and replayed from it.    *)
(* The process can be started, stopped and killed (collector/main.py), and *)
(* the archive can go away at any moment, also between committing a        *)
(* transaction and answering.                                              *)
(*                                                                         *)
(* The forwarder is one asyncio task: what it does between two awaits is   *)
(* one action here, and `pc' names the await it is parked at.  Everything  *)
(* that can interleave with an await does: arrivals, outages, SIGTERM and  *)
(* SIGKILL.                                                                *)
(*                                                                         *)
(* A sample is its tag, source timestamp, run and sequence number; value   *)
(* and quality play no part in custody.  Timestamps count from 1 per tag,  *)
(* 0 stands for none.  Tags here are the uncompressed ones.                *)
(***************************************************************************)
EXTENDS Naturals, Sequences, FiniteSetsExt

CONSTANTS
  Tag,            \* subscribed tags
  BatchSize,      \* config.batch_size
  MaxRows,        \* config.buffer_max_rows
  MaxTs,          \* bound: timestamps a tag can produce
  MaxRuns,        \* bound: times the process is started
  ReadsOvertake   \* may a max-time read answer with a value whose
                  \* notification still waits in the source's queue?

ASSUME BatchSizeAssumption == BatchSize \in Nat \ {0}
ASSUME MaxRowsAssumption   == MaxRows \in Nat
ASSUME BoundsAssumption    == MaxTs \in Nat \ {0} /\ MaxRuns \in Nat
ASSUME ReadsAssumption     == ReadsOvertake \in BOOLEAN

VARIABLES
  srcTs,          \* source: timestamp of each tag's current value
  published,      \* source: timestamp of the last value it notified
  phase,          \* process: down, starting, running, stopping
  run,            \* collector_run of the current (or last) process
  lastTs,         \* Pipeline._last_ts
  seq,            \* Pipeline._seq
  queue,          \* Pipeline._incoming
  linkUp,         \* Pipeline.link_up
  pc,             \* the forwarder's await
  batch,          \* the batch _collect_batch / run_forwarder holds
  replay,         \* the rows drain took and is writing
  conn,           \* ArchiveSink._conn: none, open, broken
  buffered,       \* SQLite table buffered
  lost,           \* SQLite table lost
  archUp,         \* is the archive reachable?
  sample,         \* archive table sample
  collectorLoss,  \* archive table collector_loss
  admitted,       \* history: every sample _admit has numbered
  discarded,      \* history: samples the full buffer discarded
  killed,         \* history: samples in memory at a SIGKILL
  dropped         \* history: samples in the forwarder's hands at a stop

sourceVars  == <<srcTs, published>>
ingressVars == <<lastTs, seq, queue, admitted>>
storeVars   == <<buffered, lost, discarded>>
archiveVars == <<sample, collectorLoss>>
historyVars == <<killed, dropped>>
vars == <<srcTs, published, phase, run, lastTs, seq, queue, linkUp, pc, batch,
          replay, conn, buffered, lost, archUp, sample, collectorLoss,
          admitted, discarded, killed, dropped>>

Sample == [tag : Tag, ts : Nat, run : Nat, seq : Nat]
Row    == [id : Nat, s : Sample]
Loss   == [run : Nat, tag : Tag, firstTs : Nat, lastTs : Nat,
           firstSeq : Nat, lastSeq : Nat, samples : Nat]

Phases == {"down", "starting", "running", "stopping"}
Pcs    == {"off", "collect", "write", "wrote", "connect", "replay",
           "replayed", "losses", "sent"}

TypeOK ==
  /\ srcTs \in [Tag -> Nat]
  /\ published \in [Tag -> Nat]
  /\ phase \in Phases
  /\ run \in Nat
  /\ lastTs \in [Tag -> Nat]
  /\ seq \in [Tag -> Nat]
  /\ queue \in Seq(Sample)
  /\ linkUp \in BOOLEAN
  /\ pc \in Pcs
  /\ batch \in Seq(Sample)
  /\ replay \in SUBSET Row
  /\ conn \in {"none", "open", "broken"}
  /\ buffered \in SUBSET Row
  /\ lost \in SUBSET Loss
  /\ archUp \in BOOLEAN
  /\ sample \in SUBSET Sample
  /\ collectorLoss \in SUBSET Loss
  /\ admitted \in SUBSET Sample
  /\ discarded \in SUBSET Sample
  /\ killed \in SUBSET Sample
  /\ dropped \in SUBSET Sample

-----------------------------------------------------------------------------
(* Samples, keys and the two unique constraints.                           *)

Key(s)  == <<s.tag, s.ts>>
Keys(S) == {Key(s) : s \in S}
Held(R) == {r.s : r \in R}

\* The elements of q that an insert-unless-present of q's elements, in order,
\* into a table holding the keys K puts there: no key twice, first one wins.
NewIn(q, K) ==
  {i \in DOMAIN q : /\ Key(q[i]) \notin K
                    /\ \A j \in 1 .. (i - 1) : Key(q[j]) # Key(q[i])}

\* Mutant of Upsert: ON CONFLICT DO UPDATE.
Upsert_DoUpdate(table, q) ==
  {s \in table : Key(s) \notin Keys(Range(q))} \cup {q[i] : i \in NewIn(q, {})}

\* INSERT ... ON CONFLICT (tag_id, source_ts) DO NOTHING.
Upsert(table, q) == table \cup {q[i] : i \in NewIn(q, Keys(table))}

\* Mutant of UpsertRows: the transaction is never committed.
UpsertRows_NoCommit(table, R) == table

\* The same for rows that cannot repeat a key among themselves.
UpsertRows(table, R) ==
  table \cup {s \in Held(R) : Key(s) \notin Keys(table)}

-----------------------------------------------------------------------------
(* collector/buffer.py.  Ids are only ever compared, so they restart from  *)
(* the largest one in the table.                                           *)

LastId(R) == IF R = {} THEN 0 ELSE Max({r.id : r \in R})

\* Mutant of Appended: the first sample of the batch is left out.
Appended_SkipsFirst(R, q) ==
  R \cup {[id |-> LastId(R) + i, s |-> q[i]] :
             i \in NewIn(q, Keys(Held(R))) \ {1}}

\* append: INSERT OR IGNORE of the samples, in order.
Appended(R, q) ==
  R \cup {[id |-> LastId(R) + i, s |-> q[i]] : i \in NewIn(q, Keys(Held(R)))}

\* Mutant of Doomed: one row too many may stay.
Doomed_OffByOne(R) == {r \in R : Cardinality({o \in R : o.id > r.id}) > MaxRows}

\* _enforce_bound: the rows of lowest id beyond MaxRows.
Doomed(R) == {r \in R : Cardinality({o \in R : o.id > r.id}) >= MaxRows}

\* Mutant of LossOf: the range ends before its last number.
LossOf_OpenEnd(S) ==
  LET any == CHOOSE s \in S : TRUE
      top == Max({s.seq : s \in S})
  IN [run |-> any.run, tag |-> any.tag,
      firstTs  |-> Min({s.ts  : s \in S}), lastTs  |-> Max({s.ts  : s \in S}),
      firstSeq |-> Min({s.seq : s \in S}), lastSeq |-> top - 1,
      samples  |-> Cardinality(S)]

\* The record of one tag's and run's share S of what was discarded.
LossOf(S) ==
  LET any == CHOOSE s \in S : TRUE IN
  [run |-> any.run, tag |-> any.tag,
   firstTs  |-> Min({s.ts  : s \in S}), lastTs  |-> Max({s.ts  : s \in S}),
   firstSeq |-> Min({s.seq : s \in S}), lastSeq |-> Max({s.seq : s \in S}),
   samples  |-> Cardinality(S)]

\* Mutants of LossesOf: no GROUP BY; nothing recorded at all.
LossesOf_Ungrouped(D) == IF D = {} THEN {} ELSE {LossOf(D)}
LossesOf_None(D) == {}

LossesOf(D) == {LossOf({s \in D : s.run = x.run /\ s.tag = x.tag}) : x \in D}

\* Mutant of Take: newest first.
Take_NewestFirst(R) ==
  {r \in R : Cardinality({o \in R : \/ o.s.ts > r.s.ts
                                    \/ o.s.ts = r.s.ts /\ o.id > r.id})
             < BatchSize}

\* take: the BatchSize oldest rows by (source_us, id).
Take(R) ==
  {r \in R : Cardinality({o \in R : \/ o.s.ts < r.s.ts
                                    \/ o.s.ts = r.s.ts /\ o.id < r.id})
             < BatchSize}

\* Pipeline._buffer(q) on a table that holds R: one SQLite transaction.
BufferInto(R, q) ==
  LET all  == Appended(R, q)
      gone == Doomed(all)
  IN /\ buffered'  = all \ gone
     /\ lost'      = lost \cup LossesOf(Held(gone))
     /\ discarded' = discarded \cup Held(gone)

-----------------------------------------------------------------------------
(* The source and its subscription.                                        *)

\* The source stamps a new value of t.
SourceChange(t) ==
  /\ srcTs[t] < MaxTs
  /\ srcTs' = [srcTs EXCEPT ![t] = @ + 1]
  /\ UNCHANGED <<published, phase, run, ingressVars, linkUp, pc, batch, replay,
                 conn, storeVars, archUp, archiveVars, historyVars>>

\* Pipeline.on_sample and _admit: a timestamp equal to the tag's last one is
\* absorbed, anything else is numbered and queued.
OnSample(t, ts) ==
  IF lastTs[t] = ts
  THEN UNCHANGED ingressVars
  ELSE LET s == [tag |-> t, ts |-> ts, run |-> run, seq |-> seq[t] + 1] IN
       /\ lastTs'   = [lastTs EXCEPT ![t] = ts]
       /\ seq'      = [seq EXCEPT ![t] = @ + 1]
       /\ queue'    = Append(queue, s)
       /\ admitted' = admitted \cup {s}

\* A notification is handled.  The session is disconnected only after the
\* tasks are cancelled, so this also happens while the process is stopping.
Notify(t) ==
  /\ phase \in {"running", "stopping"}
  /\ published[t] < srcTs[t]
  /\ published' = [published EXCEPT ![t] = @ + 1]
  /\ OnSample(t, published[t] + 1)
  /\ UNCHANGED <<srcTs, phase, run, linkUp, pc, batch, replay, conn, storeVars,
                 archUp, archiveVars, historyVars>>

\* max_time_read of a quiet tag returns the current value.
MaxTimeRead(t) ==
  /\ phase = "running"
  /\ ReadsOvertake \/ published[t] = srcTs[t]
  /\ OnSample(t, srcTs[t])
  /\ UNCHANGED <<sourceVars, phase, run, linkUp, pc, batch, replay, conn,
                 storeVars, archUp, archiveVars, historyVars>>

\* A new subscription first notifies each tag's current value; what the old
\* one still had queued is gone.
Subscribed == [t \in Tag |-> srcTs[t] - 1]

\* _opcua_supervisor replaces a failed session.
Reconnect ==
  /\ phase = "running"
  /\ published' = Subscribed
  /\ UNCHANGED <<srcTs, phase, run, ingressVars, linkUp, pc, batch, replay,
                 conn, storeVars, archUp, archiveVars, historyVars>>

-----------------------------------------------------------------------------
(* The sink.  A statement can complete when the connection is good, or when *)
(* there is none and a new one can be opened; it fails on a broken one.    *)

CanWrite    == conn = "open" \/ (conn = "none" /\ archUp)
CannotWrite == conn = "broken" \/ (conn = "none" /\ ~archUp)

\* Mutant of CloseSink: the broken connection is kept.
CloseSink_Kept == conn' = conn

\* After a failed statement the connection is not used again.
CloseSink == conn' = "none"

\* Where the forwarder goes when it calls _forward_losses.
ForwardLosses == pc' = IF lost' = {} THEN "collect" ELSE "losses"

\* One turn of drain's loop, over a table that holds R: what has queued up is
\* buffered, the oldest rows are taken, and with none left the drain is over.
DrainTurn(R) ==
  /\ BufferInto(R, queue)
  /\ queue' = <<>>
  /\ replay' = Take(buffered')
  /\ IF replay' = {} THEN ForwardLosses ELSE pc' = "replay"

\* Mutant of Drain: forwarding resumes at once.
Drain_Skipped == UNCHANGED <<storeVars, queue, replay>> /\ pc' = "collect"

Drain ==
  IF buffered = {}
  THEN /\ UNCHANGED <<storeVars, queue, replay>>
       /\ ForwardLosses
  ELSE DrainTurn(buffered)

-----------------------------------------------------------------------------
(* run_forwarder                                                           *)

\* _collect_batch takes one more sample off the queue.
CollectOne ==
  /\ phase = "running" /\ pc = "collect"
  /\ queue # <<>> /\ Len(batch) < BatchSize
  /\ batch' = Append(batch, Head(queue))
  /\ queue' = Tail(queue)
  /\ UNCHANGED <<sourceVars, phase, run, lastTs, seq, admitted, linkUp, pc,
                 replay, conn, storeVars, archUp, archiveVars, historyVars>>

\* The batch is full or its linger is over: forward it live if the link is
\* up, else buffer it and try to recover.
CollectDone ==
  /\ phase = "running" /\ pc = "collect"
  /\ batch # <<>>
  /\ IF linkUp
     THEN pc' = "write" /\ UNCHANGED <<batch, storeVars>>
     ELSE pc' = "connect" /\ batch' = <<>> /\ BufferInto(buffered, batch)
  /\ UNCHANGED <<sourceVars, phase, run, ingressVars, linkUp, replay, conn,
                 archUp, archiveVars, historyVars>>

\* The archive commits the live batch ...
WriteCommit ==
  /\ pc = "write" /\ CanWrite
  /\ sample' = Upsert(sample, batch)
  /\ conn' = "open"
  /\ pc' = "wrote"
  /\ UNCHANGED <<sourceVars, phase, run, ingressVars, linkUp, batch, replay,
                 storeVars, archUp, collectorLoss, historyVars>>

\* ... and its answer arrives.
WriteAck ==
  /\ pc = "wrote" /\ conn = "open"
  /\ batch' = <<>>
  /\ UNCHANGED <<sourceVars, phase, run, ingressVars, linkUp, replay, conn,
                 storeVars, archUp, archiveVars, historyVars>>
  /\ ForwardLosses

\* SinkUnavailable from a live write, whether or not the archive committed.
WriteFail ==
  /\ pc \in {"write", "wrote"} /\ CannotWrite
  /\ linkUp' = FALSE
  /\ CloseSink
  /\ BufferInto(buffered, batch)
  /\ batch' = <<>>
  /\ pc' = "collect"
  /\ UNCHANGED <<sourceVars, phase, run, ingressVars, replay, archUp,
                 archiveVars, historyVars>>

\* _try_recover reaches the archive, and drains before anything else.  connect
\* takes a connection nobody has found broken yet for a good one.
ConnectOk ==
  /\ pc = "connect"
  /\ conn # "none" \/ archUp
  /\ conn' = IF conn = "none" THEN "open" ELSE conn
  /\ linkUp' = TRUE
  /\ Drain
  /\ UNCHANGED <<sourceVars, phase, run, lastTs, seq, admitted, batch, archUp,
                 archiveVars, historyVars>>

\* _try_recover does not; after a pause the forwarder collects again.
ConnectFail ==
  /\ pc = "connect" /\ conn = "none" /\ ~archUp
  /\ pc' = "collect"
  /\ UNCHANGED <<sourceVars, phase, run, ingressVars, linkUp, batch, replay,
                 conn, storeVars, archUp, archiveVars, historyVars>>

-----------------------------------------------------------------------------
(* drain and _forward_losses, from the forwarder and, for what a previous  *)
(* process left in the buffer, from startup.                               *)

ReplayCommit ==
  /\ pc = "replay" /\ CanWrite
  /\ sample' = UpsertRows(sample, replay)
  /\ conn' = "open"
  /\ pc' = "replayed"
  /\ UNCHANGED <<sourceVars, phase, run, ingressVars, linkUp, batch, replay,
                 storeVars, archUp, collectorLoss, historyVars>>

\* Only what the archive has committed is forgotten; then the next turn.
ReplayAck ==
  /\ pc = "replayed" /\ conn = "open"
  /\ DrainTurn(buffered \ replay)
  /\ UNCHANGED <<sourceVars, phase, run, lastTs, seq, admitted, linkUp, batch,
                 conn, archUp, archiveVars, historyVars>>

ReplayFail ==
  /\ pc \in {"replay", "replayed"} /\ CannotWrite
  /\ linkUp' = FALSE
  /\ CloseSink
  /\ replay' = {}
  /\ pc' = "collect"
  /\ UNCHANGED <<sourceVars, phase, run, ingressVars, batch, storeVars, archUp,
                 archiveVars, historyVars>>

\* INSERT INTO collector_loss ... ON CONFLICT (tag_id, first_source_ts) DO
\* NOTHING, in the order the losses were recorded.
LossKey(l) == <<l.tag, l.firstTs>>
Earlier(l, m) == l.run < m.run \/ (l.run = m.run /\ l.firstSeq < m.firstSeq)

UpsertLosses(table, L) ==
  table \cup {l \in L : /\ \A m \in table : LossKey(m) # LossKey(l)
                        /\ \A m \in L : LossKey(m) = LossKey(l) => ~ Earlier(m, l)}

LossCommit ==
  /\ pc = "losses" /\ CanWrite
  /\ collectorLoss' = UpsertLosses(collectorLoss, lost)
  /\ conn' = "open"
  /\ pc' = "sent"
  /\ UNCHANGED <<sourceVars, phase, run, ingressVars, linkUp, batch, replay,
                 storeVars, archUp, sample, historyVars>>

LossAck ==
  /\ pc = "sent" /\ conn = "open"
  /\ lost' = {}
  /\ pc' = "collect"
  /\ UNCHANGED <<sourceVars, phase, run, ingressVars, linkUp, batch, replay,
                 conn, buffered, discarded, archUp, archiveVars, historyVars>>

\* The records stay for the next time; the link is not reported down.
LossFail ==
  /\ pc \in {"losses", "sent"} /\ CannotWrite
  /\ CloseSink
  /\ pc' = "collect"
  /\ UNCHANGED <<sourceVars, phase, run, ingressVars, linkUp, batch, replay,
                 storeVars, archUp, archiveVars, historyVars>>

-----------------------------------------------------------------------------
(* collector/main.py: starting, stopping, being killed.                    *)

\* The process waits for the archive, reads its tags, registers its run and
\* drains what an earlier process left.
Start ==
  /\ phase = "down" /\ run < MaxRuns /\ archUp
  /\ phase' = "starting"
  /\ run' = run + 1
  /\ conn' = "open"
  /\ linkUp' = TRUE
  /\ replay' = Take(buffered)
  /\ pc' = IF buffered = {} THEN "collect" ELSE "replay"
  /\ UNCHANGED <<sourceVars, ingressVars, batch, storeVars, archUp,
                 archiveVars, historyVars>>

\* What a process that is gone no longer has.
Gone ==
  /\ phase' = "down"
  /\ linkUp' = FALSE
  /\ conn' = "none"
  /\ pc' = "off"
  /\ queue' = <<>>
  /\ batch' = <<>>
  /\ replay' = {}
  /\ lastTs' = [t \in Tag |-> 0]
  /\ seq' = [t \in Tag |-> 0]

\* The health tags are read and the tasks started, the session among them ...
StartTasks ==
  /\ phase = "starting" /\ pc = "collect" /\ archUp
  /\ phase' = "running"
  /\ published' = Subscribed
  /\ UNCHANGED <<srcTs, run, ingressVars, linkUp, pc, batch, replay, conn,
                 storeVars, archUp, archiveVars, historyVars>>

\* ... unless the archive is gone again: _health_tag_ids raises and the
\* process ends.
StartFail ==
  /\ phase = "starting" /\ pc = "collect" /\ ~archUp
  /\ Gone
  /\ UNCHANGED <<sourceVars, run, admitted, storeVars, archUp, archiveVars,
                 historyVars>>

\* SIGTERM: the forwarder is cancelled at its await, with what it holds.
Stop ==
  /\ phase = "running"
  /\ phase' = "stopping"
  /\ dropped' = dropped \cup Range(batch)
  /\ batch' = <<>>
  /\ replay' = {}
  /\ pc' = "off"
  /\ UNCHANGED <<sourceVars, run, ingressVars, linkUp, conn, storeVars, archUp,
                 archiveVars, killed>>

\* flush_to_buffer, after the session is disconnected.
Flush ==
  /\ phase = "stopping"
  /\ BufferInto(buffered, queue)
  /\ Gone
  /\ UNCHANGED <<sourceVars, run, admitted, archUp, archiveVars, historyVars>>

\* SIGKILL: SQLite survives, memory does not.
Kill ==
  /\ phase # "down"
  /\ killed' = killed \cup Range(queue) \cup Range(batch)
  /\ Gone
  /\ UNCHANGED <<sourceVars, run, admitted, storeVars, archUp, archiveVars,
                 dropped>>

-----------------------------------------------------------------------------
(* The archive and the way to it.                                          *)

Break == conn' = IF conn = "open" THEN "broken" ELSE conn

ArchiveDown ==
  /\ archUp
  /\ archUp' = FALSE
  /\ Break
  /\ UNCHANGED <<sourceVars, phase, run, ingressVars, linkUp, pc, batch, replay,
                 storeVars, archiveVars, historyVars>>

ArchiveUp ==
  /\ ~archUp
  /\ archUp' = TRUE
  /\ UNCHANGED <<sourceVars, phase, run, ingressVars, linkUp, pc, batch, replay,
                 conn, storeVars, archiveVars, historyVars>>

\* The connection alone is lost: a terminated backend, a network reset.
ConnectionLost ==
  /\ conn = "open"
  /\ Break
  /\ UNCHANGED <<sourceVars, phase, run, ingressVars, linkUp, pc, batch, replay,
                 storeVars, archUp, archiveVars, historyVars>>

-----------------------------------------------------------------------------
Init ==
  /\ srcTs = [t \in Tag |-> 1]
  /\ published = [t \in Tag |-> 0]
  /\ phase = "down"
  /\ run = 0
  /\ lastTs = [t \in Tag |-> 0]
  /\ seq = [t \in Tag |-> 0]
  /\ queue = <<>>
  /\ linkUp = FALSE
  /\ pc = "off"
  /\ batch = <<>>
  /\ replay = {}
  /\ conn = "none"
  /\ buffered = {}
  /\ lost = {}
  /\ archUp = TRUE
  /\ sample = {}
  /\ collectorLoss = {}
  /\ admitted = {}
  /\ discarded = {}
  /\ killed = {}
  /\ dropped = {}

Forwarder ==
  \/ CollectOne \/ CollectDone
  \/ WriteCommit \/ WriteAck \/ WriteFail
  \/ ConnectOk \/ ConnectFail
  \/ ReplayCommit \/ ReplayAck \/ ReplayFail
  \/ LossCommit \/ LossAck \/ LossFail

Source  == \E t \in Tag : SourceChange(t) \/ Notify(t) \/ MaxTimeRead(t)
Process == Start \/ StartTasks \/ StartFail \/ Stop \/ Flush \/ Kill
Archive == ArchiveDown \/ ArchiveUp \/ ConnectionLost

Next == Source \/ Reconnect \/ Forwarder \/ Process \/ Archive

Spec == Init /\ [][Next]_vars
-----------------------------------------------------------------------------
(* Properties                                                              *)

InMemory == Range(queue) \cup Range(batch)

\* The forwarder writes live samples only when nothing older waits in the
\* buffer: recovery drains completely before forwarding resumes, whatever
\* fails on the way (pipeline.py, drain and _try_recover).  And every variable
\* keeps its type.
LiveOnlyWhenDrained == TypeOK /\ (pc \in {"write", "wrote"} => buffered = {})

\* Nothing disappears: every numbered sample is in memory, or its key is in
\* the buffer or the archive, or the full buffer discarded it, or it was in
\* memory when the process was killed, or in the forwarder's hands when it
\* was stopped.
EverySampleAccounted ==
  \A s \in admitted :
    \/ s \in InMemory \cup killed \cup dropped
    \/ Key(s) \in Keys(Held(buffered)) \cup Keys(sample) \cup Keys(discarded)

\* The archive never receives a tag's samples out of order, recovery included:
\* a row added later is newer than every row of its tag already there.
ArchiveInOrder ==
  [][\A new \in sample' \ sample, old \in sample :
       new.tag = old.tag => old.ts < new.ts]_vars

\* A row of the archive never changes hands: what a replay or another run
\* writes under a key already taken leaves the first writer's row alone.
FirstWriteWins ==
  [][\A s \in sample : {x \in sample' : Key(x) = Key(s)} = {s}]_vars

\* A row leaves the buffer only when the archive has its key, or when the same
\* transaction puts it on the loss ledger.
ForgottenOnlyWhenSafe ==
  [][\A r \in buffered \ buffered' :
       \/ Key(r.s) \in Keys(sample)
       \/ \E l \in lost' : /\ l.run = r.s.run /\ l.tag = r.s.tag
                           /\ r.s.seq \in l.firstSeq .. l.lastSeq]_vars

\* The buffer never outgrows its bound, and replays never mix up its keys.
BufferBounded ==
  /\ Cardinality(buffered) <= MaxRows
  /\ \A a, b \in buffered : Key(a.s) = Key(b.s) \/ a.id = b.id => a = b

\* "Whatever is still in memory goes to the durable buffer" (main.py, on a
\* SIGTERM): no sample is left behind in the forwarder's hands.
CleanStopKeepsEverything == \A s \in dropped : Key(s) \in Keys(sample)

-----------------------------------------------------------------------------
(* The custody the collector promises, as an abstract specification.       *)

Custody == INSTANCE SampleCustody WITH
             Bound     <- MaxRows,
             accepted  <- admitted,
             memory    <- InMemory,
             durable   <- Keys(Held(buffered)),
             archived  <- Keys(sample),
             discarded <- Keys(discarded),
             gone      <- killed \cup dropped

\* Every step of the collector is a legal hand-over of custody.
ImplementsCustody == Custody!Spec

-----------------------------------------------------------------------------
(* Liveness.  The event loop runs the forwarder whenever its await is over.*)

\* Connections that break while the archive stays up are left out: endlessly
\* many of them would leave nothing to recover to.
SteadyNext == Next /\ (conn = "open" /\ conn' = "broken" => ~ archUp')

FairSpec == Init /\ [][SteadyNext]_vars /\ WF_vars(Forwarder)

Healthy == archUp /\ phase = "running"

\* Once the forwarder has a reason to reconnect and the archive stays up, the
\* link comes up, the buffer is drained to the last row, and every recorded
\* loss is in the archive's ledger.
RecoveryCompletes ==
  []((pc = "connect" /\ []Healthy) => <>(linkUp /\ buffered = {} /\ lost = {}))
=============================================================================
