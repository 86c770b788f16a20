# Verification of the CRPMS demonstrator

TLA+ models of the plant-data path in this repository, the TLC runs that check
them on small instances, and theorems about them that TLAPS proves for every
value of the constants. Everything here is derived from the code; where a doc or
a comment says something else, the run that shows the difference is listed under
"Disagreements", or with the instance that refutes it under "Observations".

Run a check with `tlc -workers 2 -config StoreForward_restart.cfg MCStoreForward.tla`,
a proof with `tlapm StoreForwardProofs.tla`. `PROJECT.json` lists every run with
its properties, the source lines behind every definition (`map`), a mutant for
every property, and the hazards the properties are aimed at.

## 1. The system

A rig (ESP32, Modbus) or a plant simulator feeds an OPC UA server; a collector
subscribes, numbers every sample, and writes it to TimescaleDB, buffering in
SQLite while the archive is away; an analysis service derives KPIs, quality
notes, event frames and alerts from the archive; a scraper records a public grid
feed on the side; a read-only UI presents it all.

    firmware --Modbus--> sim/bridge --OPC UA--> collector/session
                         sim/server --OPC UA-->      |
                                              pipeline (asyncio) -- events (fan-out)
                                               |             |
                                         buffer (SQLite)   sink / omf_sink
                                                              |        \
                                                         archive    omf_receiver
                                                              |
                                  engine (kpi, quality, events, alerts, capacity)
                                                              |
                                                          api / ui

### Inventory

| component | state | operations | interacts with | what is hard | correct when |
|---|---|---|---|---|---|
| `collector/pipeline.py` | queue, last timestamp and sequence number per tag, `link_up` | `on_sample`, `run_forwarder`, `drain`, `flush_to_buffer` | session callbacks put, forwarder takes; buffer; sink | arrivals during every await; commits whose answer is lost; stop and kill with samples in hand | every numbered sample is accounted for; recovery drains before live writes; the archive stays in order |
| `collector/buffer.py` | SQLite tables `buffered`, `lost` | `append`, `take`, `forget`, `losses`, `forget_losses` | pipeline | overflow during outage, drain and flush; replay of what was committed | bounded; one row per key; every discard recorded exactly, atomically |
| `collector/sink.py` + schema | `sample`, `collector_loss`, `collector_run` | `write`, `write_losses`, `register_run` | archive | retry after an ambiguous commit; two runs, one key | first write wins; ledger complete |
| view `sample_seq_gap` | none (derived) | select | operators | holes from discards, re-deliveries, restarts | every hole explained; no false hole |
| `collector/main.py` | phase of the process, tasks | start, supervise, heartbeat, stop | all of the above | archive lost half-way through start; SIGTERM during a write | nothing in memory is lost on a clean stop |
| `collector/session.py` | subscription, drop counters, publish sequence watch | connect, handle, `max_time_read`, disconnect | source, pipeline | lost and repeated notifications, wrap-around, reads that overtake | counts agree with what arrived; gaps are noticed |
| `collector/events.py` | bounded queue per subscriber | `emit`, `subscribe` | pipeline, event server | slow subscriber | newest events kept, producer never blocked |
| `collector/compression.py` | held value, swinging-door cone and segment | `push`, `flush` | pipeline | points at the limits, spikes, gaps | reconstruction within the stated deviation; endpoints archived |
| two collectors | one buffer each, one archive | both run everything above | archive constraints | same samples from both, each discarding its own | one row per sample while at least one is up |
| `collector/omf*.py`, `archive/omf_receiver.py` | container set, connection | `connect`, `write`, handle | HTTP | partial acceptance, errors of another library | same custody as the direct sink |
| `engine/events.py` | open and closed frames in the archive | `detect`, `store` | engine cycle | re-detection over a moving window; frames open across cycles | each excursion is one frame, opened once, closed at its end |
| `engine/quality.py`, `engine/kpi.py` | none (derived, notes and results stored) | rules, `compute` | engine cycle | missing, late and bad inputs | a result is never better than its inputs |
| `ops/alerts.py` | alerts in the archive | evaluate, raise/clear, deliver | engine cycle, mail | crash between raise and deliver; two evaluators | each condition alerts once and is delivered |
| `sim/bridge.py` | last values, failure count | `poll_once`, `_mark_all_bad` | rig, OPC UA | device resets, half-read blocks | a value that cannot be read is not shown as good |
| `firmware/src/main.cpp` | Modbus registers, sensor state | `loop`, callbacks | Modbus task | callbacks interleave with a sensor scan | registers consistent; relay state honest |
| `sim/server.py`, `sim/ledger.py` | plant state, truth ledger | scan, restart, window | OPC UA | restart during a scan; retention | ledger agrees with what was published |
| `scraper/` | three tables of readings, a log of attempts, one connection | `run`, `poll_once`, `write_reading`, `log_attempt` | SLDC site, archive | slow fetches against the schedule; retries; a transaction whose answer is lost; connections that die unnoticed | no attempt outside its tick; a page recorded whole, once and unmixed; the log adds up |
| `archive/migrate.py`, `audit.py`, `ops/*.sh` | schema version, audit rows, dumps | apply, backup, restore | archive | failing half-way | all-or-nothing |

## 2. Modules

| module | models | extends | run by | proved in |
|---|---|---|---|---|
| `SampleCustody` | the promise: a sample is in memory, durable, archived, discarded or gone, and passes only between them | – | as a property | – |
| `StoreForward` | `collector/pipeline.py`, `buffer.py`, `sink.py`, the life of the process (`main.py`), the session as the pipeline sees it | – | `MCStoreForward` | `StoreForwardProofs` |
| `SequenceGaps` | view `sample_seq_gap`, table `collector_loss` (`archive/migrations/014`) | `StoreForward` | `MCSequenceGaps` | `StoreForwardProofs` |
| `EventFrames` | `engine/events.py` and `run_events` of `engine/service.py` | – | `MCEventFrames` | `AnalysisProofs` |
| `Alerts` | `ops/alerts.py`, `ops/seed_alerts.py` | – | `MCAlerts` | `AlertsProofs` |
| `RigFirmware` | `firmware/src/main.cpp` | – | through `RigBridge` | `RigProofs` |
| `RigBridge` | `sim/bridge.py` polling that rig | `RigFirmware` | `MCRig` | `RigProofs` |
| `QualityRules` | the rules of `engine/quality.py` over one history, as operators | – | through `AnalysisCycle` | `AnalysisProofs` |
| `Kpi` | placement, inputs and evaluation of `engine/kpi.py`, as operators | – | through `AnalysisCycle` | `AnalysisProofs` |
| `AnalysisCycle` | the loop of `engine/service.py`, `run_quality`, `run_kpis`, `seed_kpis.py` | `QualityRules`, `Kpi` | `MCAnalysis` | `AnalysisProofs` |
| `Compression` | `collector/compression.py`, both stages | – | `MCCompression` | `IngressProofs` (an instance) |
| `EventStream` | `collector/events.py`, the endpoint of `event_server.py` | – | through `Ingress` | `IngressProofs` |
| `Ingress` | `collector/session.py`, the supervisor of `main.py` | `EventStream` | `MCIngress` | `IngressProofs` |
| `OmfSink` | `collector/omf_sink.py`, `omf.py`, `archive/omf_receiver.py` under the pipeline's forwarder | – | `MCOmf` | `OmfProofs` |
| `ScraperPoll` | `scraper/poll.py`, `parse.py`, `store.py` | – | `MCScraper` | `ScraperProofs` |
| `Extrema` | lemmas on `Max` and `Min` of finite sets of naturals, on sums over finite sets and on what such sets cover | – | – | itself |
| `MC*` | values of constants that a `.cfg` cannot write | the module checked | | |

Several modules take a constant `Settings`, a set of records from which a
behaviour draws one: a build of the firmware, a shape of compression, a list of
the failures that may still happen. A run then asks its question of many small
instances at once, each bounded where it matters and nowhere else.

### StoreForward

The collector is one asyncio process, so what the forwarder does between two
awaits is one action, and `pc` names the await it is parked at. Everything else
interleaves with it there.

| state | code |
|---|---|
| `srcTs`, `published` | the source's current value of each tag, and the last one it notified |
| `phase`, `run` | the process (`main.run`) and its row in `collector_run` |
| `lastTs`, `seq`, `queue`, `linkUp` | `Pipeline._last_ts`, `_seq`, `_incoming`, `link_up` |
| `batch`, `replay` | locals of `_collect_batch`/`run_forwarder`, and of `drain` |
| `conn` | `ArchiveSink._conn`: none, open, or broken without knowing it |
| `buffered`, `lost` | the two SQLite tables |
| `sample`, `collectorLoss` | the two archive tables |
| `admitted`, `discarded`, `killed`, `dropped` | history, for the properties only |

| `pc` | parked in | leaves by |
|---|---|---|
| `collect` | `_collect_batch` (139) | `CollectOne`, `CollectDone` |
| `write`, `wrote` | `sink.write` before and after the archive's commit | `WriteCommit`, `WriteAck`, `WriteFail` |
| `connect` | `_try_recover` (212) | `ConnectOk`, `ConnectFail` |
| `replay`, `replayed` | `sink.write` in `drain` (222) | `ReplayCommit`, `ReplayAck`, `ReplayFail` |
| `losses`, `sent` | `sink.write_losses` in `_forward_losses` (273) | `LossCommit`, `LossAck`, `LossFail` |

A write is two actions, the archive's commit and the answer, because the
connection may die between them: `*Fail` is enabled after the commit as well as
before. `Notify` and `MaxTimeRead` call the whole of `on_sample`. `Start`,
`StartTasks` and `StartFail` are the three stages of `main.run`; `Stop` cancels
the tasks (and drops what the forwarder holds as locals) and `Flush` is
`flush_to_buffer`; `Kill` is SIGKILL and may happen in any phase.

The value and quality of a sample play no part in where it is kept and are left
out. `exception`, `compression` and `omf` options are off; the tags are the
uncompressed ones.

### SequenceGaps

No state of its own: the view and the ledger as operators over `sample` and
`collector_loss`, with the columns of the view (`missing`,
`held_by_other_runs`, `recorded_as_lost`). The ledger includes the records still
in the buffer's table `lost`, which have yet to be forwarded.

### EventFrames

Time is counted in scans. `Feed` is a debouncer, `Detecting` what `detect` does with one
sample, `Within` with the samples of one scan and `Detect` with a window; `Stored` and `Admits` are `store` and the index
`event_frame_one_open`; `GivenUp`, `Since` and `Pass` are `run_events` for one
template on one element. `Record` is the collector appending a scan to the
archive, at most a scan or two late; `Restart` forgets `_events_ran` and may
change the order in which `detect` iterates over the set of attribute names.
`Pass` may end after any of its transactions, because the archive went away or
refused one. With `Torn`, the newest scan may be only half there when the
attributes are read, which they are one query at a time.

Milestones and summaries are left out: they are computed from a frame and never
decide whether there is one.

### Alerts

An evaluator's `pc` names its next statement: `evaluate` (the queries of one
rule), `look` (the SELECT of an open alert), `raise` or `clear` (the INSERT or
UPDATE and its commit), `find` (the newest alert of the rule, in a transaction of
its own), `deliver` (SMTP) and `record` (the UPDATE of `delivered` or
`delivery_error`). Nothing between them is atomic, for `alert` has no unique index
over open alerts. `Interrupted` is a database error or a crash at any of them.
`TagFires` reads the window and the row before it as the SQL does; the other kinds
of rule look at one latest row. `Seed` is `seed_alerts.py`.

### RigFirmware and RigBridge

Two tasks share memory: the Arduino task (`Setup`, then `loop`, whose statements
`Body` lists in order and `pc` names one by one) and the Modbus task (`WriteCoil`,
`WritePin`, `StampRelay`, `Rezero`, and replies). Registers are written and copied a word at
a time, so `CopyWord` interleaves with every step of the loop. A register holds
what its number is worth (`true`, `offset`, `spans`, `wild`, `invalid`) rather than
the number. `Bench` is what a person does: break and mend a sensor, pull a probe,
switch the supply, press reset. `RigBridge` adds `poll_once`: `Poll`, `CopyWord`,
`ReadBits`, `Publish`, and `PollFails` for `_mark_all_bad`. `Decode` and
`DecodeDigital` are the bridge's decoding of a mixture of words and status that no moment need
have seen. `AsBuilt` is what the nodes show before the first poll: Good, and nothing that was read.

### QualityRules, Kpi and AnalysisCycle

`Flagged` and `HealthOf` are `evaluate_tag` and the row of `tag_health`;
`Applicable`, `Resolve` and `Compute` the placement of a KPI, its inputs and its
result. `AnalysisCycle` runs the five jobs in order when they are due; `pc` is the
job, `todo` what the loops of `run_kpis` have left, and a database error (`FailJob`)
ends the cycle but not the engine. Samples and flags are kept by age, so that the
loop may go on for ever in finitely many states. What the source sends while the archive
is `down` waits at the collector (`waiting`) and arrives later, with its own
timestamps, the oldest first and in as many portions as the drain takes (`Arrivals`); `here` says how
long a sample has been in the archive, as its age does not. `Lose` is an archive that goes away in
the middle of a cycle, `Tick` one that goes or comes back between two. `Seed`
supersedes a definition between any two results.

### Compression

`FilterPush` is stage one, the door (`_choose`, `_drain_segment`, the forced
samples) stage two, `Source` is `TwoStageCompressor.push` called by the pipeline and `Flush` a clean
stop. The model keeps the raw series beside what was archived, and slopes are
compared by cross-multiplying, so there is no rounding.

### Ingress and EventStream

`Observe` and `Forget` are `PublishSequence`; `Outcome` is what
`_SubscriptionHandler.handle` makes of a DataValue, refusing it for the first reason it finds;
`Deliver` takes one message from the wire and, if its subscription exists, calls back:
`Handle` is that call, with its counters, sample and events.
`Connect`, `Subscribe`, `Monitor`, `Connected`, `GiveUp`, `ForgetFirst`, `DeleteFirst`,
`Disconnected` are the supervisor. Making a subscription takes several awaits: `Subscribe` is
`create_subscription`, from which its numbers are watched (`session.py:325`), `Monitor` one
`subscribe_data_change`, and the last of them puts it into `_subscriptions` (`session.subs`);
until then it is `session.opening`, sends messages from its first tag on, and is not forgotten by `disconnect`
if the connection is cut. `heard.stray` remembers the ids this has happened to, and
`heard.reused` that a restarted source has given one of them again while its number was still
remembered. `Lose`, `Republish`, `Cut` and `Restart` are the network and the
source. `EventStream!Emit` puts into every subscriber's queue and drops the oldest
of a full one; a browser that leaves is noticed by a send only.

### OmfSink

The forwarder of the pipeline again, as far as this sink changes it: `fwd.at` is
where it is, including the registration of types and containers and the query
for tags that `connect` makes. A post blocks the event loop and is one step, whose
outcomes (`Posts`) include a message that was stored and an answer that was lost.
The receiver forgets its containers when it restarts. A database error that is not
converted ends the forwarder (`Raises`), and with it the collector, which is
started again; `Stop` (SIGTERM) and `Kill` (SIGKILL) end it too, wherever the event loop may run
them. `Keep` is `_buffer` with the bound of `buffer.py:176`: what does not fit is
discarded from the front, and its loss `records` go to the archive's `ledger` by `SendLosses`, at
the end of a drain and after each write. `ReadTags` drains at a start only if the
buffer holds something (`main.py:161`), and `StartTasks` is the rest of the start, which a database
that has gone ends. `lost` and `dropped` are histories: what was in hand at an
exception, and in hand or in memory at a stop or a kill.

### ScraperPoll

`clock` is the time since the tick in hand was due: the schedule is absolute and
nothing else about time matters, so the schedule goes on for ever in finitely many
states. `Begin` is the head of the loop in `run` with its skipping of missed ticks;
`Fetch`, `Again` and `MayRetry` are the attempts of `poll_once`; `Insert` (once for
each table, with its `ON CONFLICT DO NOTHING`), `Commit` and `WriteFails` are
`write_reading`, one transaction whose commit may succeed without an answer; `Log`
and `LogFails` are `log_attempt`, `Report` is `report_daily`. `conn` is the one
connection that `Archive` keeps: it may be dead without knowing it (`DbStops`), and
`Discarded` is what every failure does to it. A page is its timestamp and what each
element holds; one element stands for each of the three tables.

## 3. What is checked

Runs that pass, with `-workers 2`:

| run | question | bounds and why they suffice |
|---|---|---|
| `store_forward_restart` | Is every numbered sample in exactly the custody the promise allows, through outages, lost answers, overflow, stops, kills and a second run on the same buffer? Does a recovery complete? | One tag, 4 timestamps, buffer of 3 rows, batches of 2, two runs. A tag's custody depends on others only through the buffer's bound and batching, which one tag already fills; four samples overflow three rows; two runs are the least that re-deliver a key. |
| `sequence_gaps_one_run` | Is the ledger exact, and does it explain every hole of the view? | Two tags, so that discards have to be grouped; 3 timestamps each in a buffer of 2. Symmetric in the tags. |
| `event_windows` | Do passes over moving windows find what one pass over everything finds, start frames at transitions only, and leave finished frames alone? | 6 scans, a debounce of one, frames of at most 1 and a margin of 2: windows begin before, in and after a frame, and an open frame grows old enough to be given up. One Bad start report; the newest scan may be half read; the archive is one scan behind at most. The template reads its two attributes only (`BothReport`): a third one that reports in every scan would add samples that change nothing. |
| `alerts_race` | What can two evaluators, interrupted anywhere, do to one rule, and does it settle? | Two evaluators are the least that race, one interruption at any statement; 3 intervals for a window of 2. One rule on one tag: rules share the evaluator's order and, where one has nothing to do, its transaction, so that the next rule's alert may be raised with an older time (`NextRule`); that has no part in this run, but in the theorem `RacesAreBounded`. |
| `rig_bench` | What does the bridge publish while sensors fail and return, coils are written, the rig resets and replies are lost? | Eight settings over the builds of the firmware (RS-485, WiFi, with and without probes and relays), each with the sensors whose words can mix and 2 to 4 moves of the bench; a window of 2 scans is the least that can span a fault. |
| `analysis_cycle` | Do the jobs all run, find the trouble there is and store results that say what they are, whatever fails? | Six settings: doubted, stuck and quiet tags, inputs of every quality, jobs that always fail, three versions of a definition; in two of them the archive goes away for any time, also in the middle of a cycle, and what was sent meanwhile comes late and in portions. A lookback of 4 ticks and an evaluation every 2: a sample may come when it is already too old to be looked at, or with one evaluation left, or two. Ages are followed up to the lookback (`Kept`): what is older takes no part in any rule. |
| `compression_shapes` | Is what is archived within the stated deviation of the raw series, complete where it has to be, and in order? | Every series of 5 to 8 samples over 2 to 4 values, with spikes, steps of unequal length, Bad and Uncertain samples, timestamps that go back, and each stage switched off. |
| `ingress_cases` | Are message numbers, refusals and counters true over losses, repeats, reconnects and re-used ids? | Eight settings: up to 4 messages, 2 losses, a repeat, a reconnect, two restarts; two groups of one and three tags, of which any may be missing at the source and one has no source path; so a group of two tags that are monitored one after the other while the connection is cut, the source restarts and a message is lost; two subscribers with queues of 2. |
| `omf_outages` | Does this sink keep the custody of the other, and does everything arrive? | Seven settings: up to 5 samples, batches of 2 and a buffer of 2 rows, which overflows in an outage, at a failed write and in a drain; up to two stops of the receiver and of the database, a lost message or answer, two stops or kills of the collector; Good, Bad and health samples. |
| `scraper_poll` | Does the recorder keep its schedule, record pages whole and once, log what it did, and recover? | In units of five seconds: the interval is the configured minute, back-offs of 5, 5 and 10 s, fetches of 20 s, after which a retry fits, and of 150 s, after which whole ticks have been missed. Two pages with one timestamp and different elements; a time recorded before units were; two changes of the site, one outage and one crash, each at any step. |

`CHECK_DEADLOCK FALSE` is set where a bounded behaviour really ends: the series of
`Compression` is over after its flush, and the failures and messages that a setting
of `Ingress` or `OmfSink` allows run out. In the other runs deadlock is checked.

Type invariants are a conjunct of one of their module's listed properties, whose
comment says so.

### Disagreements

Runs that end in a counterexample, each for a statement the repository makes:

| run | the statement | what the code does |
|---|---|---|
| `clean_stop_drops_batch` | `collector/main.py:197`: what is in memory at a SIGTERM goes to the durable buffer | the forwarder is cancelled with a batch as a local variable; `flush_to_buffer` sees queue and compressors only |
| `omf_database_loses_batch` | `collector/pipeline.py:4`, `omf_sink.py:4`: samples keep arriving whatever the archive does; everything upstream of the sink is unchanged | `connect` asks the database for the tags (`omf_sink.py:122`), and an error of that query, unlike one of `_db`, is not converted: it ends the forwarder. When it is `write` that has to connect, the batch in hand is lost. The trace: the receiver is away until the buffer (one row) overflows, and comes back; after the recovery the loss record is sent on a connection that a stop of the database has broken, which closes the sink (`omf_sink.py:99`); the database is back, and the next `write` registers anew, on a new connection; the database stops again before the query for the tags |

### Observations

Further statements that TLC refutes. Their definitions stand in the modules, under
the heading that says so; to see one fail, put it into a `.cfg` with the
constants named here.

| definition | the statement | the code, and the instance |
|---|---|---|
| `SequenceGaps!DiscardedTimeOnRecord` | `014_review_findings.sql:80`: a discarded range is identified by its tag and first source timestamp | true of a buffer at one moment. After a restart the current value is delivered again, a range may start at the same timestamp, and `DO NOTHING` (`sink.py:36`) drops the longer record. `Tag = {t1, t2}`, `BatchSize = 2`, `MaxRows = 1`, `MaxTs = 2`, `MaxRuns = 2`, `ReadsOvertake = FALSE` |
| `SequenceGaps!HolesAreMissing` | `014_review_findings.sql:51`: a hole is a sample that is not in the archive | only a repeat of the *last* timestamp is absorbed (`pipeline.py:97`); a max-time read (`session.py:392`) makes t3, t2, t3, numbered three times and archived twice. `Tag = {t1}`, `BatchSize = 2`, `MaxRows = 2`, `MaxTs = 3`, `MaxRuns = 1`, `ReadsOvertake = TRUE` |
| `EventFrames!OpenFrameIsClosed` | `engine/service.py:185`: the window goes back to the start of an open frame, so it can be closed | one minute before its start; a change-of-state tag's last unsatisfied sample lies earlier, the edge is not seen, and the frame stays open until it is given up as aborted. `StartReports = {"yes", "no", "none"}`, `EndReports = {"yes", "no"}`, debounces 1, `MaxDuration = 5`, `Margin = 1`, `Back = 1`, `OneOrder`, `Torn = FALSE`, `Horizon = 8`, `MaxLag = 0`, `MaxOdd = 8` |
| `EventFrames!FramesDisjoint` | `service.py:18`, `003_event_frames.sql`: re-running completes an open frame rather than duplicating it | a window that begins between a frame's start and a lapse of its start condition finds a second start (`events.py:321`) and stores a second frame inside the first. Both reports `yes`/`no`, debounces 0, `MaxDuration = 4`, `Margin = 2`, `Back = 1`, `Horizon = 5`, otherwise as above with `MaxOdd = 0` |
| `EventFrames!SameHistorySameFrames` | `events.py:198`: the same history yields the same frames | samples of one scan share a timestamp and are merged in the iteration order of a set of strings (`events.py:207`), which a new process may change. `AllOrders`, debounces 1, `MaxDuration = 3`, `Margin = 1`, `Back = 1`, `Horizon = 4`, `MaxLag = 0`, `MaxOdd = 0`. For the same reason the last scan of a start's debounce may be one in which the condition has lapsed: where another attribute's sample comes first, the debouncer is fed the report of the scan before (`StartIsAnEdge` without `~ StartLeads`: `EventFrames_windows.cfg` with both reports `yes`/`no`, `StartDebounce = 2`, `AllOrders`, `Torn = FALSE`, `Horizon = 4`) |
| `EventFrames!WindowsAddUp` | `service.py:192`: from shortly before the last pass is far enough back | not for samples that come later than the margin of ten minutes, as when a collector that was cut off drains while the engine goes on. `EventFrames_windows.cfg` with `MaxLag = 1` |
| `Alerts!ConfiguredIsEnabled` | `alerts.py:3`: adding an alert is configuration | a rule taken out of the file and put back stays disabled: `enabled` is not among the fields a seeding restores (`seed_alerts.py:42`). `Alerts_race.cfg` with `Evaluators = {e1}`, `Files <- ListedOrNot` |
| `RigBridge!ZeroHasNoLoad` | `main.cpp:205`: a zero is only taken with the load off | `loadIsOff` is asked once (`main.cpp:225`), half a second of sampling before the zero; 12 V connected meanwhile offsets it. `Rig_bench.cfg` with `Settings <- TheSupply` |
| `RigBridge!SilentUntilRead` | `bridge.py:148`, `rig_config.h`: a value is published only of what was read, and an input that is not fitted reads nothing | `build_address_space` adds every node as Good 0.0 or Good False (`bridge.py:239`, `:252`), and a client that reads before the first poll has ended gets that. `Rig_bench.cfg` with `Settings <- Bare` (the initial state) |
| `RigBridge!ClosedIsOn` | a closed switch is published as closed | after a reset the status word says that the switch is fitted before `loop` has read it (`main.cpp:816`), and over RS-485 the server answers by then: Good False for about a second. `Rig_bench.cfg` with `Settings <- SwitchOverRS485`, as a `PROPERTY` |
| `AnalysisCycle!SilentTroubleSeen` | `quality.py:180`: a stuck sensor is found | not when its window is as long as the 300 s of history that are read, as configured for `U1_GEN_STATOR_TEMP` (`config/quality_rules.json:157`). `Analysis_cycle.cfg` with `Settings <- Stuck`, `RuleRows <- Long`, `Kept = 9` |
| `AnalysisCycle!BacklogFlagged` | `quality.py:289`: an excursion that has since returned still happened | an evaluation reads the last 300 s (`quality.py:245`), and what an outage has kept for longer than that is older when it arrives: no rule ever sees it. `Analysis_cycle.cfg`, as an `INVARIANT` |
| `Ingress!AllAccounted` | `session.py:13`: the pipeline knows what it did not receive | a subscription whose connection is cut between its watch (`session.py:325`) and its place in `_subscriptions` (`:332`) is never forgotten (`:417`). The source restarts, gives its id again, and the number left behind stands for messages of the new one: a gap under it is not seen, or messages before the first one heard are counted as missed. `Ingress_cases.cfg`, as an `INVARIANT` (the setting with tags B and D: three messages, a restart while D is still to be monitored, one message lost; numbers begin with 1, so the restart alone makes no false gap) |
| `Compression!LateKept` | `compression.py:41`: a repeated timestamp is forced through | one that goes back is forced by the first stage and may be discarded by the second (`compression.py:400`, `:118`), which compares with a later sample. `Compression_shapes.cfg` with `Settings <- Late` |
| `ScraperPoll!TicksStartOnTime` | `poll.py:11`: a tick that fails is abandoned and the next one starts on time | `retry_backoff_s` is checked against the time left, the fetch that follows it is not (`poll.py:115`), and its timeout is per socket operation. `Scraper_poll.cfg` with `FetchTimes = {4}`, `MaxStops = 0`, `MaxCrashes = 0` |
| `OmfSink!RegistersForCause` | `omf_sink.py:83`: a rejected data message does not mean that types and containers are gone | a message refused because the archive has lost a tag is retried with a registration, for ever (`pipeline.py:215`). `Omf_outages.cfg` with `Settings <- ATagIsGone` |

And limits of properties that hold:

- `ReconstructsWithinCompDev` needs the exception deviation to be half the
  compression deviation, as everywhere in `config/`; with the two equal it fails,
  because a segment of one point is not verified against what stage one withheld.
- `InCustody` of `OmfSink` lets a sample be lost in hand at an exception or a stop, in memory at a kill,
  and out of a full buffer, there with a record. The first is the second disagreement above, the
  stop is the first one, on this sink as on the other. `EverySampleStored` excepts the same.
- `ExcursionsFlagged` is about samples that are inside the lookback when an evaluation takes place
  (`BacklogFlagged` above is about the others), and `SilentTroubleSeen` about a tag whose samples
  came on time.
- `EveryMessageAccounted` ends its claim when the source gives again an id that was left behind
  (`heard.reused`); what goes wrong from there on is `AllAccounted` above.
- It is checked, and proved (`OneTrouble`), for a `connect` that fails
  half-way with the link up (the source refuses a subscription, say) and for a source that restarts or repeats, not for both in one behaviour:
  `disconnect` forgets a subscription before it waits for its `delete()`, and a message that
  arrives between the two puts the id back. When a restarted source uses the id again, its
  first number is held against the old one, as a gap that is none (`data = 2`, `lose = 1`,
  `cut = 1`, `restart = 2`, `halfway = 1`, both tags); and a repeated message that puts the
  id back makes what was counted before it count again (`data = 2`, `lose = 1`, `cut = 1`,
  `repeat = 1`, `halfway = 1`, tag A).
- `Recovers` of `ScraperPoll` lets one tick fail after the database is back: the
  connection kept from before is found dead by the write that uses it, which is
  recorded as `db_error`, and the next tick opens another (`poll.py:225` says that
  the database coming back is the next tick succeeding).
- `PagesStayWhole` says that one rendering of a timestamp is recorded, and it is the
  first: elements that the site fills in later under the same timestamp are not
  (`ON CONFLICT DO NOTHING`), so a time first read half-empty stays so. And an error
  that is not a `FetchError` escapes `poll_once` without a row in the log: the
  silence that `LogAddsUp` lays to a failure (`upset`) includes it.

The view `sample_seq_gap` cannot see the numbers a run lost before its first
archived row. `pipeline.py:23` says it finds every hole,
`016_seq_gap_view_comment.sql` that it does not.

### The abstract specification

`StoreForward` is checked to implement `SampleCustody` (property
`ImplementsCustody`, `Custody == INSTANCE SampleCustody WITH ...`): memory is the
queue and the batch, the buffer and the archive are followed by key, `discarded`
and `gone` are the histories. It is what forbids a sample to vanish *or to come
back*: a key leaves the buffer only archived or discarded, the archive only
takes from memory or buffer, rows are discarded only from a full buffer.

### Fairness

Safety needs none; where a run checks both, its specification has the fairness of
the liveness property.

| module | assumed | why |
|---|---|---|
| `StoreForward` | weak fairness of `Forwarder` | asyncio runs a task whose await is over, and every await of that task ends: the driver has a connect timeout and a broken connection raises. Nothing is assumed of the source or the process: recovery is claimed only while the process keeps running and once the forwarder has reason to reconnect (`_try_recover` is called after a batch has been collected, so a source that falls silent leaves the buffer where it is). `SteadyNext` leaves out connections that break while the archive is up; an endless series of them would leave nothing to recover to. |
| `Alerts` | of each evaluator, and of the clock | both are loops with a sleep. Interruptions are bounded, so that they end. |
| `RigBridge` | of the Arduino task, of a coil write once accepted, of the bridge's loop (`Polls`, one condition for all its steps), of time | `loop` is called for ever; the Modbus task finishes what it began; `poll_once` is called every second, and a rig that does not answer is a failed poll. Nothing is assumed of the bench. |
| `AnalysisCycle` | of the engine and of the clock | `run` catches `psycopg.Error` and sleeps a tick. Nothing is assumed of the archive, which may go away as often and for as long as it will: the safety properties speak of a time in which evaluations have been possible for an interval (`calm`), the liveness property excepts an archive that is away. |
| `Ingress` | of delivery, of the supervisor, and of keep-alives per subscription | messages not lost arrive; a server with nothing to send sends keep-alives. |
| `ScraperPoll` | of the recorder's steps, of the database's return | `run` loops for ever, and every await in it ends: fetches and the driver have timeouts, and a crash is followed by a restart (launchd). A database that stops for good would leave nothing to recover to; the site is bounded in its changes, not made to recover. |
| `OmfSink` | of the forwarder, of new samples, of the restart of what stopped | as `StoreForward`; the collector's own health samples come whatever the plant does; that someone or something starts what has stopped is an assumption of the run, as it is of `docker-compose.yml` (`restart: unless-stopped`) for the archive. |

## 4. What is proved

Thirty-one theorems in seven modules, `tlapm` 1.4.5 with SMT (Z3), Zenon and LS4; `Extrema`
holds lemmas only. Each theorem is about the specification the runs check, for every
value of the constants that satisfies the `ASSUME`s of its module, and but for the
first each states a property of a passing run.

| theorem | property | inductive invariant | further hypotheses |
|---|---|---|---|
| `StoreForwardProofs!TypeCorrect` | (`TypeOK`) | `TypeInv` | |
| `StoreForwardProofs!DrainedFirst` | `LiveOnlyWhenDrained` | `DrainInv` | |
| `StoreForwardProofs!Accounted` | `EverySampleAccounted` | `CustodyInv` | |
| `StoreForwardProofs!FirstWriterStays` | `FirstWriteWins` | `UniqueInv` | |
| `StoreForwardProofs!BufferStaysBounded` | `BufferBounded` | `BoundInv`, `UniqueInv` | |
| `StoreForwardProofs!SafelyForgotten` | `ForgottenOnlyWhenSafe` | `CustodyInv` | |
| `StoreForwardProofs!CollectorImplementsCustody` | `ImplementsCustody` | `MemoryInv`, `CustodyInv`, `UniqueInv` | |
| `StoreForwardProofs!ArchivedInOrder` | `ArchiveInOrder` | `OrderInv`, `DrainInv`, `MemoryInv` | `~ ReadsOvertake` |
| `StoreForwardProofs!LedgerIsExact` | `LedgerExact` | `LedgerInv`, `OrderInv` | `MaxRuns <= 1`, `~ ReadsOvertake` |
| `StoreForwardProofs!HolesExplained` | `HolesAreExplained` | `HolesInv`, `LedgerInv` | `MaxRuns <= 1`, `~ ReadsOvertake` |
| `IngressProofs!MessagesAccounted` | `EveryMessageAccounted` | `Accounted` | `OneTrouble` |
| `IngressProofs!OldestDropped` | `OnlyTheOldestDropped` | `StreamInv` | |
| `IngressProofs!NothingSpecialIsLost` | `Compression!MustKeep` | `CompInv` | (`CompAssumed`) |
| `IngressProofs!SteadyTagsKeepReporting` | `Compression!NoLongGap` | `CompInv` | (`CompAssumed`) |
| `IngressProofs!ArchiveReconstructs` | `Compression!ReconstructsWithinCompDev` | `CompInv` | `Tight`, (`CompAssumed`) |
| `OmfProofs!StoredIsAcquired` | `StoredAsMade` | `InLine`, `InHand` | |
| `OmfProofs!NothingElseIsLost` | `InCustody` | `InLine`, `InHand` | |
| `AlertsProofs!DeliveredMeansMailed` | `DeliveredWasMailed` | `TypeInv` | |
| `AlertsProofs!RacesAreBounded` | `RaceIsBounded` | `RaceInv` | |
| `AlertsProofs!FiresWhenHeld` | `HeldThroughout` | `TypeInv` | |
| `ScraperProofs!NoRetryFiresLate` | `NothingFiresLate` | `ClockInv` | |
| `ScraperProofs!TheLogAddsUp` | `LogAddsUp` | `PendingInv`, `CountInv`, `NoteInv` | |
| `ScraperProofs!WholePagesOnly` | `PagesStayWhole` | `PendingInv`, `WholeInv` | |
| `AnalysisProofs!ResultsPointAtTheirEquation` | `ResultsTraceToEquation` | `Typed` | |
| `AnalysisProofs!NumbersComeOfGoodInputs` | `OnlyGoodGivesANumber` | `Typed`, `Numbers` | |
| `AnalysisProofs!NoExcursionMissed` | `ExcursionsFlagged` | `Typed`, `Seen` | |
| `AnalysisProofs!NoFailureLooksHealthy` | `SilentTroubleSeen` | `Typed`, `Seen` | `RulesAnswerable` |
| `AnalysisProofs!FramesStartAtEdges` | `EventFrames!StartIsAnEdge` | `FramesTyped`, `AllRooted` | (`FramesAssumed`) |
| `RigProofs!FansStartApart` | `StartsStaggered` | `CoilInv` | |
| `RigProofs!AveragesSpanNoFault` | `NoAverageSpansAFault` | `WindowInv`, `PathInv`, `WordsInv` | |
| `RigProofs!ReadingsOnly` | `OnlyReadings` | `ProbeInv`, `PathInv`, `WordsInv` | |

The hypotheses are limits of the claims, not of the proofs; each names a case in which
TLC refutes the property, and the runs that check it take values that satisfy them.

- `~ ReadsOvertake`: a read that overtakes queued notifications numbers a tag's samples
  against their timestamps, so neither the archive nor the ledger is in order then.
- `MaxRuns <= 1`: a second run over the rows of a first one may discard the same key under
  another number (`DiscardedTimeOnRecord` above). Every other theorem about the collector
  holds with overtaking reads and any number of runs.
- `OneTrouble`: no setting combines a `connect` that fails half-way with the link up with a restart of the
  source or a repeated message. A connection that is cut half-way, or a source that restarts then, is
  within the theorem (the limit of `EveryMessageAccounted` above).
- `Tight`: the exception deviation is at most half of the compression deviation, where both are
  configured (the limit of `ReconstructsWithinCompDev` above).
- `RulesAnswerable`: the frozen rule's window is shorter than the history that is read, which
  one configured rule's is not (`SilentTroubleSeen` with `Long` above), and what the stale rule
  waits for is followed by the model for long enough (`For("stale") <= Kept`).

`FramesAssumed`, with `BoundAssumption`, is no limit: it is what `EventFrames` assumes of its constants,
which a theorem about an instance of it has to state. (It stands in `AnalysisProofs` because both are about
the engine. `CompAssumed` is the same for `Compression`, whose instance stands in
`IngressProofs`, about what its samples come from.)

Where there is one lemma per action, it is named for the action; each theorem's last
step only combines the initial, the inductive and the implication step.

**Custody.** `TypeInv` and `CustodyInv` are inductive together: a sample admitted is in
one of the places the promise names. The refinement needs more: a step such as *archived*
is legal only if the sample was in memory, so `MemoryInv` says what the batch and the
queue are at each `pc`, that no key in memory is in another's custody, and what a replayed
batch is. The bound rests on row ids: those of an append are the youngest, and `take` and
the discarding both begin with the oldest. `OrderInv` puts a tag's samples in one line,
buffer before batch before queue before source, each part behind the one before; the
archive takes from the front.

**The ledger.** In one run, numbers and timestamps agree (`Numbered`). The line is then
one by number (`InLine`), and has no hole but where a stop dropped samples (`Unbroken`);
what the bound discards is a stretch from its front, behind every stretch that is on the
ledger already (`OnLedger`), so a record's first and last number and its count describe
exactly what went.

**The holes.** Every number up to a tag's last is a sample's, admitted and still accounted for
(`Complete`), and what a kill took is no older than anything archived (`KilledLast`). So the numbers
missing between two archived neighbours are, unless a stop dropped one, discarded ones, and each is
within a record that reaches into the hole. A finite set covered by finitely many
finite sets has no more elements than they have together (`Extrema!CoverBound`), and that is what
`recorded_as_lost` adds up.

**Message numbers.** `Numbered` says that what is on the wire stands in order behind what was heard of
its subscription, but for repeats, which are known. `Watched` ties the numbers that
`PublishSequence` remembers to those heard of. A number is not held against another
subscription's because ids are not given again (`NoneAgain`), or because
numbers are forgotten before they are, all but those of ids that the session never held
(`AllForgotten`), and with the first of these that is given again the claim ends; which of the two is the difference that
`OneTrouble` makes. `Balanced`, the sum of all counters, changes by the same amount on both sides at every
message.

**Event stream.** Each queue is a stretch of what was emitted since its subscriber came, up to
the newest (`StreamInv`), so what is not in it and was not sent is what was dropped, and that is as
many as the counter says, summed over the subscribers.

**The analysis.** `Typed` says what the tables and the loop's variables hold, over definitions whose
number grows in the middle of a pass. `Founded`, in `Numbers`, says of a result that has a number which reading each of its
inputs was. The two claims about time rest on one invariant, `Seen`: that the last evaluation of
which `calm` says that it must have taken place, g ticks ago, flagged every excursion that was in the archive
and inside the lookback then, and called a stuck tag stuck and a quiet one quiet (`Saw`). A sample that has been here for g ticks
was there to be seen, however old it was when it came; so no bound on outages and no assumption about
other jobs is needed.

**Event frames.** What `detect` finds is told by what it knows on the way (`Knows`): up to scan p, the last
report of the start attribute, whether a lapse has been seen, and that an unbroken stretch of
reports began where the debouncer says. It is kept by every sample (`SampleKnown`), and so by every
scan and window in whatever order the attributes come. The recursive definitions are shown to have a
value, and the claim for all their arguments, by way of a smallest counterexample
(`Extrema!SmallestExists`). A scan read in part differs from the archive in its last scan alone
(`FoundIsRooted`), and neither giving up nor storing moves a start (`AllRooted`).

**Compression.** `Good` says of two samples that they may follow each other in the archive, `Close` that
stage one may have held back what lies between two that it let pass. `CompInv` has every two
neighbours in the archive `Good` and those from the anchor along the open segment `Close`; what is
newer than the anchor is a witness, so the test of a line has seen all there is.
A line that passes this test is good at once. The first point of a segment is archived without it:
there `Close` gives `Good`, for a line from the anchor that ends within `ExcDev` is nowhere farther
than twice that from what is within `ExcDev` of the anchor, and this is where the ratio of the
deadbands (`Tight`) is needed, and nowhere else. A drain is a number of rounds each of which keeps the invariant
or finds the segment empty; the segment's length bounds their number.

**OMF.** The same line with one forwarder fewer: `InHand` says at each `fwd.at` whether
the batch is the front of the line, and that the buffer is empty whenever a live batch is
posted. What is posted, what a full buffer discards and what is lost at the end of a process is always
at the front of the line or beside it; so nothing stored or discarded has something older behind it
that is not gone too. `Accounted` is carried along: each step moves a sample between the places it names.

**Alerts.** Not what has happened is bounded but what has happened *and* what evaluators
may still do: an evaluator between its SELECT and its INSERT is charged for the alert it
may yet raise, one before `deliver` for the mail it may yet send. These sums stay within the
bound at every step, whichever evaluator takes it. `FiresWhenHeld` says of the fetched
rows that the sample in force before the window is among them.

**Scraper.** `PendingInv` says what the open transaction holds at each step: rows of the
page in hand alone, none whose key the table has yet, and with the tables enough to make
the page whole once all three are through. A time has at most one row in a table, so
counting rows is counting tables.

**The rig.** `WindowInv`: the `count` places before the next one hold no scan from before
the last fault; a mean is taken only when these are all places, wherever the next one is.
`CoilInv`: what a coil write in progress has done: the pin lags its flag only at `pin`,
the time of the last start lags only at `stamp`, and between two coil writes the time
that is checked is no earlier than the last start. `ProbeInv`: a first
conversion is in the scratchpad only while the probe is settled on nothing, and has been
read only in the pass that is about to request the next conversion (`Past`). That needs
the order of the steps of `loop` and which of them a pass takes (`PathInv`). `WordsInv`
carries these facts through a reply copied word by word: a status word that was copied last
speaks only of sensors whose words are there.

### Only model-checked

- Liveness: `RecoveryCompletes`, `Settles`, `PointsSettle`, `EveryJobRuns`,
  `GapsSurface`, `EverySampleStored`, `Recovers`, and the eventualities of `DigitalsAgree`.
  The prover has neither `ENABLED` nor fairness.
- `WindowsAddUp` and `OverIsOver` of `EventFrames`: they compare what two windows find, sample by
  sample, within the bounds of the run; beyond them `WindowsAddUp` fails (above).
- The properties of the two runs under "Disagreements" are false.

## 5. What is not modelled, and the plan

Left out, with the reason `PROJECT.json` gives for each: two redundant collectors
(they share the archive's keys only), the collector's health counters, the migrator and
the audit triggers, the plant simulator (the sources of the models are less
constrained than it), scripts around `pg_dump`, presentation (`ui/`,
`api/`), reports and demonstrations (`fat/`, `*_demo.py`, `loadtest.py`).

Inside modelled components: values, units and texts; milestones and summaries of
event frames; KPI equations other than one that divides, one that adds and one
that is broken; what `capacity.collect` measures; the registry heartbeat; statistics of
compression; WiFi joining, serial diagnostics and the bus listing of the firmware;
the structural validation of OMF messages, which the collector's own pass; the
wrap-around of message numbers. One module has one tag, element or rule where several would
share nothing but an order of evaluation. `OmfSink` restates the forwarder rather than
instantiating `StoreForward`, because a post blocks the loop where a write
there has a commit and an answer.

Not proved: of `EventFrames`, the properties that compare windows. To model next: the restart and retention of `sim/server.py`, `archive/migrate.py`.
