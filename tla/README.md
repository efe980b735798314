# Formal models of the wikistream lakehouse

TLA+ models of the pipeline that carries Wikimedia's recent-change stream into
Kafka and from there, through two Spark Structured Streaming queries, into
Iceberg tables, and of what Dagster does with those.  TLC checks the models on
small instances; for every value of the constants TLAPS proves each safety and
action property that a passing run checks.

Every definition is read off the source.  `PROJECT.json` maps each one to the
lines it stands for, lists the runs, the mutant that shows each property can
fail, the hazards of the code, the theorems, and the places where a document
and the code disagree.

## 1. The system

```
 Wikimedia SSE --> producer --> Kafka topic --+--> bronze stream --> bronze.recentchange_raw
  (external)                    (external)    |                              |
                                              |                     rebuild_silver.py
                                              |                              v
                                              +--> silver stream --> silver.edits, silver.quarantine
                                                                             |
                                            Dagster: checks, dbt marts, maintenance
```

### Inventory

| Part | Code | State | Operations | What makes it correct |
|---|---|---|---|---|
| Rules | `events.py`, `quality/expectations.py` | none | first failing rule of a frame, seen at a reference time | the verdict is a function of frame and time only |
| Producer | `sources/wikimedia.py`, `producer/__main__.py`, `producer/kafka_sink.py` | cursor, librdkafka's queue, counters, stop flag, all in memory | connect, read, send, back-pressure, reports, reconnect, stop, flush | a reconnect leaves no gap; nothing handed over vanishes unreported; exit code 0 means all delivered; order within a wiki; a stop ends, unless in a read that does not |
| Producer health | `producer/heartbeat.py`, `config.py` | a file's time stamp | touch, compare | one fault and a silent read leave a process healthy |
| SSE parser, backoff | `sources/sse.py`, `sources/backoff.py` | a frame being collected; an attempt counter | feed a line; end of stream; next delay | what is handed on is a frame or the beginning of one, and a beginning is read again; the server is not hammered and the exponent never overflows |
| Jetstream source | `sources/jetstream.py` | a cursor in microseconds | as the Wikimedia source | as the Wikimedia source |
| Topic | Kafka (external) | three logs, retention 24 h | append, expire | keyed by `meta.domain` |
| Streaming query | Spark (external) as `streaming/kafka_source.py` sets it up | `offsets/N`, `commits/N`, the driver's memory | plan, run, confirm, recover | a range is confirmed only when its rows are in the table |
| Bronze stream | `streaming/bronze.py` | `bronze.recentchange_raw`, epoch stamps | stage files, commit an epoch | each record once, no hole |
| Silver stream | `streaming/silver.py` | `silver.edits`, `silver.quarantine` | `to_candidates`, `deduplicate`, two MERGEs | one row per event, one table per frame, nothing dropped, first arrival wins |
| Rebuild | `scripts/rebuild_silver.py`, `rebuild_from_bronze` | the window being replayed | read bronze, `merge_batch` | leaves no gap; twice is once; keys survive |
| Maintenance | `scripts/maintain_tables.py`, `wikistream_dagster/maintenance.py` | Iceberg snapshots and files | compact, expire, remove orphans | no reader or writer loses rows |
| Duplicate check | `scripts/verify_no_duplicates.py` | none | four queries, an exit code | zero vouches for what was committed before, non-zero points at something real |
| dbt marts | `dbt/` | gold tables | incremental rebuild up to a cutoff, tests | no bucket overcounts, the newest is complete, ranks are contiguous, red tests mean something |
| Dagster | `wikistream_dagster/`, `docker/dagster/dagster.yaml` | a run queue of one | observe, check, build, maintain, monitor | checks mean what they say; each run ends and its failure is reported, unless a living one hangs; one bad table does not stop the others |

How the parts interact: the producer and the streams share only the topic; the
streams share only the topic and never read each other's tables; a rebuild
reads bronze and calls the very `merge_batch` that the silver stream calls;
everything behind that reads committed Iceberg snapshots.  Dagster starts dbt,
which reads the silver tables and writes the gold ones, and only ever observes
topic, bronze and silver.

What is hard:

* *At least once, twice over.*  Spark repeats a micro-batch whose commit entry
  is missing; bronze answers with the epoch stamp in the snapshot, silver with
  MERGE keys.  Both must hold for a crash between any two steps.
* *Two commits, no transaction.*  `merge_batch` commits silver.edits, then
  silver.quarantine.
* *A verdict that depends on time.*  `event_time_in_future` compares with the
  time of ingest, and a record may be judged again: by a replay, after a
  checkpoint loss, by a rebuild.
* *Nothing enforces one writer.*  An orphaned driver (runbook entry 12) or a
  rebuild can run next to the stream.
* *Retention behind the reader.*  `failOnDataLoss=false`.
* *State that dies with the producer*, and a send buffer which only fills up
  when nobody serves delivery reports.
* *A loop that looks at the world only when a frame arrives*: the heartbeat, the
  stop flag and the cursor all hang on it, while a connection can be silent,
  send keep-alives, or end in the middle of a frame.
* *A cutoff on a time stamp*: dbt reads the rows ingested before the build
  started, but a row is stamped when its batch is planned and seen when it
  commits.
* *Checks that are read while the tables change*: a red or green verdict is an
  inference, and what it is worth depends on what else can give it.

The full list, each at its line, is `hazards` in `PROJECT.json`.

## 2. The modules

| Module | Models | Role |
|---|---|---|
| `Frames` | a frame and the seven rules | pure operators |
| `Topic` | the logs, retention, the clock | external component, extended by all readers |
| `StreamingQuery` | checkpoint and drivers of one query | base of both streams |
| `MergeBatch` | the silver tables and `merge_batch` for any set of writers | base of silver and rebuild |
| `SilverStream` | `StreamingQuery` + `MergeBatch` | the silver query |
| `SilverContract` | what the silver tables promise | abstract specification of `SilverStream` |
| `BronzeStream` | `StreamingQuery` + the Iceberg sink | the bronze query |
| `Lakehouse` | `SilverStream` + an instance of `BronzeStream` + the rebuild | composition |
| `BronzeMaintenance` | `BronzeStream` + the files and snapshots of the table + `make maintain` | composition |
| `Producer` | source, sink, `main`, restarts, without time | implements what `Topic` says of the log |
| `EventSource` | parser, both sources' loops, backoff, heartbeat, stop, against the clock | what `Producer` takes as one step |
| `BronzeChecks` | the contiguity check over `BronzeStream` | state functions |
| `SilverChecks` | freshness, quarantine rate and reasons over `SilverStream` | state functions |
| `SilverGate` | `verify_no_duplicates.py` next to `SilverStream` | composition |
| `Observation` | the data versions of topic and bronze over `BronzeMaintenance` | state functions |
| `Marts` | silver as dbt sees it, the three kinds of mart, one build, its tests | base of `Dagster` |
| `Dagster` | run queue, jobs, monitoring, sensor, gold maintenance around `Marts` | composition |
| `MC_*` | frames, partitions and hashes for TLC | model values |
| `*_proofs` | theorems | see section 5 |

### How state and actions correspond

**Frames.**  A frame keeps `parsed`, `id`, `dt` and `domain`: the fields that a
rule, a key or the partitioner reads.  `Verdict(f, reference)` is
`failure_reason`, with SQL's treatment of a NULL comparison in rules 6 and 7.

**StreamingQuery.**  `plan` is the newest entry of `<checkpoint>/offsets`
(range and the timestamp Spark records with it), `committed` the newest number
in `commits`.  `running[d]` and `current[d]` are the memory of driver `d`.
`StartDriver` recovers an unconfirmed entry; `PlanBatch` writes the next one, or
dies when another driver wrote first; `BeginBatch` hands it to the sink;
`CommitBatch` writes `commits/N`, or dies; `CrashDriver` can take a driver
anywhere; `DeleteCheckpoint` is runbook entry 6.  Batches count from 1 instead
of 0.  `ReadRange` gives the records with the time of the *entry*, skipping
what expired.

**MergeBatch.**  `merge[w]` is the position of writer `w`: each MERGE is a scan
(the anti-join, against the snapshot current at its start) and an append,
because a MERGE with only a `WHEN NOT MATCHED` clause is run that way; the
append snapshots listed in `docs/correctness.md` show it.  A row carries the number of
its snapshot so that a duplicate is a second row of the set.  `FirstPerKey` is
`row_number() OVER (PARTITION BY key ORDER BY partition, offset) = 1`, with a
free choice among copies of one Kafka record, which bronze can hold.

**SilverStream.**  `RunBatch` is the call of `merge_batch` by `foreachBatch`,
`Merge` its four steps, `Commit` its return and the commit entry.

**BronzeStream.**  `staged[d]` are data files without a snapshot, invisible to
readers.  `LookUpEpoch` asks for the last epoch this query has stamped on the table,
and a driver that finds its own there is done.  `CommitEpoch` appends the files
later, in one snapshot stamped (query id, epoch): two steps, as in the sink, so
that two drivers can both look, and then both append.  A crash forgets what was
looked up.  The query id lives in the checkpoint, so `losses` numbers it.

**Lakehouse.**  `window` is the range of ingest dates and the bronze snapshot a
rebuild reads.  `overlapped` records whether a rebuild ever ran while the silver
stream did.  A rebuild may be killed anywhere.

**BronzeMaintenance.**  `objects` are the data files in the store, `history` the
snapshots that are not expired, `pending[d]` what driver `d` has written and not
committed.  `StageFile`, `AddSnapshot` and `Release` are the steps of
`BronzeStream` with their effect on the files.  `upkeep.step` walks through
`maintain`: the row count, `rewrite_data_files` in two steps (it reads the files of
one snapshot and replaces them in a later one), `rewrite_manifests`,
`expire_snapshots`, `remove_orphan_files` in two (it reads the metadata, then
deletes), the row count again and the verdict of `maintain_all`.  Both cutoffs are
measured from `upkeep.started`.  After an expiry `lastStamp` is what a look back
through the snapshots that are left finds (`NewestStamp`).  The table has one partition, which is what a compaction
merges.

**Producer.**  A frame is its index in the feed, which is also its SSE id.  `pc`
is the main thread; `BrokerAppend`, `Acknowledge` and `DeliveryTimeout` are
librdkafka's thread; `Signal` only sets `stop`.  The cursor moves in `ReadFrame`,
before `Send`; `ResumeAt` lets the server start at or before `Last-Event-ID`
and at the tip without one.  `Room` counts reports nobody has served, as
librdkafka does, so that a full buffer is left only through `poll`.
`SendRaises` is a `produce` that fails with anything but a full buffer: the
exception leaves `run`, and the process ends through its closing flush.  Two
variables (`handed`, `failures`) are history that the properties speak of and no
guard reads.

**EventSource.**  The same main thread, one step for each line of the response
and one for each tick.  `conn` is the next line on the wire: of a Wikimedia
frame its id, two parts of its data and the blank line, of Jetstream a message.
`parser` is the buffer and the id of `parse_sse_lines`; `StreamEnds` is a clean
end, which yields what is buffered, `Fault` every way a connection is refused or
breaks, which does not.  `pc` says what the thread waits in, `timer` how long,
and `Tick` waits for nobody whose timeout is due; a Jetstream connection has no
read timeout.  `beat` is the age of the heartbeat file, `report` the time to
`next_report`.  `Handle` is the body of the loop over frames, with the sink as
one step that takes no time.  `last`, `whole`, `first`, `quiet` and `asked` are
history.

**The checks and observations.**  Each asset check is one query and sees one
snapshot, so it is a state function, evaluated in every state of the stream it
reads.  The observation of `lakehouse.py:90-94` is several queries; a version is
compared only with an earlier one of the same table, so they too are taken one
by one.  `SilverGate` is a process: `gate.step` is the query it has reached,
and the stream commits in between.

**Marts.**  `silver` is silver.edits in the order rows became visible, `batch`
the one row that is planned, with its `ingested_at`, and not yet committed.
`build.todo` holds the statements of the dbt process that are left; dbt's four
threads run them in any order that respects `ref()`.  `MergeMinute` is the merge
strategy, `SelectTop`, `DeleteTop` and `InsertTop` the three statements of
delete+insert, `RebuildDim` a table.  `ModelFails` is a statement that raises: it has
written nothing, the rest of its model is not run, the other models go on.  Page 0
is `Untitled`, an edit without a `page_title`, which `mart_top_pages_hourly` leaves
out.  `Red` are the tests that fail, of those that read no failed model; the
others are skipped.

**Dagster.**  `runs` is the run storage.  `Launch` gives the one slot to the
oldest queued run, `Monitor` is run monitoring, `log_run_failures` the sensor.
`Build`, `Observe` and `gold_table_maintenance` are steps of the run process,
`Kill` the OOM killer.  A build with a failed model or a red test fails its run; a
red asset check does not fail the run that made it.

## 3. The runs

| Run | Question | Result |
|---|---|---|
| `MC_SilverStream` | Do the silver tables keep all their promises with one driver, and what do the quarantine checks say of them? | holds; refines `SilverContract` |
| `MC_SilverOrphan` | What survives a second driver on the same checkpoint, and what are the duplicate gate and the freshness check worth next to it? | the checkpoint, and that every record gets there; a verdict of gate or check is true of the time it speaks of |
| `MC_SilverOrphanDuplicates` | And the key of silver.edits? | violated: both drivers scan, then both append |
| `MC_BronzeStream` | With one driver, does bronze hold what Kafka has, once, without a hole, eventually, and what does the contiguity check show? | holds |
| `MC_Rebuild` | Does a rebuild close the gaps, change nothing when repeated, and keep the keys? | holds; keys only without an overlap |
| `MC_RebuildVerdict` | Does a frame stay in exactly one table across a rebuild? | violated: bronze's ingest time is not silver's |
| `MC_Producer` | Counters, losses, exit code, order within a wiki, effect on the topic, and does a stop end, unless in a read that never does? | holds |
| `MC_EventSource` | Do parser, reconnect and backoff lose, truncate or hammer; when is the process healthy, and when does it notice a stop? | holds |
| `MC_Heartbeat` | Is a process that reconnects through an outage healthy? | violated: only a frame writes the heartbeat |
| `MC_BronzeMaintenance` | Does maintenance next to the running stream lose or repeat a row, delete a file somebody needs, or change a data version for nothing? | no |
| `MC_Gold` | What do the marts hold between and after the statements of builds that fail or are killed, what does a red build mean, does the maintenance loop go on, does the queue empty unless a living run hangs? | holds |
| `MC_MartsDrop` | Does the next build pick up what a cutoff left out? | violated: the filter is on the newest bucket the mart has |

The four violated properties are findings.  Each states what a document of the
repository says, and the trace shows what the code does:

1. `docs/runbook.md:654` says of an orphaned stream that there is nothing to
   repair.  Two drivers can leave two rows of one event.
2. `docs/correctness.md:419` says that every frame lands in exactly one table,
   and `quality/expectations.py:239` that a rebuild reaches the live verdict.
   A rebuild uses bronze's `ingested_at`, stamped by another query.
3. `producer/heartbeat.py:14` lists an upstream that is quiet while the loop
   reconnects as not detected, by design.  The heartbeat is written only in
   the loop over frames, so a few failed connections make the process unhealthy.
4. `dbt/macros/run_cutoff.sql:31-33` says that nothing is dropped, because the
   boundary bucket is recomputed.  An edit that a cutoff leaves out and whose
   bucket is older than the newest one of the mart is never counted.

Met while modelling, and not worth a run of their own:

* A restarted producer resumes at the tip: `producer/kafka_sink.py:16` says that a
  new session sends again what the old one did not see acknowledged.  The cursor
  is in memory only, as `docs/correctness.md:186` has it.
* `make maintain` fails when a stream commits between its two row counts, and
  then says that something deleted live data (`scripts/maintain_tables.py:176`).
* After a loss of the checkpoint records are judged again, at another time, and
  `docs/runbook.md:374` says that silver.edits stays as it was.
* An event whose clock is ahead by less than the tolerance of an hour moves the
  newest bucket of the minute mart into the future, and edits of the buckets
  before it are behind the filter until then.  It also keeps
  `silver_edits_are_fresh` green for that much longer, which is why
  `FreshMeansRunning` has the tolerance in it.
* In a fresh deployment that starts after the canaries of an hour were emitted,
  the first complete hour has traffic and none of them: the canary check is red.
* A dbt process whose Dagster run was killed dies with it in the model.  If it
  survived, two builds could write the same mart.
* Nothing bounds a run of Dagster that lives.  `query_timeout_seconds`
  (`resources.py:74`) is the Trino client's timeout of one HTTP request, the dbt
  profile has none, and run monitoring has no `max_runtime`: a run that
  hangs keeps the only slot.
* Nothing bounds the producer's wait for a frame after a stop: keep-alives start
  the read timeout anew, and Jetstream has none.  The 20 seconds of
  `stop_grace_period` are in no model.

### Bounds

All bounds are constants in the guards, named in the modules.

* **Records.**  Two per partition (`MaxLog`), so that one event can arrive
  twice, in one micro-batch or in two, on one partition or on both, with a
  frame that has no key.  `MAX_OFFSETS_PER_TRIGGER` is 2: with four records a
  batch is cut in different ways.  In `MC_Rebuild` it is 1: there the batch that
  matters is the rebuild's own, which is as long as its window.
* **Frames.**  In the silver runs: an ordinary edit, one with the same id whose
  clock is ahead (its verdict changes with `clock`), and one that is not JSON.
  The rules between these differ only in the reason they give.  Bronze never
  looks at a verdict: two frames.
* **Clock.**  One tick is enough for a verdict to change; in `MC_Rebuild` a
  tick is a day, so that a window can leave a day out.
* **Crashes and losses.**  Two crashes in `MC_SilverStream`, so that a replay
  can crash as well, and in `MC_BronzeStream`; one in `MC_SilverOrphan` and in the
  maintenance run.  One checkpoint loss.  One bronze checkpoint loss in `MC_Rebuild` is what puts a record into bronze twice.
* **Drivers.**  One, or two for the orphan, on one partition.
* **Rebuilds.**  Two, so that the second can cover the window of the first, or
  be the retry of a killed one.
* **Maintenance.**  Two runs, so that one can be killed or be under way at a commit
  and the next find its leavings.  Three records in batches of one: two files can
  be compacted before the newest epoch.  `RETAIN_LAST_SNAPSHOTS` and
  `MIN_INPUT_FILES` have the code's values, 5 and 2.  The floor of 5 is tight:
  behind the newest stamp there can be the replace and the manifest rewrite of a
  run that was under way, and those of one run more; with 4 a replay appends
  its epoch again.  One tick is longer than either age, so that what is of an
  earlier tick is old; a commit takes less (`CommitTime`), which is what the three
  days of `--orphan-age-hours` are for.  Retention and the loss of the checkpoint
  are left to `MC_BronzeStream`.
* **Bronze stream.**  One partition with a log of four: a hole, a record written
  twice and a sound rest need three records at least.  Nothing in `bronze.py`
  relates partitions but the batch bound and the epoch number; how a
  range is cut over two partitions is `StreamingQuery`, which `MC_SilverStream`
  runs on two.  `MaxExpired` is 2, so that a hole can be two records wide.
* **Gate and checks.**  `MC_SilverOrphan` has no tolerance, so that the record
  that is too early by a tick decides both on its verdict and on the freshness.
  A batch holds two records, so the rate that warns is 400 in a thousand: above
  the rate of none refused and below that of one.  The lookback is 0 ticks and
  the clock has one, so that rows do leave it.
* **Producer.**  Three frames and a buffer of two: the buffer fills up.  One
  reconnect, two processes.  All frames have a key; a frame without one can go to
  any partition, and nothing is promised of its order.
* **Source.**  A tick is 20 s.  With durations rounded up, connecting may take 1
  tick, a read 3, a delay 1 to 3, the flush 2; a report is due after 1 and the
  health check gives up after 9.  So the proportions are those of `config.py`,
  and two silent reads and a delay come close to the 9.  Two frames of four
  lines, four failures in a row, so that the backoff passes its cap; the largest
  exponent a float stands is 2 instead of 1023, the most the clamp allows
  here.
* **Gold.**  Two runs of any job, two rows, three buckets: a row can arrive late
  by a bucket, be planned before a build and committed in it, and be
  met by a second build after a first one that was killed or failed.  `top_n` is 1,
  and one wiki has two pages, so a page can push out another; the other has edits
  without a title only, so a mart can be empty by right.  One statement fails.

`CHECK_DEADLOCK FALSE`: with the counters at their bounds the models stop.

### Fairness

* **Streams** (`FairSpec` of `SilverStream`, `BronzeStream`): weak fairness of
  the steps of each driver.  The query runs on by itself; that a dead one is
  started again is an operator's doing (`scripts/stream.sh` runs it in the
  foreground) and is assumed.  Crashes are finite in number; retention and
  publishing owe nothing.  The liveness properties therefore say "or expires
  first".
* **Producer** (`FairSpec`): weak fairness of librdkafka's thread and of the main
  thread, *except in a read*.  Its other waits are bounded: the handshake has a
  timeout, the backoff waits on the stop event, `poll(0.5)` and `flush(timeout)`
  return.  A read is not: keep-alives start its timeout anew, and a Jetstream
  connection has none.  So `StopEnds` says that a process asked to stop goes down,
  or reads for ever; `EventSource` has no fairness and bounds the time of what
  does end (`StopNoticed`: one read more for each sign of life, Wikimedia
  only).  Acknowledgements are not assumed: under `DeliveryTimeout` a record may
  leave the queue unanswered.  No restart is assumed.
* **Dagster** (`FairSpec`): weak fairness of the daemon's loops only: launching,
  monitoring, the sensor.  The steps of a run are not fair, since nothing bounds
  a statement, so `EveryRunAccountedFor` says that the queue empties again and again
  with each failure reported, or a living run holds the slot for ever.  Schedules
  owe nothing, kills and faults are finite in number.

## 4. Properties and mutants

Every property of a passing run has a mutant: a one-definition change a plausible
bug would make (a MERGE turned into an append, `ORDER BY ... DESC`, an epoch
compared without its query id, `sleep` for `poll`, ...), stated next to the
definition it replaces, under which TLC finds that property violated.  Mutants
are never part of a specification.

## 5. The proofs

Every invariant and every action property of the passing runs is a theorem, and so
is the type invariant of each component.  A `*_proofs` module extends the module it is
about; `StreamingQuery_proofs` holds what both streams rest on.

| Module | Theorems | State |
|---|---|---|
| `SilverStream_proofs` | `InvAlways`, `TypeCorrect` | the inductive invariant, `TypeOK` |
| | `NothingIsSkipped`, `CheckpointHealthy` | `NothingSkipped`, `OffsetsAtMostOneAhead` |
| | `ExactlyOneTableAlways`, `FirstArrivalAlwaysWins` | `ExactlyOneTable`, `FirstArrivalWins` |
| | `EditsAreUnique`, `QuarantineIsUnique` (1) | the two keys |
| | `StreamMeetsContract` (1) | `SilverStream` implements `SilverContract` |
| | `FreshAlwaysMeansRunning`, `QuarantineChecksAlwaysHold` (1) | `FreshMeansRunning`, `QuarantineChecksHold` |
| | `GateIsAlwaysExact` | `GateIsExact` |
| `BronzeStream_proofs` | `BronzeTypeCorrect`, `BronzeNoHole`, `BronzeHoldsWhatKafkaHas` | `TypeOK`, `NoHole`, `HoldsWhatKafkaHas` |
| | `BronzeAppendedOnce`, `BronzeContiguityVerdict` (1) | `AppendedOnce`, `ContiguityVerdict` |
| `Lakehouse_proofs` | `BronzeUndisturbed`, `LakehouseTypeCorrect` | the composition implements `BronzeStream`; types |
| | `RebuildNeverLeavesGap`, `RebuildIsIdempotent`, `NothingSkippedUnderRebuild` | `RebuildLeavesNoGap`, `RebuildTwiceChangesNothing`, `NothingSkipped` |
| | `KeysSurviveRebuild` (1) | `RebuildKeepsKeys` |
| | `LakehouseMeetsContract` (1) | `SilverContract`, step by step, while no rebuild meets the stream |
| `BronzeMaintenance_proofs` | `MaintenanceTypeCorrect`, `LiveFilesAlwaysExist` | types, `LiveFilesExist` |
| | `AppendedOnceThroughExpiry`, `ContentsAlwaysKept`, `VersionsAlwaysTellGrowth` (1, 2) | `AppendedOnce`, `ContentsKept`, `VersionsTellGrowth` |
| | `MaintenanceUnnoticed` (2) | the maintained table implements `BronzeStream` |
| `Producer_proofs` | `ProducerTypeCorrect`, `InFlightAlwaysTrue`, `NothingEverVanishes`, `ExitZeroAlwaysMeansDelivered`, `WikiOrderAlways` | the producer's invariants |
| | `ProducerFeedsTheTopic` | `Producer` implements what `Topic` says of the log |
| `EventSource_proofs` | `SourceTypeCorrect`, `FramesAlwaysOfTheFeed`, `NoFrameEverLost`, `NeverHammered`, `StopAlwaysNoticed` | the source's properties |
| | `EndsOnlyEverOnPurpose` (3), `AlwaysHealthyThroughOneFault` (4) | `EndsOnlyOnPurpose`, `HealthyThroughOneFault` |
| `Dagster_proofs` | `GoldTypeCorrect`, `MinuteNeverEverOvercounts`, `RanksAlwaysContiguous` | types, `MinuteNeverOvercounts`, `RanksContiguous` |
| | `RedOnlyForStragglers`, `NewestBucketAlwaysExact`, `MaintenanceAlwaysDoesTheRest` | `BuildRedMeansStraggler`, `NewestBucketExact`, `MaintenanceDoesTheRest` |

All hold for any constants that satisfy the modules' `ASSUME`s, which TLC evaluates
on each run.  Some have a hypothesis besides:

1. `OneDriver`: at most one driver.  `MC_SilverOrphanDuplicates` shows that the
   keys of silver need it; that nobody else calls `merge_batch` is an invariant of
   the stream.  Bronze needs it for `AppendedOnce`, since the sink looks for the
   epoch in one step and appends in another: two drivers on one entry can look, and
   then both append.  `NoHole` and `HoldsWhatKafkaHas` hold for any number.
2. `FloorCoversUpkeep`: `RETAIN_LAST_SNAPSHOTS >= 5`, which is the value in
   `maintenance.py`.
3. `CapWithinFloats`: the backoff's cap is reached by an exponent that a float
   holds; with the defaults (1 s, 60 s) it is 6, and 1023 is the most.
4. `HealthCheckLeavesRoom`: a report interval, two read timeouts, the first
   delay and a handshake fit in `HeartbeatTimeout`: 10 + 2 * 60 + 1 + 10 seconds
   and 180 with the defaults.

`SilverStream_proofs` also proves the gate for any number of drivers, since a
duplicate it may find needs two of them.

### The arguments

**Checkpoint** (`CheckpointInv`).  `plan` is at most one ahead of `committed`; what a
driver works from is the current entry, or an older one that is confirmed;
ranges are well ordered.  This is what put-if-absent buys, and why the number
of drivers does not matter.

**Silver** (`Inv`).  `NothingSkipped` is not inductive: it says nothing of the batch
in flight.  `MergeInv` adds what a writer's position in `merge_batch` tells of
the tables: behind the edits append each valid candidate of its batch has its event
id in silver.edits, behind the second each failed one is in quarantine.  Tables
only grow, so other writers cannot undo it.  `BatchOf` adds that a writing
driver merges the records of the entry it works from, all that are left of
them.  `commits/N` is written at "return", where the whole range is accounted
for.  The keys need `UniqueInv`: with one writer nothing can append
between its scan and its append.

`ExactlyOneTable` and `FirstArrivalWins` need more: while no checkpoint is lost
a record belongs to one planned range, whose recorded time fixes its verdict, so
all its copies agree (`VerdictInv`).  `ArrivalInv` then says of each row in
silver.edits, and of each row in a batch being merged, that the earlier records
of its partition with its id were refused: those in older ranges because
they are confirmed, those in its own range because `deduplicate` takes the
first.

**The silver checks and the gate.**  Freshness follows from a row's times:
rule 6 bounds how far the event's own clock can be ahead of the ingest.  The
quarantine rate is an inequality of cardinalities: edits and quarantine share
no record, and each refused record of the batch has its own row.  For that the tables
must be finite (`FiniteInv`), which nothing else needs to know: the
`Cardinality` of an infinite set says nothing.  The gate's queries see different
snapshots; `GateInv` says that a duplicate there at the start is found or still
to be found, and that what failed so far is a duplicate, which stays true because
the tables only grow.

**Bronze** (`BronzeInv`, `OnceInv`).  `BronzeInv`, for any number of drivers: below
the range of the newest entry the table has all that Kafka has, and of the range
too once its epoch is stamped; `NoHole` is part of it.  `OnceInv`, for one: no
stamp is ahead of the plan, a confirmed epoch is known, and of the newest range the
table has all or nothing, which the stamp and what the driver found in it
tell; `AppendedOnce` follows.  The verdict of the
contiguity check is a count: rows that differ in their offsets, all between `lo`
and `hi`, number `hi - lo + 1` exactly if none is missing.

**Both streams and the rebuild.**  `Lakehouse` instantiates `BronzeStream` under new
names, and the proofs about bronze are those of the module.  `Lakehouse_proofs`
instantiates `BronzeStream_proofs` with the same substitution, shows that each
of the composition's steps is a step of bronze or a stutter
(`BronzeUndisturbed`), and cites the lemmas.  `LakehouseInv` adds that a
rebuild's batch is what its window holds, so `MergeInv` at "return" closes the
gaps, and they stay closed.  `KeysInv` says that a rebuild and the stream exclude
each other while nothing has overlapped, so that there is one writer, for which every
step of `merge_batch` is one of `SilverContract`.

**Maintenance.**  Three invariants, each on top of the one before.  `FileInv`: a
referenced file exists; what is in flight belongs to one driver and is younger than
a commit takes; what a run listed as referenced, or is younger than its cutoff,
covers what is referenced when it deletes.  `StampInv`: expiry never takes the
stamp of the newest append.  There is a bound on what can pile up behind it:
`FewSince` counts the snapshots since, against what there is left to rewrite (a replace
that was under way, a manifest rewrite, the replace that leaves one file, a last
manifest rewrite, then nothing).  That is four, hence a floor of five.
`TableFiles`: the current files hold the rows of `bronze`, each once, since a
replace swaps the files it read for one with their rows while appends go by.
`MaintenanceUnnoticed` follows from `StampInv`, for any number of drivers and with no
mapping: an expiry leaves `lastStamp` as it is, so every step is one of
`BronzeStream` or a stutter.

**Producer** (`ProducerInv`).  A frame is followed from the cursor through
librdkafka's queue into the topic.  `OrderInv` is the order of all three, before
the first reconnect.  `FeedsTheTopic` bounds the log, and needs a count: a
connection delivers a frame at most once, so what was handed over is bounded by the
connections so far and the position in this one (`CountInv`).

**Source.**  Each of `HealthInv`, `HammerInv`, `StopInv` adds up the time that
can have passed, by where the loop is and how long it has been there.  The
schedule's sum is a function on the naturals, and what it takes is its
recursion equation, from the existence of a least number without one.
`LossInv` ties the frames handed over to the cursor.  A first form of
`NoFrameLost` was refuted by the attempt: a Jetstream message without a time stamp
leaves the cursor where it was, so the first frame that counts (`first`) is the
first that had a cursor.

**Marts and Dagster.**  A build dies between any two statements, so the invariants
hold at each of them.  `GoldInv`: a bucket claims no more events than there
are; edits only arrive, and a statement counts over a subset of them.
Ranks come from a strict total order of the finite set of pages, which numbers it
1..n; `top_n` cuts off the end.  `BuildInv`: a gold row goes back to an edit below
its cutoff (`Backed`), and each model that is through has covered what the
build could see, unless it failed: every wiki, the newest bucket, and a first rank
wherever there was a titled edit, for which `top_n` must be positive.  A failed model
covers nothing, but the tests that read it are skipped.  Then of the modelled
tests only the relationship to `dim_wikis` can fail, and only for a row the build
could not see.
`GoldUpkeepInv` is the loop of `maintain_gold`: each table behind it was compacted
or has failed.

### What the proofs asked of the models

Counts are cardinalities instead of folds (`RowCount` of disjoint copies,
`Expected`), which have theorems.  `MartsAssumption` says that an
edited page is a pair, that there are finitely many of them and that `top_n` is positive;
`mart_top_pages_hourly.sql:48` sets it to 10.  `NoFrameLost` got the form above.

### Only model-checked

The liveness properties `EventuallyAccounted`, `EventuallyInBronze`, `StopEnds` and
`EveryRunAccountedFor`: fairness puts them out of the prover's reach, and `ENABLED`
with it.  The four expected violations, which are single traces.

## 6. Not modelled, and the plan

Left out, with the reason:

* Payload columns that nothing decides on, DDL text, the parse schema, logging.
* `scripts/` that read and print (`table_stats.py`, `query_duckdb.py`,
  `spark_sql.py`, `analyse_partitioning.py`, `check_doc_links.py`), measure
  (`measure_source_lag.py`, `smoke_live.py`) or run once against a scratch table
  (`prove_schema_evolution.py`, `capture_fixture.py`): no state of the pipeline.
* Configuration, and the deployment files except where they fix an assumption
  (the restart policy, retention, the stop grace period, one Dagster run at a
  time).
* The two marts whose strategy is that of another one, measures other than the
  count of events, and the generic dbt tests on columns and sources.
  `BuildRedMeansStraggler` speaks of the tests in `Tests`: the grain, the
  overcount, the ranks, the relationships.  `unique` on silver's `event_id`, which
  an orphaned driver can turn red, is outside.
* The instant in which dbt-trino, swapping a table, has renamed the old one and not
  yet the new one.
* `--once` (the `AvailableNow` trigger) of the streams: they run on until they
  crash.
* Exceptions of the producer's sink inside `EventSource`, whose `EndsOnlyOnPurpose` is
  about connections, and a heartbeat file that cannot be written.
* Maintenance of the silver tables, which the same run does after bronze by the
  same four procedures.  Their writers keep no epoch stamps, which is what
  the bronze run is about.
* The canary check: it needs the hours of silver.edits and the schedule of the
  canaries next to the producer's restarts.
* The metadata of observations, and the claim of ADR-0046 that the set of rows
  of a build is closed, beyond what `BuildRedMeansStraggler` says of it.

The plan, the most important first.  Done are steps 1 to 12.

1. `Frames`, `Topic`, `StreamingQuery`, `MergeBatch`, `SilverStream`.
2. `SilverContract` and the refinement.
3. `BronzeStream`.
4. `Lakehouse`: both streams and the rebuild.
5. `Producer`, and that it does to the topic what `Topic` says.
6. Proofs of the silver stream.
7. `BronzeMaintenance`: `make maintain` next to the bronze stream.
8. `Marts`: a dbt run over the silver tables.
9. `EventSource`: both sources in time, with parser, backoff, heartbeat and stop.
10. `BronzeChecks`, `SilverChecks`, `Observation`, `SilverGate`: what the verdicts of
    the checks are worth.
11. `Dagster`: the queue, the jobs, monitoring, gold maintenance.
12. Proofs of all the others.
13. Maintenance of the silver tables; the canary check.

A theorem that would add to these: that `EventSource` implements the steps
`Producer` takes of it.  The two name the feed's frames differently (lines there,
indices here), so it needs a mapping of the connection's position.
