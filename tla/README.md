# TLA+ verification of ModelWatcher

ModelWatcher watches LLM APIs: a scheduler runs four kinds of tests against
every configured model, results are recorded in memory and in SQLite, browsers
get them over a WebSocket, and subscribers get notifications. The whole backend
is one asyncio event loop, plus worker threads (`asyncio.to_thread`) for SQLite.
This directory holds models of its control, the TLC runs that check them on
small instances, and proofs for every instance.

Run everything from this directory: `tlc -config X.cfg MCModule` for a run,
`tlapm XProofs.tla` for the proofs. `PROJECT.json` names each run's module,
maps every definition to the lines it models, and lists the mutants each
property was tested against.

Contents: 1 inventory, 2 plan, 3 modules, 4 runs with bounds and fairness, 5
proofs, 6 where the code differs from what it says, 7 what is not modelled.

## 1. Inventory

Within the event loop, code between two `await`s is atomic: that is the grain
of the actions. Worker threads and the database lock add real parallelism.

| Part | State it keeps | Operations | Talks to |
|---|---|---|---|
| Scheduler (`scheduler.py` 456-970) | `running_health/tests/probe/audit`, `_test_events`, the two semaphores, the wake event | `scheduler`, `_dispatch_due`, `_next_due_in`, `_stagger_next_provider` | creates test tasks; woken by their end and by reloads |
| Test execution (`scheduler.py` 278-454) | per test: permits, attempt; `testing` flags and `_pending_retry` of `model_cache` | `run_test`, `_run_test_managed`, `run_probe_test`, `run_audit_test` | streaming client, recording, broadcast |
| Streaming client (`streaming.py`) | one SSE stream: first token, chunks, usage, outcome | `stream_test`, the two parsers, `compute_stream_metrics` | providers |
| Recording (`db.py` 1542-1851) | `model_cache` entry: status, counters, `degraded_since`, recent history | `record_result_async`, `record_retry_async`, `reconcile_model_state`, pruning | write batcher, statistics, caches |
| Write batcher (`batch.py`, `db.py` 1612-1715) | the buffer, the flush task, the open transaction | `add_batch`, `flush`, `_flush_loop`, `_flush_batch`, `stop` | the shared write connection |
| Archiving (`scheduler.py` 480-563, `config.py` 838-910) | `_archived_model_keys`, `model_state.archived/archived_by` | `apply_auto_archive`, `apply_db_changes`, `set_archived` | scheduler (skips archived models), recording |
| Configuration (`config.py`) | `st.c`, registry, semaphores | `reload_config`, `config_watcher`, `apply_reset_epochs` | everything |
| Broadcast batcher, notifications | results pending per model, cooldowns, degradation state | `add`, `flush`, `notify_status_change`, `notify_registry_changes` | WebSocket manager, push service |
| WebSocket manager (`websocket.py`) | connections and preferences | `connect`, `broadcast`, `close_all` | browsers |
| Push (`push_routes.py`, `db_push.py`) | subscriptions, their cache | subscribe, unsubscribe, update, test | notifications |
| Routes, caches, middleware | metrics cache and ETag, connection count | HTTP handlers | reads `model_cache` and SQLite |
| Model info, favicons, probes, audits | caches of fetched data, single-flight tasks | fetch loops, `run_probe`, the audit subprocess | providers |
| Statistics (`stats.py`) | none | uptime, trends, reliability, aggregation | called by recording and routes |
| Browser client (`frontend/js`) | its copy of the models, socket state | reconnect, poll, merge, notify | HTTP, WebSocket |
| Startup and shutdown (`main.py`) | none of its own | `_startup`, `_shutdown` | all |

**What is hard.** The running sets are written by the dispatcher and by the
tasks it starts; a reload replaces the semaphores under tests that hold their
permits; several writers share one SQLite connection without rollbacks; a flush
runs in a thread that outlives its cancelled task; archiving and reloading both
read a snapshot, await, and write; startup rebuilds what the running program
derived step by step; notifications are coalesced and rate-limited; browsers
merge updates into snapshots of another time.

**What makes each part correct.**

* Scheduler: one test per model, limits respected, only health checks for
  offline models, one provider at a time when staggering, and every due test
  started eventually - without the loop ever spinning.
* Batcher: no result lost while the process runs, each durable at last, each
  stored once, a result and its model state durable together.
* Archiving: what memory says is what the database says; `models.yaml` wins over
  automatic archiving; every outage that lasts leads to an archive.
* Recording: incremental counters and status agree with what reconciliation
  derives from the rows; a health check never clears what a benchmark found;
  pruning removes nothing it should not.
* Delivery: no status change gets lost between its result and its notice but for
  a stated reason, what is announced last is the status the model has, and an
  outage is always announced.
* Streaming: a test sees the same events wherever its body was cut into chunks,
  reads none of it past the deadline, ends, and records success, degradation
  and thinking exactly as the stream said them.
* Numbers: what memory says of the recent tests is what the rows say; scores
  keep the order of the metrics, tiers and scores share their boundaries, and
  the numbers of one record fit each other.
* Dashboard: a page that is not marked dirty shows every change that was announced,
  an answer every change announced before its request, and the metrics never
  go back.
* Connections: a client that is listed gets every broadcast it wants or is
  told that it does not, the limit holds although a handshake suspends the
  check, nothing is left of a client that has gone, one that stalls stalls
  itself only.
* Model info: a fact that is shown is stored, the hub never replaces a stored
  fact, and a description reaches every deployment of its model.

## 2. Plan

| Step | Module | What | State |
|---|---|---|---|
| 1 | `TestScheduler` | scheduler, tests, reloads | done, proved |
| 2 | `DurableLog`, `WriteBatcher` | the abstract durable log and the batcher that implements it | done, refinement proved |
| 3 | `Archive` | archiving beside reloads and restarts | done, proved |
| 4 | `ModelRecord` | recording, retries, pruning, reconciliation at startup | done, proved |
| 5 | `Announcements`, `Delivery` | the abstract channel of announcements; broadcast batcher, notices, cooldowns, metric transitions | done, refinement proved |
| 6 | `Streaming` | one streaming test from bytes to its record | done, proved |
| 7 | `Scores`, `StreamMetrics`, `ModelHistory` | statistics, the numbers of a test, and the history of a model | done, proved |
| 8 | `Dashboard` | cached responses rebuilt in threads | done, proved |
| 9 | `Connections` | the WebSocket manager | done, proved |
| 10 | `ModelInfo` | fetches of model facts beside reloads and probes | done, proved but for `FetchShares` |
| 11 | proofs | `SchedulerSleeps`; the type and the store invariants of `WriteBatcher`; the agreement of memory and database in `ModelRecord` | done |
| 12 | proofs | `NothingShownIsLost` and `StoredFactsStand` of `ModelInfo`, `MemoryAgrees` of `ModelHistory`, `ChunkingIsInvisible` of `Streaming` | done |
| 13 | proofs | `Delivery` implements `Announcements` | done |
| 14 | proofs | `GradesAgree`, `MeasurementsAgree` and `ChartsAgree` of `ModelHistory`, with the lemmas about `Scores` and `StreamMetrics` they rest on | done |

Abstract specifications: `DurableLog`, which `WriteBatcher` implements, and
`Announcements`, which `Delivery` implements.

Composition: `TestScheduler` takes the outcome of a test as a choice and the
archived set as its environment, so that `Archive` and `Streaming` are checked
on their own; `ModelRecord` uses `WriteBatcher`'s promise (`DurableLog`)
instead of the batcher itself, and `Delivery` takes the statuses as a choice,
because what they are is `ModelRecord`'s subject. `ModelHistory` extends
`StreamMetrics`, which extends `Scores`: a test is measured, scored and kept as
the program does it. `Streaming` ends with the outcome that `TestScheduler` and
`ModelRecord` choose; `Dashboard` has the changes of all the others as actions
that change an entry and invalidate a page; `Connections` takes what is
broadcast (`Delivery`) as given.

## 3. The modules

### TestScheduler

State: `configs` (the sequence of configurations ever loaded; the last is the
current one, its index the generation of the semaphores), `known`, `offline`, `age`
and `pending` (the parts of `model_cache` the scheduler reads), `running`, and for each
test its `phase`, the generations `gsem`/`psem` of the permits it holds, its
`attempt` and `elapsed` time. The loop is `pc`, `und`, `due`, `timer`, and `wake` is
`_wake_scheduler`. One action is what the code does between two awaits: for
example `BeginCycle` is the collection of what is due, `Dispatch` one turn of the
dispatch loops (which never await: no other action is enabled meanwhile),
`EndDispatch` the computation of `sleep_time`, `TakeGlobal...`/`TakeProvider...` the
two `async with`, `FinishTest` an attempt with its record, `Close` the
`finally` of `_run_test_managed`.

Left out: the periodic cleanup between dispatch and sleep (915-944), the
ten-second pause after a scheduler error (968-970), shutdown, and the early
returns of `run_test` (291-301), which `OneTestPerModel` shows unreachable. An
attempt's outcome is a choice among success, failure with a retry and failure
without, and with `InternalErrors` also a test that ends without a record.

### DurableLog and WriteBatcher

`DurableLog` is the promise: results are accepted, become durable in sets, and a
crash or an abandoned shutdown loses those that were not. `WriteBatcher` has the
buffer `rows`, for each task that may flush its `batch` and `stage`, the open
transaction `txnTable`/`txnState` and what is committed, `table`/`state`. A
flush is `Capture` (under `_buf_lock`), the thread's `WriteBatch` (under
`_write_lock`, one transaction), `WriteFails` at any row (what was inserted stays
in the transaction) and `Flushed`/`Requeue` back in the loop; `OtherCommit` is any
other writer; `BeginStop` cancels the loop and leaves its thread an `orphan`;
`Close` and `Crash` end the process. `ImplementsLog` is `Log!LogSpec` under the
mapping at the end of the module.

### Archive

`memory` is `_archived_model_keys`, `database` the columns `archived/archived_by`;
`since`/`offline` are the degradation and outage times of a model in ticks up to the threshold.
`apply_auto_archive` is `Mark`, `Save`, `PruneNewly`; `apply_db_changes` is `Load`,
`ClearStaleManual`, `ArchiveDirected`, `UnarchiveDirected`, `PruneDirected`,
`LoadAgain`; one step per awaited thread, so the two interleave as in the code.
`AutoFails`/`WatchFails` are a thread that raises. `StartTest`/`EndTest`
change the status. `directive` is what `models.yaml` says of a model: `archived`, or, without
it, `auto_archive: false` ("exempt"), which like `archived: false` keeps a model from
being archived automatically (`Exempt`).

Two history variables name the models for which memory and database, or a directive,
may disagree for a while. `torn`: the call
that was to save the mark raised, or a reload read the marks before it was saved, or the
reload itself failed (then every model). `late`: the mark was saved when `archived: false` had been
carried out already. Both are emptied by the next reload or start, which must make things
right again. All other models, also of a process in which reloads, calls that fail and
`apply_auto_archive` met, must agree.

Left out: removal of a model from the registry, a
change of `auto_archive.enabled` by a reload, and rows of old databases whose
`archived_by` is NULL.

### ModelRecord

What is known of a model in three places: `memory` and `history` (its entry of
`model_cache`), `buffer`/`latest` (rows and last `state_kwargs` in the batcher, which is
used through its promise: all of it becomes durable in one `Flush`, or a crash
loses it), and `rows`/`state` (`test_results`, `model_state`). `Derive` is
`_derive_status_from_result`, `Replay` its fold over stored rows. `Begin`, `Retry`,
`Finish`, `Interrupt` are a test; `Enter` is what both recorders do without an await.
`PruneRows`/`PruneNothing` (under the write lock) and `SyncCache` (after it) are the
two halves of `prune_trailing_failures`, which runs in a thread beside everything
else; `LoadMarks` ends the reload that asked for it. `DeleteOld` is retention,
`Restart` a crash with `reconcile_model_state` and the loading of the cache.

`integrity` is a history variable: a model is "torn" when a prune met a record that
was buffered or came between its halves, or when retention removed rows,
because then neither counters nor a replay are meant to agree with memory any
more. Left out: uptime, trends and scores, the `last_*` fields, the cap of
`recent_history`, the removal of models, and failing database calls (they are in
`WriteBatcher` and `Archive`).

### Announcements and Delivery

`Announcements` is the promise: per model a queue of the statuses to announce. A
change goes behind the others or takes the place of the last (`Change`), the first of the
queue is announced (`Speak`) or withheld, which is remembered until the next one
(`Withhold`); a stop drops some, of which one may still come (`Close`, `SpeakLate`). In `Delivery`
the queue of a model is the notice being pushed, then what the flush took, then
`_pending` (`Line`); `ImplementsChannel` is `Channel!ChannelSpec` under this mapping.

`status` and `tier` are what a model's last result said of it and of its metric;
`pending` is `_pending` of `BroadcastBatcher`, with `Merge` its `add`; `flush`, `batch`
and `sending` are a flush on its way through the two awaits of `flush` and the one
of each notice (a push, in a thread); `metric` is the notice a test itself awaits.
`quiet` and `metricQuiet` are the ages of the entries of the two cooldown tables, in
ticks up to the cooldown. `RetryResult`, `PlainResult` and `MetricResult` are the
three ways a result goes: a retry, a final result whose metric is not looked at, and
one whose metric is. `Announce` is a turn of `_dispatch_notifications` up to its
push, `Told`/`Fails` its end. `BeginStop` is `stop()`: what the flush had taken is
dropped, the push it awaits is the `orphan`. `told`, `alarmed` and `muted` are history
variables: what subscribers know, and why not if they do not know better.

Left out: the preferences of single subscribers, webhooks, the in-app history,
notices about the registry, the second metric, `degraded_since`, notifications
disabled by the configuration, and status changes by a prune (not announced).

### Streaming

One test: `body`, what the provider sends, a sequence of line ends and lines that are
not cut further; `buf` and `pending`, the bytes and events of `aiter_sse_events`;
`frame`, its counters of events per chunk; `ss`, the state that `Handle` updates
(`_StreamState`: tokens with their times, thinking, finish reason, usage, error);
`result`, the record. `Receive` is a chunk of any size at any time within the
wait, `TakeEvent` one turn of the `async for`; `DeadlineFound`, `WaitTimesOut`, `StreamEnds`,
`Dropped` and `IteratorEnds` are the ways to stop reading, `Headers` and
`Unreachable` the beginning. An answer that is not 200 is `Refused`, and then `RefusalRead`: its
body is awaited as a whole, in phase "refusal". There, as before the headers, the deadline
of the test is not looked at (`Unwatched`); the only bound is the timeout of httpx, which starts again
with every byte: `waited` is the time since the last one, `Silence` a tick of it,
`Drip` a byte that completes nothing, `SafetyFires` the timeout. `Raise` is a test that is cancelled or
fails inside, at any point. `Finish` is the `compute_stream_metrics` half of
`stream_test` as far as it decides the outcome. `Parse` and `Blocks` are the SSE
parser, `ParseOpenAI`, `ParseAnthropic` and `SplitThinking` the two protocols.

Left out: how a request is built, UTF-8 cut in the middle of a character (the
code decodes whole events only), the text of errors, the repair of tests
that answer with a body that is no stream, the probes' own requests.

### Scores, StreamMetrics, ModelHistory

`Scores` has the functions of `stats.py` as operators on fractions (tiers,
continuous and weighted scores, percentiles, reliability, trends, critical metrics, the
buckets of a chart); `StreamMetrics` what `streaming.py` computes of a test
(token counts and which are believed, round trips, gaps, stalls, hiccups, jitter and the
shrinkage by it). Rounding is that of Python (half to even), so that a value
next to a boundary is on the side where the program has it; binary fractions
are not modelled. `ModelHistory` is the state: `rows` and `history`
(`recent_history`), cut by `Cap` and `window` in `Kept` (`_append_history`), `uptime` with
the time it was computed, and `rtts` of the provider. `Measure`, `Fail`, `Tick`, `Reload`
(another window) and `HistoryRestart` are its actions; its specification is `HistorySpec`. A test that
fails may have measured a round trip too, which `Fail` keeps in `rtts`. The ranges that are
graded are those of the dashboard's cards, over the benchmarks of the history (`BenchOnly`),
while the reliability of a record counts every test, as in the code; `GradesAgree` demands that
both are the same where the card shows one.
`NumbersAssumption` says what a test can be (`IsTest`: times, token counts and gaps in any
number, reported usage that may be any integer) and that `MinSamples` is more than 2; it
is the literal 10 of `_compute_itl_statistics`, 3 in the instance. `TiersAssumption` is about `app.yaml`: two
or more limits for each metric and weights that are not negative, which the code checks when it
reads them, and limits in the order of their tiers, which it does not check and which
`app.yaml` has. A last limit of 0 stands for no limit where a lower value is better (`Open`).
Limits and weights are whole numbers here, where the code also takes decimals.

Left out: percentile charts, the all-range statistics, what the summary formats. The degraded
flag of `ResultOf` is that of the stream: the demotion by a critical tier and by samples too
few to be measured (scheduler.py:350, 372-377) are left out, and no property is about it.

### Dashboard

A page shows revisions of facts: of each model's entry, of the registry and of
the providers' titles. `rev` is what they are, `told` what they were when the
page was last invalidated, `data`/`filled`/`dirty`/`version` the cached response with its flag
and counter, `history`/`scores` the versioned scores inside an entry. `queue` is the
rebuild lock, `req` each request: `Arrive` is the handler up to its first await,
`Acquire` its second look under the lock, `Read`, `Compute` and `Computed` the thread going through
the entries and the scores it caches in them, `Built` and `BuildFails` its end. `Recorded`,
`Flagged`, `Reloaded`, the three steps of `apply_auto_archive` and those of the favicon
task change the facts, in the code's order of change and invalidation. A page is taken to show
the revision of the entry it read (`WithFact`); the scores and buckets in it may be older
ones that were cached with the entry, which `ScoresAreCurrent` in section 6 is about.

Left out: the other routes, which keep nothing; compression and ETags, which are
functions of the response; `_config_cache`, stale by design for ten seconds.

### Connections

`conns` and `prefs` are the manager's set and its preferences; `lock` its lock,
held from the check of the limit over the handshake to the listing (`Admit`, `Accept`). A
handler receives (`SetPrefs`, `Oversized`, `Received`) and leaves (`Leave`, the
`finally`, which takes no lock). `Broadcast` takes the connections and the preferences
at once, `Send` is one of the concurrent sends, `Finish` drops those found dead.
`CloseAll` and `CloseOne` are the shutdown; the specification is `ConnSpec`. A client may stall or go away at any time;
`Reload` changes the limit. A send to a client that has gone raises, or returns as if it had
arrived when the server has not noticed: `got` means that `send_text` returned, not that the
client has read it.

Left out: what messages contain; the ping timeout of the server, outside this
repository, which is what would end a stalled send.

### ModelInfo

`db` and `mem` are the rows of `model_info` and `model_info_cache`. `task` has the full
fetch, the fetch for added models and a probe, each with the loop it is in, the
write it awaits (`Commit` is the thread, `Resume` the coroutine after it) and the
turns it has done; `orphan` is the write of a cancelled fetch's thread. `Answers`
and `HubAnswers` are what the providers and the hub reply, or do not.
`Proceed` runs the loops from one write to the next, through `ToWrite`,
`ToFill` (`_enrich_hf`), `ToShare` and `ToBorrow` (`_share_hf_descriptions`). A reload is
`ReloadBegins`, `ReloadPurges`, `ReloadSyncs`, and the start of both fetches; `Restart` may come
anywhere. `dropped` and `quiet` are history variables.

Left out: how facts are found in an answer or a README, the spelling of hub keys
(`Base` and `Fallbacks` give them), the concurrency limit of requests, a write that raises,
facts that an old answer has of a model which a reload adds during the loop over it (`Answers` are
those of models registered when the providers answered), hub answers that differ between deployments
of one model (`HubAnswers` has one for all), and
the registry's order, which is fixed by `Order`: a reload that moves an entry while the fetch
iterates over the list is not in the model.

## 4. The runs

| Run | Instance | Shows |
|---|---|---|
| `Scheduler_Safety` | 2 models of 2 providers, health and staggered benchmarks, 2 attempts, internal errors, one archivable model, any speed | `RunningSetsSound`, `StaggerOneProvider`, `OfflineOnlyHealth` |
| `Scheduler_Reload` | 3 configurations (limits lowered, model removed and added, epochs reset), benchmarks and audits | `InFlightBounded`, `SchedulerSleeps`, `NoSemaphoreQueue` |
| `Scheduler_Timed` | one provider, timely loop, unbounded time by ages capped above every interval | `DueIsServed` |
| `Batcher` | 4 results, buffer 3, loop + triggered + final flush, 1 failure, 1 crash | `NothingLost`, `StoreIsOrdered`, the refinement `ImplementsLog`, `EventuallyDurable` |
| `Archive` | 1 model, with auto-archiving on or off, 2 reloads, 1 restart, 2 failures, threshold 2 | `MemoryIsDatabase`, `DirectivesHold`, `AutoArchivePersists`, `OutageIsArchived` |
| `Record` | 1 model, 4 records, 2 attempts, 1 prune, 1 crash, retention of the first row | `ReplayAgrees`, `DatabaseAgrees`, `HealthKeepsOwner`, `PruneKeepsSuccesses` |
| `Delivery` | 1 model, cooldowns of 2 and 3 ticks, 3 tiers, failing dispatches, a stop | the refinement `ImplementsChannel`, `OfflineAnnounced` |
| `Streaming` | bodies of up to three of ten OpenAI and seven Anthropic events, both line ends, request timeout 3, activity timeout 2, headers in time and late, refusals whose body drips, tests that raise | `ChunkingIsInvisible`, `RecordIsHonest`, `DeadlineHolds`, `EveryStreamEnds` (but for a provider that drips for ever outside the deadline) |
| `Numbers` | 4 results out of 7 shapes of tests and 2 failures, 3 ticks, windows of 1 and 2, with reloads and restarts | `MemoryAgrees`, `GradesAgree`, `MeasurementsAgree`, `ChartsAgree` |
| `Dashboard` | 2 models, 2 requests of any kind, 2 changes of any kind | `CleanIsCurrent`, `AnswersAreFresh`, `LockMovesOn`, `MetricsMoveForward` |
| `Connections` | 2 clients, limits 1 and 2, 1 reload, 1 notification that may be muted, the shutdown | `ConnectionsBounded`, `NothingLeftBehind`, `NobodyMissesSilently`, `StallsAlone` |
| `ModelInfo` | 2 deployments and a variant of a model at 2 providers, 3 catalogs of one and 3 of the other, 1 reload, probe or restart | `NothingShownIsLost`, `StoredFactsStand`, `FetchShares` |

**Bounds.** Two tests per model (health and one other) show every interference of
types, because the code treats the four alike but for the filters that are
`Priority`, `AllowsStatus` and the semaphores of `Semaphored`; the proofs cover the
rest. Two models of two providers are the least with a choice of provider, and one
provider without spare capacity the least in which something could starve. One reload in
`Scheduler_Reload` puts two generations of permits beside each other, in any order
of its three configurations. In `Batcher`, three flush
tasks is what the code can have in one buffer interval plus shutdown; four
results let a batch be split, retried and overtaken. Models do not interact in
`Archive` and `ModelRecord`, so one is enough (two were tried as well, with fewer
reloads). Four records let a success, the failures after it and a record beside
their prune follow each other, or a benchmark's degradation, a health check's retry
and its result. The
sequence of configurations, the results, the failures, the crashes, the reloads
and the restarts, records and prunes are bounded in the guards by the constants named `Max...`; ages
and waits are capped by `AgeCap` and `Threshold`. In `Delivery` nothing is bounded
but the ticks, which stop mattering at the cooldowns; its models share only the
flush, and the proof of `ImplementsChannel` is for any number of them. `Batcher` and `Record`
do not check deadlock since their results run out, nor does `Delivery`, which a
stop ends, `Numbers`, `Dashboard`, `Connections` and `ModelInfo`, whose results, requests,
clients and events run out.

A chunk in `Streaming` may end before or after any line and between the two characters of a
line end, which is where the parser's state is; two events are the least that
can share a chunk, three the least for a thought that is followed by an answer and
an end. Headers come at once or one tick after the deadline. In `Dashboard` two
requests are the holder of the lock and one who waits or one who rebuilds beside it, two changes one
before and one during a rebuild; the requests are symmetric; the proofs are for any
number of each. In `Connections` two clients for one place make one wait at the
limit while another shakes hands; the three invariants are proved for any number. In
`ModelInfo` three models are a group of two and a variant that borrows from it;
one event is enough to cancel a fetch in a write, with two the state space is beyond an
hour, and `StoredAlways` of section 6 needs them. In `Numbers` the thresholds
are a few of the defaults on the scale of the tests, the cap is two or four
results, and each shape of a test is there for a case of the code: stalls
together and apart, chunks that were batched, one without a handshake, reported
token counts that are implausible, an error after tokens, a health check.

**Fairness.** `TestScheduler`: weak fairness of the loop and of each test's steps
and of the clock: tasks that can run are run by the event loop, and a test ends, which
assumes that no provider drips bytes for ever where the deadline is not looked at
(`EveryTestEnds` in section 6). `Scheduler_Timed` also assumes that steps take no time compared to a
second (`Timely`) and a test at most `TestTicks`. `WriteBatcher`: weak fairness of
each flush's steps; failures are bounded by `MaxFailures`, since a disk that fails
for ever promises nothing. `Archive`: weak fairness of both coroutines and the
clock; none of `ReloadConfig` or of how a test ends. `Delivery`: weak fairness of the
flush (its loop sleeps an interval, and `stop` awaits the last one), of pushes and
metric notices (each push has a timeout; a WebSocket send ends at the latest with
the server's ping timeout, which is outside this repository) and of the clock; none
of results, so nothing may wait for the next one to be announced. `Streaming`: weak
fairness of the loop over the events (`Taken`: the event loop runs it) and of time and
timeouts (`Bounds`: `asyncio.wait_for` fires, and httpx's timeout when a read got nothing for so
long; there is no timeout around the whole test); none of the provider, who may send
nothing, fail, or drip. The latter can keep a test from ending before its stream begins or
in the body of a refusal, and `EveryStreamEnds` says that nothing else can: a test
ends, or `Drip` recurs for ever, which it cannot once a stream is read. `Connections`: weak fairness
of each send, which is a task of its own; none of clients and none of a stalled send, so
`StallsAlone` says that others do not wait for it. `Dashboard`, `Numbers` and `ModelInfo` state
no liveness.

## 5. The proofs

All for every value of the constants that satisfies the module's assumption.

* `TestSchedulerProofs`: `TypeCorrect`; `RunningSetsSoundCorrect` from *Marks* (a model
  is in `running[k]` exactly while the phase of its test of kind `k` is not "none"; the
  four sets are disjoint) - `OneTestPerModel` and `RunningSetsAreTasks` are not
  inductive without it, because a test's steps must know it is still marked.
  `StartsWithinLimits` and `InFlightBounded` follow from the dispatcher's guard
  and the cardinality of the sets. `OfflineOnlyHealth` and `StaggerOneProvider` need
  *Decided*: what is due during a dispatch is of models online now (nothing
  runs between) and of a single provider. `NoSemaphoreQueue` needs *Queueless*: before
  the first reload all permits are of one generation and there are as many as
  running tests at most. `SchedulerSleeps` needs *Planned*: as long as no test runs, the
  due lists are what the stagger filter makes of the undispatched models, so the
  dispatcher finds room for each of them and the loop cannot turn without waiting. It
  is proved under `AuditAvailable`; without an audit suite the code does spin (section 6).
* `WriteBatcherProofs`: `TypeCorrect`, `NothingLost`, `StoreIsOrdered` and the refinement `ImplementsLog`. The
  invariant adds that every index below `added` is in exactly the places the
  code may keep it (*Accounted*), that only a stopping process has an orphan
  (*Uncancelled*) and that what a task has written and not committed is in the open
  transaction (*TxnHeld*): without the last, the step that commits could not
  be shown to make the batch durable. `StoreIsOrdered` needs *Once* (while nothing failed,
  a result is in one place only, and there once) and, for the latest state, *Succession* (the
  batches of the loop follow one another, and what was before them is in
  `model_state`). Its `Upsert` keeps the last result of a batch; that there is a last one
  follows from the library's theorem that the naturals are well-founded.
* `HistoryProofs`, of `Archive`: `TypeCorrect`, the action property `AutoArchivePersists`, and
  `MemoryIsDatabase` and `DirectivesHold`. Both speak of the time between two
  operations, after any reloads, failing calls and restarts, in whatever order they met, and are
  inductive only with what holds during one: *Synchronised* (memory is
  the database but for what is torn and what `apply_auto_archive` has marked and not yet saved,
  or a start or reload has still to publish) and *Directing* (how many of the directives have
  been saved at each step of a start or reload, and that an automatic archive saved after its
  directive is in `late`).
  Of `ModelHistory`: `MemoryAgrees` from *Remembered*: the history in memory is the last part of the
  rows, in the order of time; no longer than the cap; it has everything of the window that
  the cap has room for unless the window was widened since; and everything that counts for the
  uptime that the cap of the smallest window has room for. The last two are separate because a reload
  changes the window and with it the cap, but not `uptime_window`, which no window is smaller than:
  after a wider window came, memory may miss results of the window, but none of the uptime.
  The other three properties of `Numbers` need *Measured* (every row is what some test, measured against
  some jitter, comes to, or a failure) beside *Remembered*, which says that the history is made of
  rows. That is all the induction there is; the rest is about the operators, in this order. Whole numbers: `Gcd` divides
  both its arguments, by the least counterexample. Fractions: a fraction in lowest terms equals
  another by cross multiplication (*Equals*), and sums, products and quotients keep the order
  (`PlusOrder`, `TimesOrder`, `OverOrder`). `Round` returns a nearest multiple and
  keeps the order (`NearestOrder`, `RoundOrder`), so two numbers never change places by
  rounding. Lists: `Sorted` is an ascending renumbering of its list (`SortedFacts`), so a mean and a
  median lie between the least and the greatest (`MeanBetween`, `MedianBetween`), and of two lists of which one is
  nowhere above the other so are the medians (`MediansOrdered`). From these:
  `ChartsAgree`: `TrendFollows`, and `GroupsSum` (grouping by bucket counts every record once) with the mean of
  the times of a bucket inside its bounds.
  `GradesAgree`: a metric lies in one band of its limits (`RisingPlaces`, `FallingPlaces`), within a band the score
  moves from one level to the next (`LerpLevels`), so that it keeps the order of the metric (`RisingOrder`,
  `FallingOrder`) and lies between the levels of its tier (`RisingAgrees`, `FallingAgrees`); weighing keeps
  both (`WeightedOrder`). A range over the benchmarks has the same benchmarks as one over
  everything (`BenchFacts`, `BenchAgain`), so where a card shows a reliability, it is the formula
  the record used: enough benchmarks are enough tests, and there is one (`MinScorePoints` is not 0). It holds for any tiers in order and any weights, some of them or all 0.
  `MeasurementsAgree`: `Adjust` moves a gap towards the median and never past it (`AdjustFacts`); of any
  list at least half is not below the median, and the place of the 99th percentile is among those (`Rank99`,
  `SortedAbove`: `TailFacts`), which needs more than two samples. The proof corrected two parts that held in
  the instance only: the tail ratio may be a little below 1, because the p99 is rounded to a tenth of a
  millisecond before it is divided, and the share of few stalls among very many gaps may round to 0.
* `ModelRecordProofs`: `TypeCorrect`, `ReplayAgrees` and `DatabaseAgrees`, and the action
  properties `HealthKeepsOwner` and `PruneKeepsSuccesses`. The agreements are inductive only
  together, in *Sound*: *Typed* (there are no more records than the clock has counted),
  *Chronicle* (rows, and buffered rows after them, are in the order of `ts_epoch`; without it a
  prune's cutoff would not split history and rows at the same place) and *Agree*, which
  also says what holds between the two halves of a prune: there the database is ahead of memory, its
  state is what the prune recomputed, and the history up to the cutoff is
  the rows that are left. That a replay of one row more is one derivation
  more (`ReplayAppend`) is shown by the least counterexample, because `Replay` is a recursive function.

* `DeliveryProofs`: `TypeCorrect`, the invariant `ToldOrOwed` and the refinement
  `ImplementsChannel`. `ToldOrOwed` (what is owed to subscribers, place by place) needs
  *Quiescent* (a flush that is not running has taken nothing and awaits no push:
  otherwise the next one would overwrite an announcement) and *Unheard* (nothing is
  on its way for a model without a result: its first status is no transition, so an
  older notice would be wrong and not replaced). With the same invariant each step of
  `Delivery` is one of the channel or leaves it alone: a result is a first status, a change or
  nothing (`AddChannel`), a flush that begins or an announcement that starts its push only moves the
  queue from one place to the next, one that the cooldown ends is withheld, and a stop keeps the
  end of each queue. `ChannelIsFaithful` is what the channel promises by itself: the last in the queue
  is the current status, and an empty queue means that it is known or that something was withheld.

* `ServerProofs`, of `Connections`: `ConnectionsTypeCorrect` and the three invariants of the run.
  `NothingLeftBehind` is inductive with the types. `NobodyMissesSilently` needs
  *Accounted*: whoever a broadcast is for has not yet its send behind it, got it,
  or was found dead, until `Finish` drops the dead. `ConnectionsBounded` needs *Room*:
  who shakes hands holds the lock, and there was room for one more when it got it; a
  handler that leaves takes no lock, but only makes room.
  Of `Dashboard`: all four properties of the run. The invariant is *PageType* (the
  types the proofs need), `LockMovesOn`, and *Current*: no page is ahead of its facts
  (*NothingAhead*), and what a rebuild has read of a fact so far is at least what its request
  found announced, at least what the page had if it holds the lock, and
  everything announced if the version has not moved (*AllHonest*). Without the last,
  `Built` could not be shown to clear the dirty flag rightly; without `LockMovesOn`, two
  rebuilds could take the metrics back.
* `StreamingProofs`: `DeadlineHolds` from *Clock* (the wait for bytes is cut to what is left
  of the request), and `RecordIsHonest` from *Clock*, *Spanned* (thinking ends at
  the first text after it began, tokens come in the order of time) and the fact that nothing is
  recorded before the headers or in a refusal; both cover every test that ends with a record,
  whatever it waited for. `ChunkingIsInvisible` follows from *Chunked*: the buffer is the
  rest of what has arrived, cut up at its blank lines, and the events seen and pending are
  those of the texts before them. The step of a chunk needs that cutting up what was left
  together with what is new is cutting up both (`CutUpConcat`), by induction over the new
  bytes, one at a time: the folds of `Normalise`, `Blocks` and `Events` are recursive functions, so
  the least counterexample replaces the induction theorem. It needs `BodiesAssumption`: no body
  has CR CR LF. For such a body the statement is false, because `aiter_sse_events`
  normalises its buffer again with every chunk, and CR CR LF becomes a blank line in two
  steps but not in one; no line end that HTTP knows looks like that.
* `ModelProofs`, of `ModelInfo`: `NothingShownIsLost` and the action property
  `StoredFactsStand`. The first needs *Addressed* (tasks and reloads deal with models only that are
  or were in the registry since the process started, and the write a task awaits is of a loop
  it is in) and *Backed* (what a task has stored and memory does not show yet is in the row already,
  unless the model was removed meanwhile; nothing is shown of a model that was never there). The
  second needs *Placed* (the same without *Backed*) and *Sourced*: a write that overwrites, of
  a task or of an orphaned thread, has only what `models.yaml`, the provider or the probe say of
  its own model - the write is prepared before the await and done after it, so this must hold
  between. That the loops over a set of models end, each model having had its turn once,
  is no part of either.

Only model-checked: liveness (`DueIsServed`, `EventuallyDurable`, `OutageIsArchived`,
`OfflineAnnounced`, `EveryStreamEnds`, `StallsAlone`; fairness and ENABLED are outside the
prover). `FetchShares` of `ModelInfo`: what it says of
borrowed descriptions is true of the naming schemes of hub keys that the run has, not of every
function `Fallbacks`. The borrowing loop takes the models one after the other and ends a model's turn with
the first shortened name that gave it anything (model_info.py:1316-1350): where names are shortened to
names that are shortened themselves, a lender may get its own description after
its borrower had its turn.

## 6. Where the code differs from what it says

While the models were written, these differences between the code and its own
comments, docstrings and documents came up. Each is a property that TLC finds
violated. Where a configuration is named, run it; for the others, run the cfg
of the module with `SPECIFICATION Spec` and the property named here in place
of those it lists (`HistorySpec` and `ConnSpec` where that is the specification's name; `FairSpec`
where it says so). The passing runs state the strongest neighbour that
does hold.

| Configuration | Property | Code, and what it is said to do |
|---|---|---|
| `Scheduler_AuditMissing` | `SchedulerSleeps` | an overdue audit without an installed suite makes the scheduler spin: its due time is 0 and nothing is dispatched (scheduler.py:949) |
| `Scheduler_PendingRetry` | `PendingRetryResumed` | `run_test` removes `_pending_retry` whatever its type (scheduler.py:314); the docstring (285-288) and main.py:142 promise the interrupted cycle is resumed |
| `Scheduler_InternalError` | `DueIsServed` | a test that ends in an internal error moves no epoch (419-422) and stays the most overdue: the docstring 888-891 promises that each due test is served |
| `Batcher_Duplicate` | `StoredOnce` | a flush that fails half way leaves its inserts in the open transaction, is retried, and its results are stored twice (db.py:1711) |
| `Batcher_StaleState` | `LatestStateStored` | a failed batch goes behind newer results (db.py:1690), which the docstring 1652-1653 denies |
| `Batcher_Shutdown` | `OrderlyShutdownKeepsAll` | the cancelled loop's thread may find the connection closed (batch.py:30-37, db.py:428-444), although main.py:227 stops the batcher to keep its rows |
| `Archive_Override` | `FalseUnarchives` | `archived: false` may lose against an automatic archive in progress (scheduler.py:557) |
| `Archive_Lost` | `AutoArchiveSurvives` | a reload during apply_auto_archive reloads the marks from the database before they are saved (config.py:885-887, scheduler.py:511-512) |
| `Archive_Early` | `ArchivedAfterOffline` | time degraded counts as time offline (db.py:1598-1607; scheduler.py:500, CONFIGURATION.md:143) |
| `Archive_Never` | `OfflineIsArchived` | a model pruned of its failures and unarchived has no start of its outage (db.py:741-744, 1600; CONFIGURATION.md:143) |
| - | `MarksAreSaved` of `Archive` | when `set_archived` raises, the mark stays in memory without a row until the next reload or start and is not tried again (scheduler.py:557, 540, 549); the docstring (508-512) says the archive is persisted "so it survives server restarts and config reloads" |
| `Record_Prune` | `PruneIsSafe` | a prune beside a buffered record leaves memory and database apart (db.py:652) |
| `Record_PrunedCounters` | `PrunedCountersCount` | after a prune the counters include retries, which `record_result_async` does not count (db.py:664-675, 1738; the docstring 621-622 promises correct data) |
| `Delivery_MetricMuted` | `MetricRecoveryFires` | the recovery of a metric within two minutes of any notice of its model is never announced, nor one in a result that changes the status (notifications.py:642; the comment at 288 says recoveries always fire) |
| `Delivery_RecoveryMuted` | `RecoveryAnnounced` | a recovery within the cooldown of the degradation before the outage is dropped, while the outage was announced (notifications.py:642); DEPLOYMENT.md:263 and CONFIGURATION.md:181 know no such exception |
| - | `EveryTestEnds` of `Streaming`, with `FairSpec` | a provider that drips bytes before its headers or in the body of a refusal (streaming.py:1266) keeps its test for ever: httpx's timeout is per read (1254-1260), and the comment above it says "we manage timeouts ourselves" |
| - | `ReliabilitiesAgree` of `ModelHistory` | a record counts all its tests as points of its reliability (stats.py:309-311), a card only the benchmarks (345-347, 953-954): with few of them the card shows none where the record has one |
| - | `RequestIdIsText` of `Streaming` | `_extract_request_id_from_chunk` returns a match object (streaming.py:1060), its annotation says `str | None` |
| - | `BatchesCounted` of `Streaming` | the tokens of a last chunk with several events are not counted as batched when the loop over the events stops before the chunk is done (streaming.py:122-126; the comment at 122-123) |
| - | `ScoresAreCurrent` of `Dashboard`, without SYMMETRY | scores are stored with the version read after they were computed (stats.py:945-957): a result meanwhile makes old scores look current until the next one; the docstring at 948 says they are recomputed when the version differs |
| - | `TitlesAreShown` of `Dashboard` | a reload cancels the favicon task between storing a title and invalidating the page (favicons.py:463): the providers show the old title until another invalidation |
| - | `AllClosed` of `Connections` | a client whose handshake is under way when `close_all` takes its snapshot stays connected (websocket.py:80) |
| - | `StoredAlways` of `ModelInfo`, with `MaxEvents = 2` | a model that is removed and added again has its facts in memory and an empty row, which neither fetch fills (model_info.py:1389-1401, 1481, db.py:1372); a restart forgets them |
| - | `YamlStands` of `ModelInfo` | values of `models.yaml` "take precedence" (db.py:1127, state.py:163), but providers overwrite them and memory has them only after a restart |
| - | `ShownFactsStand` of `ModelInfo` | `_enrich_hf` fills "only missing fields" (model_info.py:1214), decided before an awaited write: what a probe wrote meanwhile is replaced in memory, not in the row |

Read in the code and not stated as a property: `_broadcast_result` and
`BroadcastBatcher` call notifications "immediate" (scheduler.py:153, 205), but
with the batcher active they wait for its flush (194, 246). The docstring of the sharing loop says a
description below 40 % of its source's length is replaced (model_info.py:1271); the code asks
whether it is a placeholder, and the row keeps the placeholder. The wait for
response headers and for the body of a refusal are outside the deadline of a stream (`DeadlineHolds` and
`EveryStreamEnds` say how far). A
lower-is-better tier list without its trailing 0 scores below zero (stats.py:146-154); the
configuration's defaults have it. `/api/providers` is rebuilt without a lock, so that the
page may go back for a moment (`ProvidersMoveForward`); it stays dirty then.

## 7. Not modelled

Push subscriptions (a table behind four handlers; its check-then-store race is
settled by the key of the table, see the hazards), middleware (no state across an await),
schema migrations (straight-line SQL before anything else runs), the parsing and validation
of the configuration, the building of requests and the rules that extract facts from answers,
images of the favicons, the questions of probes and the audit subprocess, formatting,
rendering, packaging. The browser client merges what it is sent into its own
copy; it is outside the backend this project covers. Of the modelled parts, the periodic
cleanup beside a reload is in no run (`scheduler.py:931`). Floating-point
rounding is left out; decimal rounding is not.
