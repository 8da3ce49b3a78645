# alephium-indexer in TLA+

The indexer copies the Alephium chain to Kafka, one window of time after the
other. A *master* process cuts time into windows and stores them as rows of the
Postgres table `alephium_block_time`. *Worker* processes claim rows, ask an
Alephium node for the blocks, transactions and events of each window, publish
them on three Kafka topics and write the outcome into the row. The table is the
only thing the processes share, so the correctness of the indexer is the
correctness of a protocol over that table, run by goroutines that race,
processes that are killed and restarted (`restart: always`), a database, a node
and brokers that fail.

This directory holds the model of that protocol, of the two processes that run
it from their start to their exit, and of the clients they share (transactions,
Kafka producers, the S3 store); the TLC runs that check it on small instances;
and the proofs of its safety for all instances.

## 1. Inventory

| Component | Code | State | Operations | Talks to |
|---|---|---|---|---|
| Master time ranges | `internal/app/master/master.go` | locals of one call; the rows it created | `FetchTimeRange` loop, `fetchBlockTime` | block_time repository |
| Cron jobs | `internal/app/master/cronjob.go` | gocron scheduler | `update_failed_status` every 15 minutes, `monitor_alephium_checkpoint` every hour | repository, Monitor |
| Monitor and alerts | `master.go` `Monitor`, `pkg/alert` | none | read the newest DONE row, post a message | repository, Discord |
| block_time repository and scopes | `internal/repo/gorm/block_time_repo.go`, `internal/repo/gorm_scope` | table `alephium_block_time` | `GetList`, `CreateMany`, `UpdateStatus`, `UpdateFailedStatus` | Postgres |
| Transactor | `internal/repo/gorm/base_repo.go`, `internal/service/base_service.go` | the transaction in the context; the pool of connections | `Transaction`, `ExecTx`, `getDB`; nesting, rollback on error and panic | Postgres |
| Worker loop and claim protocol | `internal/app/worker/worker.go` | locals of `fetchData`, twenty times per process | `FetchTxs`, `fetchData` | repository, node, Kafka |
| Alephium node client | `internal/service/alephium_indexer.go` | none | `FetchData` | node over HTTP |
| Kafka sync producer | `internal/infra/kafka_producer.go` | sarama producer | `SendJson` | brokers |
| Kafka async producer | same file | producer, its channels, the goroutine that logs errors | `SendJson`, cleanup | brokers; in no app |
| Kafka transactional producer | same file | stack of producers, lock, id generator | `borrow`, `release`, `clear`, `SendJson` | brokers; in no app |
| S3 store | `worker.go` `StoreS3`, `s3_service.go` `FileStreamWriter` | pool of goroutines; per batch a pipe, an uploader and `errCh` | the select loop, the task of a batch, its uploader, `StopAndWait` | S3; channels never fed at this commit |
| Application life cycle | `cmd/*/main.go`, `internal/app/*/app.go` | errgroups, contexts, scheduler, open connections | signal, stop, shutdown of the scheduler, `Fatal` or cleanup | everything |
| Redis repository | `internal/repo/redis` | none | wrappers of client calls | Redis; in no app |
| Configuration, sessions, helpers | `internal/conf`, `internal/infra`, `pkg` | settings, connections | open, parse | |

What makes each of them correct, and what is hard about it:

- **Master time ranges.** Windows follow each other without a hole, are short
  enough for the node, and do not cover the same time again and again. Hard: the
  next call resumes from the row with the greatest `created_at`, which up to ten
  rows of one INSERT share; outages of any length; a commit whose answer is lost.
- **Claim protocol.** A row belongs to one call at a time. Hard: twenty
  goroutines per process, several processes, and four kinds of status writes that
  follow no protocol (the per-row FAIL of a failed fetch, the FAIL after a broken
  claim transaction, the quarter-hourly job, the outcome of a call that is late).
- **fetchData.** DONE means published. Hard: goroutines that append to shared
  slices, one status for a batch of which a part failed, sends that fail after
  others succeeded, statuses whose write fails and is ignored.
- **Recovery.** Nothing stays PROCESSING, every window with blocks ends up DONE.
  Hard: crashes between any two steps, calls that never return, the job that
  takes a slow call for a dead one, windows without blocks that are claimed
  again and again.
- **The whole.** Every minute gets from the clock to the brokers, and when it
  does not somebody is told. Hard: each half sees the other only through rows
  that appear in batches and change status under it.
- **Transactor.** All or nothing, also for a panic and for nested calls; the
  connection comes back, once; nobody waits for a connection while holding one.
- **Transactional producer.** A producer is used by one caller at a time and
  returns to the pool in a usable state; commit is retried until it is known.
- **Async producer.** A message that was taken is stored or its failure is told,
  though successes are asked for and read by nobody.
- **S3 store.** Success is logged of objects that are there, nobody sends on a
  closed channel, every task ends, the end of the app waits for all of them.
- **Life cycle.** A signal ends the process, cuts off no round, and the deferred
  cleanup runs.

Every hazard is listed at its line in `PROJECT.json`, with the properties that
would catch it.

## 2. Modules

| Module | Content |
|---|---|
| `Worker` | `fetchData` and the table: the claim transaction, the goroutines per window with their unlocked appends, the senders, all status writes; the job; crashes |
| `PublishQueue` | what the workers promise consumers, with nothing of the above in it; `Worker` implements it |
| `Master` | `FetchTimeRange` / `fetchBlockTime`, the clock, the rows it creates |
| `Indexer` | `Master`, `Worker` and `Monitor` over one table |
| `AtomicStore` | what `repo.Transactor` promises a caller |
| `Transactor` | `Transaction` with nesting, errors, panics and cancelled contexts, and the pool of connections; implements `AtomicStore` |
| `AtomicPublish` | what `SendJson` of `KafkaTxProducer` promises a caller |
| `TxnProducer` | `KafkaTxProducer`: the pool of producers and the commit and abort loop; implements `AtomicPublish` |
| `AsyncProducer` | `kafkaAsyncProducer`: input, answers, the goroutine that logs failures, cleanup |
| `S3Stream` | `StoreS3` and `FileStreamWriter`: loop, pool, pipe, uploader, `errCh` |
| `Lifecycle` | a process from its start to its exit: loops, scheduler, errgroups, `Fatal` or cleanup; `StoreS3` is one step |
| `Process` | `Lifecycle` in which `StoreS3` is `S3Stream`; implements `Lifecycle` |
| `MCWorker`, `MCMaster`, `MCIndexer`, `MCClients`, `MCProcess` | the instances TLC checks; `MCClients` holds the three clients side by side |
| `WorkerProofs`, `MasterProofs`, `IndexerProofs`, `TransactorProofs`, `TxnProducerProofs`, `AsyncProducerProofs`, `ProcessProofs` | the theorems of each component |
| `ClientsProofs` | what the three clients keep side by side, from the theorems of each |

Composition is by INSTANCE: `Indexer` takes `Worker` and `Master` with
`rows <- {r : status[r] # "ABSENT"}` and `newest` computed from `created_at`;
`Process` takes `Lifecycle` and `S3Stream` with the signal as the context both
share. Whatever a step of one part does not touch it leaves unchanged.

### Worker and the code

| Variable | Code |
|---|---|
| `status`, `age` | columns `status` and `updated_at`; `ABSENT` is a row the master has not created yet. `age` counts ticks up to `ReapAge`, the hour of `UpdateFailedStatus`, and only while it matters, in PROCESSING |
| `pc`, `batch` | where a call of `fetchData` is, and `blockStatuses` |
| `fetching`, `failed`, `left`, `pend` | the goroutines of the call: `DoWithData` not yet returned; returned an error; topics still to append to; the slice header an append has read and not written back |
| `buf` | the slices `blocks`, `txs`, `events` |
| `sent`, `broke` | how far each of the three senders is; which of them returned an error |
| `kafka` | what the brokers store, per topic |
| `settled`, `revoked` | not in the code: whether faults have ended; the rows somebody wrote a status to while a call owned them |
| `exposed` | not in the code, and read by no guard: the DONE rows that were `AtRisk` when they became DONE, in a batch of several in which their own fetch had failed or a slice they were appended to was another window's as well |

| Action | worker.go |
|---|---|
| `Claim` | 125-141: `GetList` with FOR UPDATE SKIP LOCKED inside `ExecTx`; at most `Limit` rows, in no order |
| `CommitClaim`, `RollbackClaim` | 144 and the end of `ExecTx`; a commit may be stored though its answer is lost |
| `FailAfterTx` | 116-123 (recover) and 146-149: FAIL to `blockStatuses` after the transaction is over |
| `NoNewBlocks` | 150-153 |
| `FetchOk`, `FetchFail` | 168-188 |
| `ReadSlice`, `WriteSlice` | 190-198, one append in two halves, as nothing locks the slices |
| `NoBlocks`, `StartSend` | 205-211 |
| `Send`, `SendFail` | 216-245 and `SendJson`; a message may be stored though `SendMessage` gave up |
| `Finish` | 248-258, DONE or FAIL to all of `blockStatuses` |
| `CreateMany` | the master, as the table sees it |
| `UpdateFailedStatus` | cronjob.go 46-62 |
| `Crash` | a process dies: all its goroutines lose their locals, open transactions roll back |
| `Tick`, `Settle` | time; the end of all faults |

Every status write but the claim's goes through `UpdateStatus`: it waits for
rows locked by open claims, compares nothing with the present status, and when
the statement fails the caller goes on, as every caller in `fetchData` ignores
the error of `updateBlockTimeStatus`.

What the workers promise consumers is `PublishQueue`: windows are published
topic by topic, windows handed out together are completed together, only when
all they have is published, and may be handed out again. `worker.go:40` sets
`limitCheckpoints` to 20, and with any limit above 1 the code does not keep that
for every row: findings 1 and 2 are rows that are DONE and not published. The
mapping says of which rows the promise holds: `published` is `kafka`, and `done`
is the DONE rows that are not `exposed`. A row becomes exposed only in the step
that makes it DONE, and only for one of the two causes; `LostInTwoWays` states
the same of the step itself, without the ghost. In a batch of one row, the
steady state of a new window each minute, nothing is ever exposed.

Abstractions. The data of one window for one topic is the window itself, so
`buf[w][t]` is a set of windows; a partial loss counts as a loss. `Chain` says
which windows have data for which topic; the node answers the same each time it
is asked, because windows end at least a minute in the past. A race on a slice
may also tear the slice header: what follows is a panic in a goroutine nobody
recovers, which is `Crash`. Whatever ends a process early, an unrecovered panic
in a goroutine included, is `Crash`. Failing reads (`GetList`, a run of the job
that errs) change nothing and are stuttering steps. When two UPDATEs of several
rows deadlock, Postgres fails one of them: that is the failing write of
`UpdateStatus`, and counts as a fault. `UpdateFailedStatus` compares `updated_at`
with a time written without a zone; the session is taken to run in UTC, as the
code writes it. Partition keys, JSON and logging are left out. A message that
cannot be marshalled (an event with a value of no known kind) is a `SendFail`
that stores nothing; `EventuallyDone` counts it among the faults, as such a
window is FAILed each time it is taken.

### Master and the code

The unit is the minute. Every time the code computes is at a minute's start
(`StartOfMinute`, steps of 60000), so the row `FromTs = 60000 i + 1`,
`ToTs = 60000 j` is the window `[from |-> i, to |-> j]`, which holds the minutes
`i+1 .. j`. `newest` is the set of rows that share the greatest `created_at`:
`CreateInBatches(rows, 10)` stamps each INSERT of ten rows once. `FetchBlockTime`
is the read and the decision (master.go 59-105), `CreateMany` and
`CreateManyFail` the insert; between the two the clock goes on and the process
may die. `CreateMany` covers the commit whose answer is lost: the caller only
logs the error. A crash has the same effect as `CreateManyFail`, as all state but
the table is local to the call.

Assumed: the clock of the master does not go back; one master runs (its
container has a fixed name); the table has the unique index on
`(from_ts, to_ts)` that the tags of `BlockTimeDao` declare and `ON CONFLICT DO
NOTHING` needs. `RunMigration` does not create it (its list is commented out), so
it has to come with the database. `BlockTime.Validate` has no caller; its bound
of 1800000 ms is checked of the rows as `WindowsValid`.

### Indexer and the code

The columns are `status`, `age` (`updated_at`) and `created`, the rank of the
INSERT that made the row. `CreateMany` is the one step that belongs to both
halves: it inserts the rows the table does not have (`Fresh`, ON CONFLICT DO
NOTHING) as NOT_READY and stamps them per INSERT of `BatchSize` rows (`Stamp`).
All other steps are a step of `Master` or of `Worker` with the other half
unchanged. `GetProcessed` and `Post` are `Monitor` (master.go 115-141): the query
for the newest DONE row, and the message, whose "@here" is `urgent`. The clock
goes on and rows change between the two. The delay is measured in milliseconds,
so a delay of exactly `AlertAfter` minutes of the model may or may not be above
the twelve hours. `GetProcessed` is not a step when no row is DONE: the code
returns without a message. `PostLost` is `AlertDiscord` without a webhook, or
whose `SendMessage` fails (discord.go 19-31): a warning is logged, nobody is
told, and Monitor returns nil.

### Transactor and the code

A caller does what `fetchData` does: run a `Transaction` and, when it fails,
write a mark outside of it. `pc`, `depth` and `conn` say where it is, in how
many nested calls, and whether it has a connection; `free` is what the pool of
`SetMaxOpenConns(10)` can still give (`infra/postgres.go`); `aborted` is the
state in which Postgres refuses statements; `wrote`, `stored`, `marked` and
`reply` are what the caller wrote, what others see, and what it was told.

| Action | base_repo.go |
|---|---|
| `Call`, `BeginTx`, `BeginTxFails` | 31-40, 81-90 |
| `Exec`, `ExecOk`, `ExecFails` | a repository call on `getDB(ctx)`, 69-75 |
| `Nested`, `LeaveNested` | 32-34: a nested call only runs its closure |
| `Leave` | the outermost closure returns nil, an error, or panics |
| `CommitTx`, `RollbackTx`, `RollbackOnPanic` | 41-65; the answer of COMMIT may be lost; RollbackTx may fail, which the caller sees as an error either way |
| `Cancel` | database/sql rolls back when the context is done or the connection breaks |
| `Mark` | worker.go 146-149, on a connection of its own |

`IsInTransaction` is the operator on which it rests that a statement in a
closure needs no second connection; its mutant deadlocks the pool.

### TxnProducer, AsyncProducer and the code

`TxnProducer` (kafka_producer.go 127-170, 239-374) models `borrow`, `release` and
`clear` between their locks, reading the top of the stack and taking it as two
steps. What a producer is (`status`, `open`) and what `BeginTxn`, `CommitTxn` and
`AbortTxn` answer is sarama and the brokers, external: every failure they allow,
a commit that was carried out though it is told to have failed included. The
loop after a failed commit is `BreakFatal`, `AbortTxn`, `RetryCommit` and
`CommitNothing`. The id a failed attempt to make a producer uses up is not
counted, and `MaxIds` bounds the others. `visible` takes the messages of a
commit that failed at the step that fails or not at all: what the brokers do with
it later than that, before the next answer, counts as done at that step.

`AsyncProducer` (69-125, 216-237): `SendJson`, `Input`, the answers of one
request (`Answer`), `ReturnSuccess`, `ReturnError`, the goroutine of line 116
(`logged`) and cleanup (`Close`, `Closed`, `reported`). Channels of sarama that
hold messages are one sequence of at most `Room`. That successes come back on a
channel nobody reads, as line 84 asks for them, is `SuccessesAreRead`: only
`Close` drains it.

The two are complete but in no app at this commit; `wire` builds the sync
producer, which is `Send` and `SendFail` of `Worker`.

### S3Stream, Lifecycle, Process and the code

| Action | Code |
|---|---|
| `S3Stream!Submit`, `SubmitInVain`, `Done`, `StopAndWait` | worker.go 277-294 and the like for txs and events: select, the pool without a queue, its context, the deferred `StopAndWait` |
| `Write`, `Close`, `Receive` | worker.go 295-329: gzip into the pipe, close, `<-errCh` and the deferred `close(errCh)` |
| `GiveUp` | worker.go 304-316: a `json.Marshal` that fails ends the task there and then; the deferred `close(errCh)` runs, `pw` stays open, and the uploader is still at work |
| `Uploaded`, `UploadFails` | s3_service.go 118-140; a failed upload stops reading the pipe and does not close it. An answer sent to a task that gave up meets the closed channel: `panicked`, which ends the process, as nothing recovers that goroutine |
| `Lifecycle!Stops`, `Enters`, `Claims`, `Records` | FetchTxs 91-104 and FetchTimeRange: select, a round, its outcome. Statements outside a transaction carry no context (`getDB` returns `repo.db`), and `SendJson` ignores its own, so that a round ends after the signal as before it. `owing` is the loops whose round has not told the table what came of it, `refused` those of them whose last write the database refused (an error `fetchData` drops) |
| `StoreReturns` | worker.go 84-89 |
| `JobRuns`, `JobQueried`, `JobEnds`, `CronStops`, `CronReturns` | cronjob.go: singleton mode; the deferred `Shutdown`, which waits for jobs no longer than gocron's stop timeout of ten seconds. The call to Discord has no time limit |
| `Waited`, `Fatal`, `Cleanup` | main.go 50-63 of either process: `eg.Wait`, `logger.Fatal`, the deferred function |

The batches in the channels of StoreS3 are those a worker would put there;
worker.go:202 still has that as a TODO. Of the three early returns of a task, the
one after `json.Marshal` is `GiveUp`; those after `gzip.NewWriterLevel` with a
constant level and after a write to a pipe nobody closes from the reading side
would be the same step, if they could happen. `!ok` is left out: the channels are
closed after every goroutine has returned. The panic of `S3Stream` stops every
other step of `Process`.

## 3. Runs

`Worker`, one or two topics standing for three (what matters is that the senders
are concurrent and that one topic, blocks, decides on `NoBlocks`):

| Run | Instance | Shows |
|---|---|---|
| `worker_safety` | 2 goroutines in 2 processes, 2 rows, 2 topics, limit 2, all faults | types; `ClaimExclusion`: one owner per row unless a status was written under an owner's eyes; `ClaimsAreFresh`: what a claim finds when it commits is NOT_READY or FAIL, not even the PROCESSING of another call; `ReopenedOnlyByStaleWrite`: DONE is taken back only in a step of a call that had lost the row or has no claim; `DoneAfterFlush`; `LostInTwoWays`: only the unlocked appends and a failed fetch of a batch lose data under DONE; `DoneIsDelivered`: DONE means published, then and later, but for rows that became DONE exposed; `Worker` implements `PublishQueue` |
| `worker_live` | 2 goroutines, 2 rows, 1 topic, limit 2, one row without blocks | `StuckRowsRecovered`: the job alone frees every row, whatever hangs; `EventuallyDone` once faults end, beside a window that is FAILed for ever |
| `worker_failed_fetch` | 1 goroutine, 2 rows | finding 1 |
| `worker_race` | 1 goroutine, 2 rows, no faults | finding 2: `DoneIsPublished`, which is `DoneIsDelivered` without its exception |
| `worker_quarter_hour` | 1 goroutine, the hour in 4 ticks | finding 3 |

`Master`, with the half hour scaled to a few minutes and the batch of ten to
three rows:

| Run | Instance | Shows |
|---|---|---|
| `master` | windows of 4 minutes, batches of 3, clock up to 15 | `NoGaps`; `WindowsValid`; `ResumesNearEnd`; `AtMostTwice`: no minute is in more than two windows; `EveryMinuteCovered` |
| `master_latest` | windows of 3, batches of 3, clock up to 10 | finding 4 |

The composition, the clients and the processes:

| Run | Instance | Shows |
|---|---|---|
| `indexer` | 1 worker, 1 topic, limit 2, windows of 1 minute in batches of 2, clock up to 4, alert after 1 minute | `ImplementsWorker` and `ImplementsMaster`: the whole behaves to each half as that half alone, so what the other runs show holds of the whole; `EveryMinuteAccounted`: no minute is lost between the halves; `MonitorNearLatest`: Monitor's delay is off by less than a batch |
| `indexer_live` | the same | `EveryMinutePublished` once faults end, but for windows that became DONE exposed; `StallIsAlerted`, though messages get lost |
| `clients` | 2 callers, 1 connection, nesting 2, 2 items; 2 producer ids; 3 messages, room for 2 | `Transactor`: types, `NoLeakedConnection`, `ImplementsAtomicStore`, `EveryCallEnds`. `TxnProducer`: `Exclusive`, `PooledReady`, `ImplementsAtomicPublish`, `CallEndsOrRecommits`. `AsyncProducer`: `Accounted`, `CleanupEnds`, `FailureToldOrBlocked` |
| `process` | 2 loops, 2 jobs, 2 batches, one of them of two parts, a pool of 1; tasks that give up, writes the database refuses | types; `NothingCutOff`, `LoggedIsStored`, `NoSendOnClosed`, `ImplementsLifecycle`, `StopEndsUnlessStuck`, `EveryBatchEnds`, `MasterCleansUp` |
| `process_fatal` | the same with one loop and one batch of one part | finding 5 |

Why these bounds are enough to be interesting. Every wrong behaviour of the
claim protocol is between two calls, and two goroutines in two processes also
crash independently. Two rows let a batch be split, half failed and raced over,
and let a revoked call meet a fresh one. A row can go through any number of
claims; nothing bounds retries, crashes or writes. One tick is enough for the
job to overtake any call, since `Tick` may happen at any time. For the master,
15 minutes with windows of 4 leave room for an outage longer than the window, a
split into batches of 3 with a shorter last one, a resume from inside that batch
and a second outage after it. Of `Indexer` only what neither half has alone is
new: rows that appear in batches while others are worked on, a resume from
inside a batch, a window without the minute before it DONE, and the clock
against both; 4 minutes cut into single ones have room for that, and one worker
is claimed from under by the job, crashes, and has batches of two windows, so
that rows become DONE exposed there too. Two callers are the first number
for which a pool of one connection is too small and a stack of producers is
contended; a depth of 2 nests; two producers make the stack one in which the
order matters; three messages and room for two give one that waits, and one
request with a success before a failure. Two batches for a pool of one make
`Submit` wait; two parts let an upload fail half way, and an answer meet the channel of a task
that gave up, which one part does not. A limit of 2 stands for the 20 of
worker.go:40: it is the least with which a batch has several windows, and one
window is lost to one other. The largest runs have 1,032,596 distinct states
(`worker_safety`) and 242,120 (`indexer`, `indexer_live`).
Symmetry is used between goroutines only, in runs without liveness properties.

The three clients of `clients` share no state, so that a behaviour is one of any
of them: the variable `component` says which.

The runs of `clients` and of the two `process` runs set `CHECK_DEADLOCK FALSE`:
an asynchronous producer that is closed, with all calls over, and a process that
has exited, do nothing any more. All other runs check for deadlock: a master or
a worker with nothing to do still takes the step of the call that finds nothing.

## 4. Fairness

- `UpdateFailedStatus`, weak: gocron runs the job every quarter of an hour as
  long as the master runs, and its container is restarted when it does not. Only
  a row that is locked could hold it up, and rows PROCESSING are not locked by
  claims. `Tick`, weak: time passes. `StuckRowsRecovered` is checked with these
  two alone, as the node client has no timeout of its own.
- `WorkerFairness` is the hypothesis of `EventuallyDone`: `Settle`, weak, as
  progress is promised for a time without faults only (a node that fails for
  ever gives none, and the code promises none), and `WorkerStep(w)`, weak: each
  goroutine of the loop keeps running and its calls return, retries included.
- `FetchBlockTime` weak, `CreateMany` strong, in `Master!SpecLive`: the loop runs
  for ever, and a database asked again and again answers one day.
- `Indexer!Fairness`, the same of both halves, is the hypothesis of
  `EveryMinutePublished`; `MonitorFairness` is the only one of `StallIsAlerted`,
  which has to hold however the two halves fail: the scheduler runs the hourly
  job (`GetProcessed`, weak), and Discord takes a message again and again, if not
  each (`Post`, strong). Without a webhook nobody is ever told, by configuration.
- `Transactor!Fairness`: closures return some time, the database answers, and
  database/sql serves those that wait for a connection in turn (strong, for
  `BeginTx` and `Mark`).
- `TxnProducer!Fairness`: goroutines run and get the mutex in turn (a Go mutex
  does not starve), and what the code tries for ever succeeds some time: making
  a producer, aborting, committing again. Without the last two the code's own
  loops never end, by intention.
- `AsyncProducer!Fairness`: callers and sarama run. Cleanup need not come.
- `Process!SpecLive`: goroutines run, S3 answers or the context ends the request,
  and the calls of a round come back. Jobs need not end: a call to Discord may
  hang. The signal need not come either.

No fairness is assumed among rows: the claim has no ORDER BY. Windows without
any block become FAIL and are claimed again for ever, by the code. In
`worker_live` the batch has room for both rows; with more such windows than
`limitCheckpoints` Postgres may prefer them for ever, and nothing in the code
prevents it: `EventuallyDone` does not cover that, as the hazard says.

## 5. Proofs

`tlapm` checks every theorem to the last leaf. `WorkerProofs` assumes
`WorkerAssumption` (finitely many rows, at least one topic, positive limit and
hour), `MasterProofs` assumes `MasterAssumption`: windows are cut at a length
not above the one `Validate` allows, and an INSERT holds at most one row more
than the longest window has minutes (10 against 30 in the code). Without that
last inequality the overlap after a resume could itself be split.
`IndexerAssumption` is both of them for the composition. The others need
positive bounds: connections, depth, ids, room, parts, goroutines of the pool.

| Theorem | States |
|---|---|
| `WorkerProofs!TypeCorrect` | `TypeOK` |
| `WorkerProofs!ClaimSafety` | `ClaimExclusion` |
| `WorkerProofs!CallCorrect` | `CallInv`, the locals of a call fit together |
| `WorkerProofs!FreshClaims` | `ClaimsAreFresh`, of every `CommitClaim` |
| `WorkerProofs!StaleReopen` | `ReopenedOnlyByStaleWrite` |
| `WorkerProofs!FlushedDone` | `DoneAfterFlush` |
| `WorkerProofs!LostTwoWays` | `LostInTwoWays`, for any limit |
| `WorkerProofs!DoneIfClaimed` | `DoneOnlyIfClaimed` |
| `WorkerProofs!NothingForgets` | `NothingForgotten`, of `SpecNoFaults` |
| `WorkerProofs!FaultsForget` | `ForgottenOnlyByFaults` |
| `WorkerProofs!DoneDelivered` | `DoneIsDelivered`, for any limit |
| `WorkerProofs!Refinement` | `ImplementsPublishQueue`, for any limit |
| `MasterProofs!TypeCorrect` | `TypeOK` |
| `MasterProofs!Gapless` | `NoGaps` |
| `MasterProofs!ValidWindows` | `WindowsValid` |
| `MasterProofs!NearEnd` | `ResumesNearEnd` |
| `MasterProofs!TwiceAtMost` | `AtMostTwice` |
| `MasterProofs!CatchUp` | `OneCallCatchesUp` |
| `IndexerProofs!WorkerRefinement` | `ImplementsWorker` |
| `IndexerProofs!MasterRefinement` | `ImplementsMaster` |
| `IndexerProofs!NoMinuteLost` | `EveryMinuteAccounted`, for any limit |
| `IndexerProofs!PublishRefinement` | `ImplementsPublishQueue` of the whole, for any limit |
| `IndexerProofs!RightWindows` | `WindowsRight`: what `Master` promises, of the rows workers write to |
| `IndexerProofs!MonitorNear` | `MonitorNearLatest` |
| `TransactorProofs!TypeCorrect` | `TypeOK` |
| `TransactorProofs!NoLeak` | `NoLeakedConnection` |
| `TransactorProofs!Refinement` | `ImplementsAtomicStore` |
| `TransactorProofs!NeverInPart` | `AllOrNothing` |
| `TransactorProofs!NilIsStored` | `NilMeansStored` |
| `TxnProducerProofs!TypeCorrect` | `TypeOK` |
| `TxnProducerProofs!NotShared` | `Exclusive` |
| `TxnProducerProofs!NoLeftovers` | `PooledReady` |
| `TxnProducerProofs!Refinement` | `ImplementsAtomicPublish` |
| `AsyncProducerProofs!TypeCorrect` | `TypeOK` |
| `AsyncProducerProofs!NothingForgotten` | `Accounted` |
| `ProcessProofs!TypeCorrect` | `TypeOK` |
| `ProcessProofs!LoggedStored` | `LoggedIsStored` |
| `ProcessProofs!SentBeforeClosed` | `NoSendOnClosed` |
| `ProcessProofs!StuckIfLarge` | `StuckOnlyIfLarge` |
| `ProcessProofs!StoreRefinement` | `StoreIsS3Stream` |
| `ProcessProofs!CutsNothingOff` | `NothingCutOff` |
| `ProcessProofs!ExitNeedsSignal` | `ExitsOnlyOnSignal` |
| `ProcessProofs!Refinement` | `ImplementsLifecycle` |
| `ClientsProofs!ClientsTyped` | `ClientsTypeOK` |
| `ClientsProofs!OneProducerPerCall` | `Exclusive` |
| `ClientsProofs!PoolIsReady` | `PooledReady` |
| `ClientsProofs!MessagesAccounted` | `Accounted` |
| `ClientsProofs!PublishedByOwnCall` | `ImplementsAtomicPublish` |

The arguments:

- **Claims.** `ClaimExclusion` is not inductive: that two calls do not own a row
  follows from what its status was when the second one locked it. `ClaimInv` adds
  that rows of an open claim are NOT_READY or FAIL (`LockedClaimable`; nobody can
  write to them), that open claims are disjoint (`LocksDisjoint`), and that a
  call that works on a row and has not lost it finds it PROCESSING
  (`HeldProcessing`). Then a claim cannot lock a row whose owner has not lost it.
- **Calls.** `CallInv` says how the locals of one call fit together. The part
  about a batch of one row is what excludes the race: the only goroutine that
  appends has read what the slice still holds, so nothing it appended is lost.
- **Appends.** `LostTwoWays` is about batches of any size. `AppendInv` says of
  each goroutine and topic: what it read is what the slice still holds, and what
  it has appended is there, unless another window of the batch, fetched as well,
  has data for the same topic (`Shared`). It is inductive because a window is
  fetched before it is appended and stays so until the call is over, so whoever
  changed the slice under a goroutine is `Shared`. Finding 1 and finding 2 are
  thus all that loses data under DONE.
- **What becomes of a claim.** A window a call works on has been claimed and is
  never new again (`WorkedInv`); with `HeldProcessing` that gives
  `DoneIfClaimed`. `AwaitedNext`: with working writes, every way out of a call
  writes to all its rows, so a row is left PROCESSING by a fault or by nothing.
  These three are stated by theorems only; `StuckRowsRecovered` is what the runs
  check of the rows faults leave.
- **Delivered.** The same two invariants give `DoneIsDelivered` for any limit. In
  the step to DONE the senders have stored what is in the slices, `CallInv` says
  that a window fetched has appended to all its topics, and `AppendInv` that the
  slice still holds it unless the window is `Shared`; what is not stored is thus
  `AtRisk`, and `Expose` takes it (`DeliveredStep`). Later steps keep it: `kafka`
  only grows, and a row that stays DONE stays as exposed as it was (`DoneStays`,
  `ExposedKept`). For the refinement, a step that stores data is `Publish`, one
  that ends a call `Complete` of its rows that are not at risk, one that writes to
  rows that were DONE `Reopen` of those, and all others stutter.
- **Who writes.** `FreshClaims` is about the rows at the moment the claim
  transaction commits, not about whether their status changes: `LockedClaimable`
  says what they are. `StaleReopen` names the call that takes the step (`Acts`).
- **Master.** `NoGaps` needs what the master has in hand between read and insert
  (`PlanOK`: the range goes on from a row created last, and no row ends after it)
  and that a row created last ends less than a batch before the last window
  (`ResumesNearEnd`). That one is `LastBatch`: the last window of a split is
  always new, the rows of its INSERT are the last batch or a part of it, and so
  all of them end within a batch of the end.
- **At most twice.** A resume from inside a batch gives an overlap, and the next
  resume could overlap that. It does not, because whatever ends after a row
  created last is one minute long (`TailSingle`, and `PlanSingle` for what the
  master has in hand): cut again, the minutes are rows the table has; left
  whole, the one new window overlaps single minutes that no third row covers.
- **Catching up.** `CatchUp` is the reason the master needs no retry: the plan
  is a range that is not empty (`PlanOK`), the last of its windows ends at `to`
  (`WindowsPartition`), and once that row is in the table `NoGaps` covers every
  minute between any window and it, those of missed calls too.
- **Composition.** `WorkerRefinement` and `MasterRefinement` need that what calls
  have in hand are rows of the table (`HeldInv`), that `created_at` has a
  greatest value (`StampInv`) and that the master's plan is a range
  (`PlanInv`): then the `NewestIn` of the table is what `Master` computes.
  `NoMinuteLost` follows from them with `DoneDelivered` and `Gapless`, cited as
  theorems of the halves. `MonitorNear` needs that ends and stamps grow together
  up to a batch (`StampsNearEnds`), also in the INSERTs planned (`PlanNearEnds`).
  `PublishRefinement` and `RightWindows` carry the refinement of `PublishQueue`
  and the four invariants of `Master` over to the whole.
- **Transactor.** `PlaceInv` says what a caller has where it is; `CountInv` that
  the connections taken and those free add up. Then only the end of the outermost
  call stores, all or nothing, which is `Return` of `AtomicStore`.
- **Producers.** `PoolInv`: the lock belongs to the caller between Lock and Unlock
  (`LockInv`), ids above the generator are unused (`FreshInv`), what a call knows
  of its producer (`CallInv`), and that a producer is in one place (`OnePlace`).
  `AccountInv`: a message is stored before its success is returned, and a closed
  producer holds none. `Refinement` to `AtomicPublish` needs `PublishInv`: a
  message in an open transaction is one of the call that has the producer, but
  for producers in a fatal state, which are never used again; and a call that
  commits has its messages in. `Publish` is the commit that succeeds though the
  call is told otherwise, or that is tried again.
- **Clients.** A step of one client leaves the variables of the other two
  (`EachIsItself`), and a client of `MCClients` is that of its proof module under
  another name (`SameTxnProducer`, `SameAsyncProducer`), so that each theorem of
  a client is one of the three side by side.
- **Process.** `UploadInv` pairs a task with its uploader: a task that comes to
  its end does so after the one answer was sent, which is nil only of an object
  that is there. `PanicInv`: where a send has panicked, the task had given up,
  and its uploader had something to send before the pipe was closed, which takes
  two parts; with `UploadInv` that is `SentBeforeClosed`. `JoinInv` says that
  `main` goes on after all goroutines have returned, when no loop owes the table
  a write that was not refused; so `CutsNothingOff` has those two exceptions,
  the refused write and the upload of a task that gave up. Lifecycle's
  `StoreReturns` is the step in which StoreS3 returns, after the context is
  done. `PipeInv`: an uploader that gave up under a writing task has read part
  of the batch and not all, which takes two parts (`StuckIfLarge`). `StopInv`:
  whatever has ended, has ended after the signal (`ExitNeedsSignal`). Where
  `Refinement` hides the uploads, `StoreRefinement` hides all the rest: every
  step of the process is a step of `S3Stream`, with the signal for its context,
  or none.

Only model-checked: the liveness properties (`StuckRowsRecovered`,
`EventuallyDone`, `EveryMinuteCovered`, `EveryMinutePublished`, `StallIsAlerted`,
`EveryCallEnds`, `CallEndsOrRecommits`, `CleanupEnds`, `FailureToldOrBlocked`,
`StopEndsUnlessStuck`, `EveryBatchEnds`, `MasterCleansUp`), which are out of the
prover's reach. Every other property of a passing run is a theorem.

Stated by theorems only, as no run has room for them or a run would show less:
`OneCallCatchesUp` and `TypeOK` of `Master`, `DoneOnlyIfClaimed`,
`NothingForgotten` and `ForgottenOnlyByFaults` of `Worker`, `WindowsRight` and
`ImplementsPublishQueue` of `Indexer`, `StuckOnlyIfLarge`, `StoreIsS3Stream` and
`ExitsOnlyOnSignal` of `Process`, `AllOrNothing` and `NilMeansStored` of
`Transactor`. Not proved of `MCClients` is `ImplementsAtomicStore`, which
`TransactorProofs!Refinement` states of `Transactor` itself.

## 6. Findings

1. `worker_failed_fetch`: a batch in which one fetch failed is marked DONE as a
   whole; line 256 overwrites the FAIL that line 186 wrote for that window
   (worker.go:184 promises the FAIL). The window is never fetched again.
2. `worker_race`: with no fault at all, two goroutines of a batch append to the
   same slice, one append is lost, and its window is marked DONE.
   `LostInTwoWays` proves that nothing else loses data under DONE. The code's
   limit is 20, and a worker that catches up has batches of that many windows.
3. `worker_quarter_hour`: the job waits an hour, not the 15 minutes of the
   comment at cronjob.go:46.
4. `master_latest`: after an outage of more than half an hour the next call may
   resume from any of the last ten rows, not from the latest (app.go:49). What
   comes of it is a window that overlaps up to nine others; `NoGaps` and
   `AtMostTwice` show that nothing worse does.
5. `process_fatal`: StoreS3's goroutine returns an error in any case
   (worker.go:88), so a worker that is asked to stop reaches `logger.Fatal`
   (main.go:62), which exits past the deferred cleanup of main.go:52. The master
   has no such goroutine, and `MasterCleansUp` holds.

Five more are stated as the exception in a property that otherwise holds:

- `CallEndsOrRecommits`: the loop of the transactional producer does not leave
  after a retry that succeeds (kafka_producer.go:364): it commits a transaction
  that is over, again and again, with the producer in its hands.
- `FailureToldOrBlocked`: successes are asked for and nobody reads them
  (kafka_producer.go:84); behind the first one failures wait for cleanup, and the
  input fills up. The exception is a producer blocked for ever: a failure that
  cleanup comes for is told.
- `NoSendOnClosed`, `NothingCutOff`: a task of StoreS3 that returns early
  (worker.go:304-316) closes `errCh` under its uploader and never closes `pw`. A
  batch of one part leaves that uploader at the pipe for ever; of one of several
  parts it may send on the closed channel, which ends the process.
- `StopEndsUnlessStuck`, `EveryBatchEnds`: an upload that fails half way leaves
  the writer at its pipe (worker.go:312), its goroutine lost to the pool and the
  stop of the process waiting for it.
- `StallIsAlerted` promises an alert when no recent window is DONE. Monitor looks
  at the newest DONE row only (master.go:117): an old window that never becomes
  DONE raises none, nor does a table in which no row ever was.

## 7. Not modelled, and what is left

Not modelled:

- **Redis repository**: in no app; wrappers of client calls and two loops that
  cut a list into chunks, without state of their own.
- **Configuration and sessions**: read once, no behaviour over time.
- **Helpers** (`pkg/caching`, `pkg/retry`, `pkg/misc`) and the HTTP health check:
  no caller in the two apps, or a constant answer.
- **Uncalled methods** of the repositories, scopes and the S3 service
  (`GetOne`, `Save`, `UpdateOne`, `ListObjects`, `CreateBucket`, `UploadFile`,
  `DeleteFolder`), and the `WithTimeout` variants of the transactor.
- **The throttle of alerts** (three seconds between messages): the job is hourly.
- Partition keys, JSON, compression and log lines, about which no property is.

What is left to do:

1. `Indexer` with two workers, and windows longer than a minute: larger than TLC explores with the liveness properties; the
   refinement theorems cover the safety part.
2. Starvation among rows in `worker_live`: more windows without blocks than the
   limit, which needs a statement of what order Postgres is to be trusted with.
3. Liveness beyond TLC's instances, when the prover can do it.
