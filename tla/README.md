# A TLA+ verification of RunScope

RunScope runs machine-learning templates on a small fleet of workers. An API
stores *runs* in PostgreSQL, a scheduler places queued runs on workers, an outbox
dispatcher publishes the assignments to Kafka, and worker processes execute
them. All coordination goes through database rows: leases (`resource_allocations`),
an optimistic version column on `runs`, and row locks.

A web page follows a run by polling and by a stream of live events over Redis.

This directory models that coordination, checks it with TLC on small instances, and
proves its main safety properties with TLAPS for every number of runs, workers,
leases, messages and checkpoints. Paths below are relative to `services/` unless they say otherwise.

## 1. Inventory

| Component | State | Operations | Module |
|---|---|---|---|
| Run state machine (`api/runscope_api/state_machine.py`) | none | `validate_transition`, `transition_run` | `RunStates` |
| Run API (`api/runs.py`, `run_execution.create_queued_run`) | `runs` | create, cancel, retry, PATCH metadata | `RunControl` |
| Scheduler (`scheduler/runscope_scheduler/service.py`) | `runs`, `resource_allocations`, `workers`, `outbox_messages` | `recover_expired_allocations`, `schedule_once`, polling loop | `RunControl`, `WorkerCapacity` |
| Worker registry (`worker_registry.py`, `api/workers.py`) | `workers`, lease expiry | register, heartbeat, `release_allocation`, `refresh_worker_capacity` | `RunControl`, `WorkerCapacity` |
| Outbox dispatcher (`outbox.py`) | `outbox_messages` | `dispatch_batch`, loop | `Outbox`, `RunControl` |
| Broker client (`broker.py`) | topic, committed offsets | publish, consume, commit the offset | `RunControl`, `Outbox` |
| Template worker (`worker/runscope_worker/main.py`, `run_execution.py`) | session copies of rows, `processed_messages` | consume, start, checkpoint, execute, outcome, record, acknowledge | `RunControl` |
| Artifact store (`storage.py`) | objects | put with retries, get | `RunControl`, `RunPage` |
| Live events and SSE (`live_events.py`, `api/runs.py`, `apps/web/.../useRunStream.ts`) | Redis subscriptions, streams | publish, subscribe, disconnect, reconnect | `RunPage` |
| Run page (`apps/web/.../RunDetailPage.tsx`) | the answers it shows, requests under way | poll, refetch on events, cancel, edit, download | `RunPage` |
| Lists and comparison (`api/runs.py`, `RunsPage.tsx`) | the page number | `list_runs`, `compare_runs` | `RunLists` |
| Migrations (`api/alembic`) | the schema, `alembic_version` | upgrade, downgrade | `Migrations` |
| Projects and experiments (`api/projects.py`, `api/experiments.py`) | names, parent rows | create, rename, delete | `Catalog` |
| Health, authentication, template schemas, seeding, other web pages | none of their own | | not modelled (section 6) |

How they interact. The API, the scheduler and the workers share no memory. The scheduler
writes a lease and, in the same transaction, a `run.assigned` outbox row that carries the lease
token. The dispatcher publishes the row, at least once. The worker named in the event checks
run status, worker and token, starts the run, executes it and commits the outcome together with
the release of the lease. Heartbeats renew the leases; a missing heartbeat makes the scheduler
declare the worker `STALE` and recover its runs.

What is hard here:

- a worker holds a copy of the run row over minutes, while the API cancels it, a
  user edits its notes and the scheduler takes it away: only the version check at commit protects it;
- a lease can lapse under an executor that is alive and comes back;
- events are duplicated (the dispatcher dies between publish and commit, offset commits fail)
  and dropped (a handler that raises is logged and its offset committed);
- workers crash and restart under the same name, and the leases are renewed by name;
- the artifact upload and the commit that reports success are not one transaction;
- the free-capacity column is recomputed without a lock by some transactions and changed
  under a lock by others;
- live events are lost without notice, answers overtake each other, and the page stops polling
  when it believes the run to be finished;
- a batch of the outbox sends before it commits, beside another dispatcher, with a message in
  front that can never be sent;
- lists are read page by page, and each page as two statements, while they change;
- migrations are applied and taken back on a database that has rows, by commands that may overlap;
- checks before a write take no lock (names, parents), and a table's constraint is not the same check.

What makes it correct: active runs and unreleased leases correspond one to one; no run is
executed by two workers; nobody whose lease was reclaimed decides anything; outcomes
are final; a success has its artifact; the leases of dead workers come back; workers always
return to the queue; a message is published or uses up its own attempts; the page ends up
showing the truth and never a false outcome; a schema is the one its version stands for. `PROJECT.json` lists each hazard at its line with the properties that
would catch it.

## 2. Modules

- `RunStates` - statuses and the transition table.
- `RunLedger` - the contract: per run, a status and its holder; place, take back, move, start
  once, cancel, finish. Nothing about events, versions, sessions or clocks.
- `RunControl` - the control plane in detail.
- `WorkerCapacity` - `workers.available_cpu`, statement by statement.
- `Catalog` - projects and experiments: check-then-write requests against table constraints.
- `Outbox` - the dispatchers, batch by batch.
- `RunPage` - one run as a browser sees it: executor, live events, stream, queries, commands.
- `RunLists` - lists of runs page by page, and comparisons.
- `Migrations` - the revisions 0001 to 0005 as statements, and the commands that apply them.
- `MCRunControl`, `MCWorkerCapacity`, `MCCatalog`, `MCOutbox`, `MCRunPage`, `MCRunLists`,
  `MCMigrations` - values for the constants.
- `RunControlProofs`, `WorkerCapacityProofs`, `CatalogProofs`, `OutboxProofs`, `RunPageProofs`,
  `RunListsProofs`, `MigrationsProofs` - theorems about the module of that name.
- `FoldFacts` - lemmas about sums over sets and folds over sequences.

### RunControl

An action is a database transaction, taken at its commit, or one step of a worker between two
transactions. PostgreSQL runs at READ COMMITTED and `runs.version` is a
`version_id_col`, so a transaction that wrote a run either finds the version it read or
fails without effect; the actions of the API and of the scheduler (which locks the rows it reads
or fails on the version) are therefore atomic. Worker executions are not: they read
in `ReceiveEvent`, `Checkpoint` and `HandleFailure`, and write in `StartRun` and
`CommitOutcome`, with everything else in between.

| Action | Code | Remarks |
|---|---|---|
| `CreateRun`, `RetryRun` | `create_run`, `retry_run` | `INSERT` then `UPDATE` to `QUEUED` in one transaction: version 2 |
| `CancelRun`, `UpdateRunMetadata` | `cancel_run`, PATCH | both move the version on |
| `ScheduleOnce` | `schedule_once` | stale workers, recovery, placement in one transaction; `SKIP LOCKED` is a choice of subsets; a run requeued by the pass may be placed by it |
| `StartWorker`, `HeartbeatLoop` | `run_worker`, `heartbeat_loop` | a heartbeat writes the status column only if it read another value, hence the choice in `HeartbeatWorker` |
| `RegisterByAdmin`, `HeartbeatByAdmin` | `api/workers.py` | the same operations called over HTTP |
| `HeartbeatLapses`, `LeaseLapses` | the comparisons with `now` | time: for a worker that is down, or for a live one under "delay" |
| `Publish`, `PublishUnmarked`, `PublishFails` | `dispatch_batch` | success, death before the commit, an exception (with or without delivery) |
| `ReceiveEvent` | `process_event`, `process_assignment` | duplicate, refused or accepted |
| `StartRun`, `Checkpoint`, `FinishSlow`, `ExecuteTemplate`, `HandleFailure`, `CommitOutcome` | `execute_existing_run`, `execute_slow_run` | the failure handler can itself raise: the rollback expires the session's rows |
| `MarkProcessed`, `CommitOffset`, `OffsetCommitFails` | end of `process_assignment`, consumer loop | a failed offset commit leaves the worker `"deaf"`, see below |
| `ProcessingFails`, `Crash` | any statement fails; the process dies | |

A lease is the record `[run, seq, worker]`: `seq` plays the lease token, and since the
`run.assigned` event carries run, worker and token the event is the same record. The events
of a worker beyond its committed offset are a set, taken in any order; this allows more
orders than a partition does, never fewer. The priority order, the limit of 100 runs
per pass and the least-loaded choice are abstracted to any choice among healthy workers.
`Env` names the disturbances that a configuration allows.

A failed offset commit ends the generator `events()`, whose `finally` stops the consumer. The broker
loop logs "reconnecting" and calls `events()` again on the same `AIOKafkaConsumer`, which is not
usable after `stop()`. The process then lives, its heartbeats go on, it stays `ONLINE` and is given
runs, but reads no event until it is restarted (`"deaf"`); such runs stay `SCHEDULING`.

Left out because no property tells them apart: `RunEvent` audit rows and timestamps. Logs,
metrics and live publishes are in `RunPage`, the order and the locks of a batch of the outbox in
`Outbox`.

### WorkerCapacity

One worker row. The scheduler's transaction holds the row lock from its first placement, or
from the flush that follows its first recovered allocation, until it commits.
`release_allocation` and the heartbeat read the row and sum the allocations
without a lock and write at commit, if the value differs from the one they loaded;
registration locks first. The statuses of runs are left to `RunControl`. Two simplifications:
`Total` is a constant, although `register_worker` overwrites `total_cpu` and `total_memory` with
what its caller sends; and in `Recover` the unlocked sum and the later flush of the update are one
step (a release that commits between them leaves the code's value below the model's, so this
hides no overstatement).

### Catalog

A request is a lookup, a check that takes no lock, and a write at commit; the actions are
these statements. What the constraints of `models.py` (`uq_experiments_project_name` and the
`RESTRICT` foreign keys) refuse ends the request without effect. An UPDATE of a row that is
gone raises in the ORM; a DELETE of one is a no-op; a name equal to the one loaded is not
written. Ids are fresh.

### Outbox

One transaction per batch: `Select` locks the oldest rows that are unpublished, have attempts
left and are not locked (`SKIP LOCKED`); `PublishSucceeds` and `PublishFails` go through them in
the order of `created_at`; after a failure the loop is left and the rest keeps its attempts;
`Commit` writes all marks. `Abort` is a rollback at any point: what the broker took stays
sent. `created_at` is the time at which the inserting transaction began, so an older row may
appear later (`Insert` is in any order). A broker that is down may still have taken the
message whose publish raised.

### RunPage

`db` is what is committed; everything else is an earlier value of it. The executor commits a log,
a checkpoint or an outcome and then publishes (`announce`), before it goes on; the events of one
commit are one event, since the page reacts to all of them alike. `Publish` delivers or loses.
`Recover` is the scheduler, which publishes nothing.

The page has two kinds of queries: the run, which is polled until it shows an outcome, and the
lists (`"rows"`), which are polled always. A timer and the API's answer are one step, `Poll`: in
between nothing of the page depends on the request. An event (`HandleEvent`) invalidates all
queries: requests under way are abandoned and sent again, except that the first load of a query
is joined, which is what `invalidateQueries` does by default; the reader waits for all answers
before it reads the next event. A command's answer is written over what the page shows
(`setQueryData`). `CloseStream` is the API noticing that nobody reads; nothing is assumed of when,
and that the timeout of 15 seconds resumes it is not claimed.

### RunLists

`list_runs` is a count and a page, with whatever is committed in between. The database may return
rows in any order that the `ORDER BY` admits (`Orders`); `walk` is a user who goes on while
`page < pages`. History variables note which rows were in the list all the time. `compare_runs`
is three refusals and, per metric, Python's `max` over the requested order.

### Migrations

A schema is a set of tables and types, references and indexes; a revision is a sequence of
statements with PostgreSQL's preconditions (`Accepted`) and effects (`Added`, `Removed`). `env.py`
runs all revisions of a command in one transaction. Commands overlap: each sees the committed schema
with its own changes (`View`), so that what another has committed meanwhile may refuse its next
statement (a type or a table that is there already, an index that is gone). A statement waits while
another open transaction holds a lock on what it touches (`LocksFree`), and is refused or accepted
by what has become of it afterwards. After each revision alembic updates the version row, which
stays locked until the end; if another command has moved the version, the update matches no row and
the command fails (`VersionRowLost`). `overtaken` is a history variable: some other command has
committed since this one began. Only one datum matters: whether rows of `runs` name a worker, since the
foreign key of 0005 is the only one added to an existing table. `ModelSchema` is read off the
ORM classes, independently of the revisions.

## 3. Runs

| Run | Instance | Checks |
|---|---|---|
| `leases` | 1 slow run, 2 symmetric workers, 2 leases; late heartbeats, crashes, database failures, assignments published twice | `LeaseIffActive`, `OneLeaseAsAssigned`, `NoDoubleExecution`, `ExecutorHoldsLease`, `StartedUnderLease`, `ImplementsLedger` |
| `faults` | 1 slow run with 1 checkpoint, 1 worker, 2 leases, 1 publish attempt, all disturbances but a dispatcher that dies after a publish | `TypeOK`, `SucceededHasArtifact`, `CopyIsHistory`, `OutcomeUnderLease`, `OutcomeIsFinal`, `CancelHonouredAtCheckpoint` |
| `progress` | 2 classification runs, the second possibly a retry, 1 worker that crashes; failing storage, templates, statements and broker | `RetryOfFailed`, `AbandonedLeasesReclaimed`, `WorkerComesBack` |
| `capacity` | 3 runs of cpu 1, 1, 2 on a worker of cpu 2 | `CapacityTypeOK`, `OnlyStaleWritesOverstate`, `CapacityConverges` |
| `catalog` | 2 projects, 2 experiments, 2 spellings of a name and the empty one, 2 requests at a time | `CatalogTypeOK`, `Rooted` |
| `page` | a run of either template, 1 checkpoint, 1 edit, 1 stream, 1 event on the wire | `PageTypeOK`, `ShownOutcomeIsTrue`, `FreshAfterEvent`, `ListedIsDownloadable`, `PageCatchesUp`, `ReaderComesBack` |
| `listing` | 4 runs in pairs created at the same time, pages of 2, 3 filters | `ListsTypeOK`, `CalmWalkIsExact`, `EnteringHidesNothing`, `BestIsFirstMaximum` |
| `outbox` | 3 messages, the oldest unpublishable, 2 dispatchers, batches of 2, 2 attempts, 1 rollback | `OutboxTypeOK`, `PublishedWasSent`, `DuplicatesExplained`, `FailureCostsOneAttempt`, `MessagesSettle` |
| `migrations` | 2 overlapping processes, all versions | `MigrationTypeOK`, `SchemaMatchesVersion`, `HeadServesModels`, `RefusedOnlyForOrphans` |

Three runs show the code departing from what the repository says of it. Each checks one
property that states the sentence, and TLC's trace is the scenario:

| Run | Statement | What the code does |
|---|---|---|
| `unattended` | `docs/OPERATIONS.md`: a restarted worker's lease lasts until expiry, then the run is reconciled; ADR-014 likewise | the restarted worker records the redelivered event without executing it and renews the lease by name, so the run stays as it is while the worker lives |
| `oversubscribed` | `test_scheduler.py`: a run stays queued when capacity is insufficient | a release's unlocked sum overwrites what the scheduler committed; the next pass overcommits |
| `names` | `test_projects_experiments.py`: creating "baseline" beside "Baseline" is a conflict | the check takes no lock and the constraint compares exactly, so two requests at a time store both spellings (`NamesDistinctInAnyCase`) |

`UnattendedReconciled` is about every run that holds a lease although nobody executes it or will:
its worker restarted, or lost its consumer; its start failed because the row had been edited, and the event was
dropped; it was cancelled after the last checkpoint, so that the outcome could not be committed; or
its assignment used up its publish attempts. All end in the same loop of renewed leases.

Three more departures from the documents need no run of their own. `docs/EVENT_CONTRACTS.md` says that the
deduplication pair is inserted before the effects and in the same transaction, while
`process_assignment` inserts it last, in a transaction of its own (`MarkProcessed` follows
`CommitOutcome`); the properties of `leases` and `faults` hold without that order. ADR-010 says that
offsets are committed after handling an event, while `run_worker` swallows the exceptions of a
handler and the consumer then commits (`Raise`, `CommitOffset`). And
`docs/DATA_MODEL.md` draws `FAILED -> RETRYING -> QUEUED` and says that a failed run "may begin the
explicit retry transition"; no code makes it. `retry_run` creates a new run with the failed one as
its parent, which stays `FAILED` (ADR-012), and that is what `OutcomeIsFinal` and `RetryOfFailed` state.

`CancelHonouredAtCheckpoint` has the exceptions that the code has. A checkpoint refreshes the row
(`run_execution.py:295`) and commits `CANCELLED` some statements later (`:306`). If the process
dies, recovery decides. If a metadata PATCH is committed in between, or a statement fails, the commit
raises, the event is swallowed and the run stays `CANCELLING` under a lease that the heartbeats renew:
`UnattendedReconciled` again. A cancellation after the last checkpoint is not claimed to be honoured.

`WorkerComesBack` says that no failure keeps a worker inside an event. It does not say that the
worker reads the next one: after a failed offset commit it does not.

`FreshAfterEvent` is about the lists of the page; the run query, which a command may overwrite, is
covered by `ShownOutcomeIsTrue` and `PageCatchesUp`. `ReaderComesBack` says that an event's reaction
ends: each refetch that the reader awaits is answered, fails or is joined to a first load.

`RefusedOnlyForOrphans` is about a command that nobody has overtaken: a command that overlaps with
one that commits may be refused on any statement, or on the version row, and is rolled back; that this
leaves the schema whole is `SchemaMatchesVersion`. It still tells an operator something: after a downgrade of 0005 with
assigned runs, every later `upgrade head` is refused until `runs.assigned_worker_id` is cleared.
`OnlyStaleWritesOverstate` says where the oversubscription shown by `oversubscribed` comes from, and
that it comes from nowhere else: the unlocked recomputations, written after a batch that they did
not see. `EnteringHidesNothing` is as strong as it can be: with a status filter, runs that leave
the list move later ones to a page that has been seen, and those are missed.

### Bounds, and why they are enough

- One run and two workers are the smallest instance with a reassignment and a late executor; two
  leases give one stale token and one current. A third worker or lease only adds a second stale
  executor, which meets the same guards. The theorems cover every size.
- `MaxVersion` bounds metadata edits only. In `faults` it is 6, which leaves edits before the
  placement (version 2), between read and start (3), during execution (4) and while `CANCELLING` (5).
  The other runs of `RunControl` have none: an edit only makes a start or an outcome fail, as
  the database failures of `leases` and `progress` do.
- `Steps` = 1 gives a cancellation before the checkpoint and one after the last; further
  checkpoints repeat the same read and commit, and the theorems cover every number. In `RunPage`, where only the page's view of it matters, 1 checkpoint after the start log is
  enough for an event that is overtaken by the next.
- Two runs are what a retry, and a scheduler pass that moves several runs, need; one lease each, as a
  retry needs a run that failed under its first.
- 1, 1, 2 on 2: a run that fits alone and does not fit beside another one.
- Two requests are what a stale check needs; a third adds another stale check of the same kind.
- `MaxAttempts` in `RunControl`: with 1, a publish that fails is the last one; the attempts that may
  follow one another are counted in `outbox`, with 2.
- `MaxWire` and `MaxStreams` = 1: a second event on the wire waits for the first; a page that
  has lost its stream for good still has to catch up. `RunPageProofs` covers any number.
- Three messages in batches of two: a poisoned head, one behind it and one in the next batch;
  `MaxAborts` = 1 separates "sent twice" from "explained".
- Four runs, pages of two: a full page, a part of one and none, with a tie inside and across
  the border of pages. `MaxCompared` = 3 of the code's 5: a first, a later and a middle maximum.

Deadlock checking is on in every run: heartbeats, polls or new requests remain possible.

### Fairness

`FairSpec` of `RunControl` assumes that loops that the code runs for ever keep running:
`run_scheduler` (`FullPass`, a pass that meets no locked row: locks last for one short
transaction, and the loop survives its exceptions), `run_outbox_dispatcher`, each live worker's
consume loop and heartbeat loop, and that time passes for workers that are down. It does not
assume that any template succeeds, that a crash is rare, or that a pass places anything.
`RestartingSpec` adds that dead workers are restarted, as the compose file's restart policy
does; `unattended` uses it, so the run is not stuck for want of a worker. In `WorkerCapacity`
the open transactions finish and the heartbeat goes on. In `Outbox` each dispatcher's loop goes on
(it catches every exception and sleeps at most 5 seconds); nothing is assumed of the broker, and
`MessagesSettle` holds even if it is down for ever. In `RunPage` the page's timers fire and not
every poll fails; nothing is assumed of the executor, of recovery, of the delivery of any live
event or of the API's end of a stream.

## 4. Proofs

Every invariant and every action property that a passing run checks is also proved, for all
constants that satisfy the assumption named beside it. Those of `RunControl` are
`ConstantsAssumption` and `NoJobAssumption` (the nulls are not members of the sets they are
added to, the bounds are natural numbers):

| Theorem | States |
|---|---|
| `TypeCorrect` | `Spec => []TypeOK` |
| `Coherence` | `Spec => []Coherent`, the inductive invariant |
| `LeaseSafety`, `ExecutionExclusion`, `NoFalseSuccess` | `LeaseIffActive`, `NoDoubleExecution`, `SucceededHasArtifact` |
| `SingleLease`, `ExecutorsLease`, `CopiesAreHistory`, `RetriesOfFailed` | `OneLeaseAsAssigned`, `ExecutorHoldsLease`, `CopyIsHistory`, `RetryOfFailed` |
| `Refinement` | `Spec => ImplementsLedger` |
| `FinalOutcomes`, `Fencing`, `StartsUnderLease` | `OutcomeIsFinal`, `OutcomeUnderLease`, `StartedUnderLease` |
| `CatalogTypes`, `CatalogRooted` | `CatalogTypeOK`, `Rooted`, under `CatalogAssumption` |
| `OutboxTypeCorrect`, `OutboxSent`, `OutboxDuplicates`, `OutboxOneAttempt` | `OutboxTypeOK`, `PublishedWasSent`, `DuplicatesExplained`, `FailureCostsOneAttempt`, under `OutboxAssumption` |
| `PageTypesCorrect`, `PageOutcomes`, `PageDownloads`, `PageFreshness` | `PageTypeOK`, `ShownOutcomeIsTrue`, `ListedIsDownloadable`, `FreshAfterEvent`, under `PageAssumption` |
| `PageFollowsLedger` | `Spec => [][Ledger!LedgerNext]_(Ledger!lvars)`: the run of `RunPage` takes only steps of `RunLedger` |
| `CapacityTypes`, `Overstatement` | `CapacityTypeOK`, `OnlyStaleWritesOverstate`, under `CapacityAssumption` |
| `ListsTypes`, `CalmWalks`, `EnteringWalks`, `BestByMetric` | `ListsTypeOK`, `CalmWalkIsExact`, `EnteringHidesNothing`, `BestIsFirstMaximum`, under `ListsAssumption` |
| `MigrationTypes`, `SchemaOfVersion`, `HeadIsModels`, `Refusals` | `MigrationTypeOK`, `SchemaMatchesVersion`, `HeadServesModels`, `RefusedOnlyForOrphans`, under `RevisionsFit` |

The argument. `NoDoubleExecution` is not inductive: a worker about to start could start a run that
another executes. `StartRun` succeeds only on an unchanged row, so what is needed is that an
unchanged row is still `SCHEDULING` and that the lease of the event is still active
(`ExecutorHoldsLease`). That holds because the copy is a true piece of the row's history
(`CopyIsHistory`: never ahead, and equal to the row if the versions agree), because every
transaction that takes a lease away also moves the status and with it the version, and
because a run has a lease exactly in the leased statuses (`LeaseIffActive`) and only
one (`OneLeaseAsAssigned`). An executing worker's run is in a started status and
never returns to `SCHEDULING`, so nobody else can start it. `Coherent` is the conjunction of
these with `SucceededHasArtifact` and `RetryOfFailed`; each is also checked by a TLC run. The
proofs go action by action; a lemma on what a pass does to one run carries the scheduler's
case. The refinement maps the ledger's `holder` to the set of workers with an unreleased
allocation of the run.

For `Catalog`, `Rooted` is inductive together with the types: what a request checked earlier may be
gone when it writes, and only the foreign keys at the write are used. Nothing about names is
proved beyond types: what the test expects of them does not hold.

For `Outbox`, `DuplicatesExplained` needs that the rows of two open batches are disjoint (the
row locks), that a locked row is neither marked nor counted by anyone else, and an account of
each message: what was sent is covered by counted failures, rollbacks, the open batch that
holds the message, or its mark. `OutboxCoherence` states this invariant. The account also
gives that a row is marked only after it was sent, and that a batch has at most one failed row,
older than all it leaves.

For `RunPage`, a committed row only moves forward (`Forward`): an outcome is never left. So an
outcome that was read, answered or shown at any time still is the run's status (`OutcomeSound`),
however many answers overtake each other. That the executor respects it rests on `CopySound`: its
copy of the row is older than the row, or equal to it, and a commit is admitted only with an
equal version. Artifact rows are written once, after all contents (`FilesSound`), and contents
are never removed, so a list of artifacts that was true stays so. For `FreshAfterEvent`, the rows
only grow, so whatever is read after a commit covers what its event announces (`FreshSound`,
carried from the wire through the stream to the page's requests); the classification
template, which logs nothing before its outcome, needs a case of its own (`Silent`).
`PageFollowsLedger` ties the two views of a run together: `RunControl` implements the contract
from the submission on, and what `RunPage` leaves of the executor, of recovery and of the
commands takes only steps of the same contract.

For `WorkerCapacity`, types are not inductive by themselves: a release could end a run that the
open batch releases as well. `CapacityIInv` adds the lock discipline (`LocksOK`: the row is locked
by the scheduler exactly while its batch is open, and by a registration exactly while it runs),
that a worker's release and the scheduler's never meet on one allocation (`ReleasesOK`), and the
account of the open batch (`AccountOK`): its own value and the cpu it has placed make up the
committed value, if it has released nothing, and otherwise at most what its last recomputation left
free. Nobody else can write the row meanwhile, and releases by workers only free more, so a batch
that finds the column accounted for leaves it so. What remains of `OnlyStaleWritesOverstate` is the
recomputations, where the excuse is the conclusion: the written value exceeds what is free now.
The sums need that taking any run out of a set takes its cpu out of the sum, whichever run the
fold chooses first (`UsedWithout`); monotonicity and additivity follow.

For `RunLists`, the order of the list is total, so a row's place is the number of rows before it
(`rank`), and ranks are distinct and without gaps. A page is the set of rows whose ranks it
covers. `ListsIInv` says of an open walk what it has shown: while nothing has moved, exactly the
ranks below the next page's offset (`CalmSound`); while rows have only entered, at least every row
that was listed at the start and now ranks below it (`EnterSound`), because rows that enter only
raise ranks; what a page's total does not count are the rows that entered after the count. `BestByMetric` is a loop invariant: the best of the first k ids is their first maximum.

Sums and loops are folds of the community modules, recursions over the subsets of a finite set.
The induction theorems of the library take an operator for the predicate, which the provers
cannot instantiate; `FoldFacts` takes a set instead and argues by a least element outside it, over
the numbers (`InductionUpTo`) or over the subsets of a finite set (`LeastSubset`). From these it
derives that the recursion has a solution, that it has only one, and that its values stay in a
given set. The assumptions that `Runs` and each run's metrics are finite are what this needs.

For `Migrations`, a running command is some way through one script, with the rest of it left to do
(`halfway`). As long as it has not updated the version row others may commit, and what it sees is
no longer a stage of its script; what is kept is that its changes are among those that its
statements can have made over any sequence of committed versions (`Changes`) and that they still
fit: the committed schema has what the command took away and lacks what it made (`Fits`). This
survives the commit of another because open commands have touched different tables (`apart`,
`OthersFit`). Once the version row is its own, or if nobody has overtaken it, it sees exactly what its
script makes of the version it read (`after`). A revision that ends and finds its version therefore
leads to the next version's schema, and a command that was not overtaken meets only schemas of its
own script. This carries any number of processes, overlapping, refused or dying anywhere.
What the five scripts themselves do is the assumption `RevisionsFit`: each leads, statement by
statement, from the schema of its version to that of the next, PostgreSQL accepts each statement on
the way (the foreign key only without rows), what others may commit in between cannot make a
revision that is accepted to its end come out differently (`Withstands`), and the last schema is that
of the ORM classes. It contains no constant and no variable, so there is a single case of it, which
TLC computes at the start of the run `migrations`; a script that forgets to drop a type, or a model
class that no revision creates, makes that run fail there.

Model-checked only: liveness (`AbandonedLeasesReclaimed`, `CancelHonouredAtCheckpoint`,
`WorkerComesBack`, `CapacityConverges`, `MessagesSettle`, `PageCatchesUp`, `ReaderComesBack`), since
TLAPS does not reason about fairness here, and the evaluation of the scripts in `RevisionsFit`.

## 5. Mutants

Beside some definitions stands a second operator marked "Mutant": a plausible bug of that code
(a dropped guard, a forgotten release, a write without the version check). With the mutant
in its place TLC finds the property violated; `PROJECT.json` pairs them.

## 6. Not modelled

- The order in which a pass considers runs (priority, age, the limit of 100) and the least-loaded
  choice among workers: `ScheduleOnce` allows any choice, so every property holds for the
  code's; no document promises more about the order than the `ORDER BY` itself says.
- The other orders of `list_runs` (`runs.py:149-163`): `sort=priority`, ascending direction, and
  `sort=status`, whose column changes, so that rows move within the list while it is read. `EnteringHidesNothing`
  is claimed for `created_at` descending only.
- Changes of a worker's totals at a later registration.
- Health and readiness probes, metrics, logging, correlation ids: no state that others read.
- Authentication and roles: stateless checks that refuse a request before it does anything.
- Parameter schemas and the training code of the templates; the seed script and the demo.
- The order of the timeline (`run_events.created_at` is the time at which a transaction began).
- Rendering, forms and routing of the web application.
- Columns, defaults and unique constraints of the tables, beyond those named above; `update_project`
  and descriptions, which nothing constrains.

## 7. Next

A contract for the outbox (insert, deliver, mark, count, per message) that a batch of `Outbox`
implements, as the ledger is for runs, and that the single-message steps of `RunControl` share.
