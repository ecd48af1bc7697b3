# TLA+ specification of the video compression platform

The repository is a scheduler with an HTTP API and PostgreSQL tables, a RabbitMQ
dispatch queue fed by a transactional outbox, and workers that claim jobs, run
`ffmpeg` and report the result. These modules state what keeps that loop correct
when processes die, replies get lost and messages come twice, check it with TLC
on small instances, and prove its safety with TLAPS.

    tlc -workers 2 -config MCJobStore.cfg MCJobStore     # likewise for each MC*.cfg
    tlapm JobStoreProofs.tla                             # likewise for each *Proofs.tla

## 1. The system

| Component | State | Operations | Interacts with |
|---|---|---|---|
| Job store (`internal/store`) | tables `jobs`, `workers`, `job_outbox`, `job_log_artifacts` | create, queue, claim, renew, finish, reap, register, heartbeat, claim/mark outbox | called by API, relay and reaper |
| Outbox relay (`internal/outbox`) | one open transaction with row locks | `Tick`: lock a batch, publish, mark, commit | store, broker |
| Broker (`internal/queue`, RabbitMQ) | `jobs.main`, `jobs.retry`, `jobs.dlq`, unacknowledged deliveries | publish, deliver, ack/nack, TTL, requeue | relay, workers |
| Worker (`internal/worker`, `cmd/worker`) | per process: AMQP channel, context; per slot: job, lease generation | register, heartbeat, consume, claim, renew, run, submit, shut down | broker, API |
| Reaper (`internal/reaper`) | position in its tick | mark silent workers dead, then reap orphan jobs | store |
| HTTP API (`internal/api`) | none of its own | client and worker handlers | store, object storage |
| Job logs (`internal/joblogs`) | objects `jobs/{id}/logs/attempt-{n}.jsonl` | upload, load all | API, object storage, `job_log_artifacts` |
| Object storage (`internal/storage`) | input, output and log objects | upload, download, stat, presign | API, worker |
| Migrations (`internal/migrate`) | schema version, dirty flag | up, down, force, detect legacy schema | database |
| Connections to the broker (`internal/queue`, both `cmd`s) | per process: next request or connection; the broker's durable queues | dial, declare, reconnect by restart | broker |
| Admin endpoints (`internal/api/admin.go`, `internal/store/admin.go`) | none; an answer is several queries | list jobs page by page, statistics, list workers | store |
| ffmpeg runner, presets, auth, health | none | | |

How they interact: an API handler commits a job together with an outbox row; the
relay publishes the row to `jobs.main` (first attempt) or `jobs.retry` (later
ones, which reach `jobs.main` after a delay); a worker takes the message, claims
the job over HTTP (which grants a lease with a new generation), runs it while
renewing the lease, and reports the result with that generation. The reaper puts
jobs of dead workers and expired leases back, again with an outbox row, or fails
them when their attempts are used up.

What is hard: every message may come twice (the relay publishes before it
commits; a closed channel requeues what is still being worked on); every HTTP
call may take effect without its reply; a worker may go on after its job was
given to another; the reaper works in two transactions while everything else
goes on; and a job in DISPATCHED depends wholly on some row, message or handler
that still carries it, since nothing rescans waiting jobs. Two runs of one job
write to the same output. A client handler looks something up, acts in a later
transaction, and may be repeated by a client that saw no answer. The migration
tool overwrites a version number outside the lock that protects it. The admin
views read the tables in several statements while all this goes on, and every
process declares the broker's queues in seven requests that others interrupt.

What makes each component correct:

* store: attempts stay within `max_attempts`, the reaper can find every running
  job, only the newest grant completes a job, one dispatch for each attempt,
  final states are final;
* relay: rows are worked on by one scheduler, duplicates and unaccepted rows
  only after faults, every row is published;
* dispatch loop: no waiting job is forgotten, no grant is executed twice, a run
  is killed only when its lease is lost, every dispatched job ends (section 4
  names the faults after which the first and the third fail in this code);
* logs: a listed log exists, holds no lines of a later run than the attempt it is
  filed under, and is recorded with the result it came with (until a late report
  of an earlier run replaces it, section 4);
* client requests: an idempotency key names one job, a job is dispatched only with
  its input;
* outputs: the object of a COMPLETED job is the whole output of a run; its local
  file is so until another run opens it, if its run did not find a file there;
* migrations: the files take effect in order, success means the newest schema, a
  retried `up` heals what an interrupted run left;
* topology: a connected process has every queue and binding, with its own retry
  delay, and every process connects unless another wants a different delay;
* admin views: a list that jobs do not leave is read without gaps, totals can be
  had, statistics know the workers of every job that ran.

`PROJECT.json` lists all components with their status, and all hazards with the
line where each bites.

## 2. Modules

| Module | Content | Proofs |
|---|---|---|
| `JobLifecycle` | Abstract specification of one job: status, attempt, limit. | |
| `JobStore` | The tables and every transaction on them, with the most general callers. Refines `JobLifecycle`. | `JobStoreProofs` |
| `Platform` | Extends `JobStore` with relay, broker, workers, reaper process, faults and fairness: the dispatch loop. Refines `JobStore`'s own specification, and `Outbox`. | `PlatformProofs` |
| `Outbox` | Abstract specification of the outbox rows: inserted, handed over, published. | |
| `OutboxRelay` | The relay in detail: batches, `SKIP LOCKED`, several schedulers, publish errors. Refines `Outbox`. | `BrokerProofs` |
| `JobRequests` | Extends `JobStore` with the handlers by which clients create and submit jobs, call by call. | `JobRequestsProofs` |
| `JobLogs` | Extends `JobStore` with the three steps of the result handler (read attempt, upload, finish) and the log objects. | `JobLogsProofs` |
| `OutputFiles` | Extends `JobStore` with what each run does to the output file or object. | `OutputFilesProofs` |
| `Migrate` | Overlapping runs of the migration tool against one database. | `MigrateProofs` |
| `AdminViews` | Extends `JobStore` with an administrator who reads lists and statistics query by query. | `AdminViewsProofs` |
| `Topology` | Connecting to RabbitMQ and declaring its queues. | `BrokerProofs` |
| `MC*.tla`, `MC*.cfg` | Model values and symmetry for TLC. | |

Definitions carry the names of the code where they can. A definition named
`X_Something` is `X` with a plausible mistake; no specification uses it. Each is
substituted for `X` to confirm that the property paired with it in `PROJECT.json`
fails.

`Platform`, `JobRequests`, `JobLogs`, `OutputFiles` and `AdminViews` are five views of
the same job rows. Each puts one part of the system in detail beside `JobStore`'s general
callers, and none of them adds a way of changing a row: every step of each is a
step of `JobStore` or leaves its tables alone. This is why the store is proved
first and its theorems are used in all five.

`Platform` and `OutboxRelay` describe the same rows, one with everything around the
relays, the other with what goes on inside them. They meet in `Outbox`: the relays
implement it, and the steps of the loop's relays are steps of it too. This is about
safety. `Outbox` does not say that rows are published in the end, nor that the
broker has what was handed over: the relays of `OutboxRelay` may block or lose
what they publish, and so may those of `Platform` (`RelayPublishError`,
`RelayPublishLost`), but not in the run that checks liveness.

### JobStore

One action per method of `Store`. Every method is a single UPDATE, or locks the
row before it decides, so each is atomic. Points that follow the code closely:

* `ClaimJob` does not look at `max_attempts`, the lease or the worker's status;
  the foreign key only demands that the worker was registered.
* `RenewLease` does not look at the expiry: an expired lease that nobody reaped
  comes back to life.
* `FinishJob` has three ways in: job already COMPLETED (any caller, the log row
  is stored again), active finish (worker, RUNNING, generation), late success
  (DISPATCHED, no worker, generation; the worker's name is not compared).
* `FailedRow` is shared by `FinishJob` and `ReapOrphanJobs`: a FAILED row keeps
  its worker, a DISPATCHED one loses it.
* `ReapOrphanJobs` is one transaction over all orphans, as a function update.

Times are abstracted to what queries ask: a lease is none, live or expired; a
worker is ABSENT, ACTIVE, STALE (ACTIVE with an old heartbeat) or DEAD.
`grants` and `finisher` are history variables: who received each generation, and
whose success was taken.

Two details of the code are outside the transaction abstraction. When
`FinishJob` and `QueueJob` refuse, their deferred rollback does not run because
`err` is nil; the row stays locked until the HTTP handler cancels its context on
return. And two schedulers' reapers may deadlock on row locks, which PostgreSQL
breaks by rolling one back: no step.

### Platform

State: message counts per job in the three queues, the rows published in
open transactions of relays (`pending`), the rows locked by relays that wait for
themselves (`blocked`), the reaper's next transaction, each worker process, and each
delivery slot (`idle`, `claim`, `run`, `killed`, `submit`). `vanished` and `misread`
are history variables: which waiting jobs lost a message for good, and which runs
were killed by an error that was taken for a refusal.
The consumer reads only the job id of a message, so messages are counted and not
listed, and their order is dropped.

* `consumeParallel`: `Deliver` takes a message when a slot is free; `Ack` and
  `Nack(false, false)` follow the handler's result; `Nack` goes to `jobs.dlq`.
* `handleMessage`: claim ends in success, conflict (ack), error (nack), or
  success without a reply (nack); then run; then submit, likewise.
* `leaseRenewalLoop`: a refused renewal kills the run; another failure of a
  renewal is ignored, so it is no step, unless its text contains "409".
* `isClaimConflict` and `isLeaseLost` search the text of whatever error there is for
  "409", also that of a transport error, which names addresses and ports. `ClaimMisread`
  and `RenewMisread` are such errors, with or without an effect in the tables: the
  first acknowledges a message, the second cancels a run, on no ground.
* `executeJob` may end in success or failure at any moment, also after a kill.
* SIGTERM cancels claims, runs, renewals and heartbeats, but not submits.
* `ChannelClosed` requeues deliveries while their handlers go on; the process
  exits when they end, is restarted and registers under the same id.
* Relays publish a row at a time, and a commit or a crash ends a transaction with
  any of the rows published so far, any time later: consumers see messages whose
  rows are not yet marked, and any number of schedulers may be at work. A publish
  may return `nil` and be lost with its connection (`RelayPublishLost`), or fail, which
  blocks the relay with all rows of its batch (`RelayPublishError`) until its process
  dies (`SchedulerCrash`). Which rows
  are in one transaction is told by `OutboxRelay`, whose relays implement the same
  abstract `Outbox` as these (`ImplementsOutbox`, `ImplementsItsParts`).

Faults are taken from `FaultKinds` and counted up to `MaxFaults`. Renewals,
heartbeats, lease expiry and ageing heartbeats are not counted: they are free.

### Outbox

The rows that store transactions have committed, those whose message an open
transaction has handed to the broker (`taken`), and those whose `published_at` is
set. `Publish` is the promise: nothing is handed over before it is committed,
after it is published, or while another open transaction has done so.

### OutboxRelay

`ClaimOutboxBatch` locks the oldest unlocked rows; `PublishOK`, `PublishLost`
and `PublishError` are the outcomes of `Rabbit.Publish`; `Commit` ends the
transaction. `PublishError` follows `Tick` into `MarkOutboxPublishError`, which
uses another connection: with the row locked by the relay's own transaction the
relay is `blocked`, and only the death of the process ends that. A closed AMQP
channel is never reopened by the program. `PublishLost` is a publish that returns
`nil` and whose message never reaches the broker: the channel is not in confirm
mode (`internal/queue/rabbit.go:180`, `:199`).

### JobRequests

A handler is a record: its next call (`at`), the endpoint (`kind`), the header,
the job it works on. `Lookup`, the insert, `UploadInput`, `SubmitCheck`,
`SubmitExists` and `submitR2Job` are the calls of `createJob`,
`createJobFromUpload`, `initR2Job` and `submitR2Job`; between two calls other
requests and workers run. `Fails` ends a handler before any call, or before its
answer arrives: a failed call, a crash of the scheduler and a lost answer look
alike to the client, which may send the request again. `KeyTaken` is the unique
index. Only the JSON request reads the header; an `Idempotency-Key` on a
multipart request has no effect.

### JobLogs

One report per grant. `ReadAttempt`, `Upload` and `Accept`/`Refuse` are the steps
of `workerJobResult`; between them the job may be reaped and claimed again.
`configured` is whether the scheduler was started with object storage.

### OutputFiles

`run[j][g]` is the run that generation `g` was granted to. It looks whether a
valid output is there (`OutputLooksValid`: at least 256 bytes and a header that
`ffprobe` reads; for an object the size only), transcodes, uploads if the job is an R2
job, and reports. Contents are `none`, `short` (fails that test), `readable` (passes it,
unfinished) and `whole`. An R2 transcode writes to a directory of its own and
replaces the object with one `PutObject`, under a key made of the job's id.

A local transcode writes to the output path itself, on a volume that workers share, and
leaves what it has when it is stopped. The path is the client's (`POST /jobs`,
`internal/api/server.go:224`, `:268`), and nobody reserves it. So `path` maps jobs to
paths, not one to one, and `file[p]` may be anything at first. A run whose lease
is lost goes on until a renewal is refused, at any later moment; killing it is a
fault here (`TranscodeFails`). `clash` of a run says that another one had the file open
at the same time: two `ffmpeg` on one file leave anything (`TranscodeDone`). The rest is
history: which run opened a file last, and `clash` of a run whose file another one
has opened after it.

### Migrate

The state is the library's row (`version`, `dirty`), its advisory lock, the files
whose effect is in the database (`schema`), and for each process where its run
is. `Open`, `NextFile`, `ApplyFile`, `MarkClean` and `Force` are golang-migrate,
modelled from how `internal/migrate` uses it (external in the map). `detectSchemaVersion`
and `reconcileLegacySchema` are the two looks of the tool before `up`: the tables
that exist and the version row, read in separate steps and acted on later,
outside the lock. `UpSucceeds` and `DownSucceeds` say on which schema each SQL
file runs without an error, including file 5's dependence on jobs that wait
(`waiting`). A file is one implicit transaction.

### AdminViews

`CountJobs` and `ListJobs` are the two statements of `Store.ListJobs`, `CountByStatus`
and `CountWorkers` those of `GetAdminStats`. Any transaction of `JobStore` may happen
between two of them. The reader of a list asks for the next page from the number of jobs
received so far and stops at an empty page; the dashboard itself reads only the
first page. `created` is the order of `created_at`, which is the start of the
inserting transaction: `CreatedAt` lets a job that commits late appear behind jobs
that are already there. Two assumptions: no two jobs have the same time (the
query has no second sort key, so a tie would leave their order open, from one
page to the next), and jobs are never deleted, as in the code.

What the lists do not promise: one that jobs leave again (RUNNING jobs, jobs of a
worker) may skip a job when one before it leaves. And the total is counted
before the rows, so a reader who stops at `total` instead of at an empty page may
miss jobs at the end.

### Topology

`Dial`, `Declare` and `DeclareFails` are `newRabbitOnce` and `declareTopologyOnce`,
request by request; what fails is tried again, by `NewRabbitWithRetry` or by the
next start of the process. Declaring is idempotent, except that the broker
refuses `jobs.retry` with another delay than it has (`Refused`). A worker whose
delivery channel closes ends (`ConsumerEnds`) and is started again; a scheduler
goes on without a connection. `BrokerStops` may take the queues with it: they are
durable, but the container has no volume.

## 3. Runs

| Run (cfg) | Instance | Shows |
|---|---|---|
| `store` (`MCJobStore`) | 2 jobs with inputs 1 and 2 for `max_attempts`, 2 workers, an administrator with pages of 1 and 2 | all store properties, the refinement of `JobLifecycle`, and the admin views |
| `requests` (`MCJobRequests`) | 2 jobs, 1 worker, 2 requests at a time, 1 key, 4 sends | one job per key, dispatched only with its input |
| `platform_faults` (`MCPlatform`) | 1 job, 2 workers, 2 attempts, one fault of any kind (284,824 states) | safety of the loop, refinement of `StoreSpec` and `Outbox` |
| `platform_progress` (`MCPlatformLive`) | 1 job, 1 worker with 2 slots, 2 faults (no failing claim or publish, no misread error, no SIGTERM) | `DispatchNotLost`, `EveryJobEnds` |
| `platform_stranded` (`MCPlatformStranded`) | 1 job, 1 worker, 1 SIGTERM | **violation** of `AtLeastOnce` |
| `relay` (`MCOutboxRelay`) | 2 schedulers, 3 rows, batches of 2, 2 faults of all kinds, fair relays | exclusive batches, bounded duplicates and losses, every row published, refinement of `Outbox` |
| `relay_self_block` (`MCOutboxRelayError`) | 2 schedulers, 2 rows, 1 lost channel | **violation** of `PublishErrorRecorded` |
| `logs` (`MCJobLogs`) | 1 job, 2 workers, 3 attempts, with and without object storage | listed logs exist; lines of a result give way to late reports only |
| `logs_unconfigured` (`MCJobLogsLocal`) | 1 job, 2 workers, 2 attempts | **violation** of `LocalResultsAreTaken` |
| `output` (`MCOutputFiles`) | 2 jobs, both local with one path or one of them R2, any file there before, 2 workers, 2 attempts, 1 fault (2,272,222 states) | what completed outputs are, and what may still change a local one |
| `migrate` (`MCMigrate`) | 2 processes, `down` 2 or 6, `force` 0 or 4, 2 crashes or failed lookups, 1 manual command | files in order, success is current, `up` heals |
| `topology` (`MCTopology`) | 1 scheduler with its delay unset, equal or different, 2 workers, 2 faults | who is connected has the topology; who can connect does |

### Why the bounds are enough

* Jobs meet only in `ReapOrphanJobs`, in the relay's batches and in the unique
  index on idempotency keys: every other transaction touches one job row. Two
  jobs (`store`, `requests`) and three rows (`relay`, more than a batch) cover
  the meeting; the rest is checked for one job.
* Two workers give an old and a new owner of a job; three attempts give a first,
  a middle and a last one. A late report that meets a third generation needs
  three attempts: `logs` has them, `store` has two for each of two
  jobs, and the theorem `CompletionIsFenced` covers any number.
* Two requests at a time with four sends contain two concurrent requests with
  one key, each sent again after its answer was lost, and an init with two
  concurrent submits.
* One fault of any kind, combined with free expiry, ageing and duplicate
  deliveries, reaches every handler path; `platform_progress` combines two
  faults. One worker with two slots has the same interleavings of handlers as two
  workers for that run, and in addition two handlers with the same worker id.
* A local output can be spoilt by a stopped transcode, by a late run of its job or by
  a run of another job with its path, and a run may skip over what any of these left.
  Two jobs with two runs each and one fault (a run that loses its lease is no
  fault) contain each of them, and three runs that have one file in turn. Jobs meet
  in the file only, so an R2 job is on its own (`Apart` in `MCOutputFiles`). One job with
  three attempts and three faults was checked as well (428,179 states); it is not
  a run of the project. The theorems of `OutputFilesProofs` hold for any number of jobs,
  paths, runs and faults.
* Two migration processes are enough for a stale version to be forced under
  another's feet; two faults leave a run interrupted and its repair misread. `down`
  by 2 undoes part of the schema, by 6 more than there are files below some
  versions; `force` 0 and 4 are a version no file has and one that may be wrong.
* Three processes let one find what two others half declared; two faults let both
  of them die on the way, or one of them and then the broker. A delay is the
  default, equal to it, or different.
* In the `store` run the administrator starts to look while one worker is
  registered and jobs have one attempt, and from then on it stays so (`Small`);
  until then the tables have the whole instance. Only lasting lists are opened.
  Two jobs suffice for a job to move across the border of a page of one, and a
  page of two holds everything. The limits are 0 and one above the maximum, so
  that both corrections of `EffectiveLimit` happen. The theorems of
  `AdminViewsProofs` hold for any number of jobs.
* Attempts are bounded by the program itself (`AttemptsWithinLimit`), so no state
  constraint is needed. Symmetry is used only in runs that check invariants and
  properties of single steps, never with liveness.
* Deadlock is checked in the store, platform and migration runs: clocks and
  heartbeats go on for ever, and the migration tool can always be started again.
  The relay, request, log, output and topology runs really may stop: all rows
  published or all relays blocked, all requests sent, all reports answered, all
  processes connected.

### Fairness

`Platform!Fairness`: relay and reaper tick; the broker delivers and expires; a
handler's next step happens (HTTP clients have timeouts, `ffmpeg` a maximum
duration); processes that end are restarted (`restart: unless-stopped` in
`docker-compose.yml`); a lease expires when no handler executes with it. Nothing
is assumed of clients, faults, heartbeats, renewals, or of leases that a live
executor holds. Fairness of a handler is weak fairness of all its outcomes
together, so TLC may choose failure every time.

The relay is the assumption to watch: `WF_vars(RelayStep)` asks for a relay that can publish
whenever a row waits. A scheduler opens its AMQP channel once and never again, so
after a connection loss its relay cannot publish until the process is restarted, and it
does not end by itself (a worker does). `EveryJobEnds` therefore holds for a platform
where some scheduler has a working channel: `publishLost` and `publishError` are not
among the faults of `platform_progress`. What becomes of rows when relays do lose their
channels is `EveryRowPublished` of `OutboxRelay`.

`OutboxRelay!FairSpec`: every
relay ticks. `Migrate!FairSpec`: a run that has started goes on until it ends,
and `up` is started again after it failed; nothing is assumed of jobs, of crashes
or of manual commands, so jobs may wait in the old queue for ever.
`Topology!TopologyFairSpec`: a process goes on connecting and a worker's consumer notices
that its channel is closed; the broker and all processes are started again
(`restart: unless-stopped`).

## 4. What the code does otherwise than documented

Three disagreements are violations that a run shows:

1. **A failed claim strands the job** (`AtLeastOnce`). Any claim error other than
   409 dead-letters the message. Nothing reads `jobs.dlq` and the reaper looks at
   RUNNING jobs only. `CarriedOrDeadLettered` shows that the message is at least
   still in the broker, and `DispatchNotLost` that without failing or misread claims,
   lost publishes and SIGTERM nothing is lost. Requeueing on claim errors, or letting
   the reaper look at old DISPATCHED jobs, would close it.
2. **The relay blocks itself** on the first publish error (`PublishErrorRecorded`).
   Recording the error in the relay's own transaction would close it.
   `EveryRowPublished` bounds the damage: other schedulers go on with rows that
   the blocked one has not locked.
3. **Without object storage no result with log lines is taken**
   (`LocalResultsAreTaken`), so local jobs fail after successful runs.

Others are stated by what does hold:

* Migration 5 fails while a job waits in the old queue. It announces that it replaces
  QUEUED and RETRY by DISPATCHED (`db/migrations/000005_rabbit_dispatch.up.sql:1`),
  but it writes the new status before it drops the check that forbids it, and so
  fails on every used database. `UpHeals` therefore has to except a database in
  which jobs wait again and again (`waiting = "queued"`). Moving the two `ALTER TABLE`
  statements to the front would close it.
* The comment of `Publish` (`internal/queue/rabbit.go:180`) announces publisher
  confirms, but the channel is not in confirm mode. `UnacceptedOnlyByFaults` says
  that a published row that the broker never took is explained by a vanished
  publish, one for one, and `CarriedOrDeadLettered` what that does to a job: it may
  wait for ever with nothing that announces it (`vanished`). The `relay` run counts a
  fault for each lost publish, while one dying connection may take several with it:
  the count is of publishes, not of connections.
* An error is taken for a refusal if its text contains "409"
  (`internal/worker/consumer.go:67`, `internal/worker/worker.go:275`), although the
  client builds the text from statuses and transport errors alike
  (`internal/worker/client.go:90`). A dial error that names port 40912 acknowledges
  the message of a job that waits, or cancels a run that owns its job. The waiting job
  is then carried by nothing, not even by `jobs.dlq`. `CarriedOrDeadLettered` and `KilledOnlyWhenLost` name
  exactly these cases (`vanished`, `misread`) and show that no others exist: a true
  refusal is never wrong. Comparing the status of the response would close it.
* A reaped run's late report is filed under the attempt of the moment, where
  `web/docs/index.html:1564` promises a log "per job attempt"
  (`jobs/{id}/logs/attempt-{n}.jsonl`). Lines of an older run may stand under a newer
  attempt, and they may overwrite the lines of the run that completed the job, even after
  it did: `FinishJob` accepts any report of a COMPLETED job. `NoLinesOfLaterRuns` says
  that lines never stand under an older attempt, and `ResultKeepsItsLogs` that the
  completing report's lines are listed and stored under its own attempt, or else those
  of a `LateReport`. Filing a report under its lease generation would close it.
* `OutputLooksValid` takes "what looks like a complete media file"
  (`internal/ffmpeg/validate.go:13`) for the output of the job. It may be the rest of a
  killed transcode, another job's file or one that was there before: the run reports
  success without transcoding. And a late run of the job, or a run of another job with
  the same path, may truncate the file of a COMPLETED job at any time.
  `CompletedFileIsWhole` says what remains: until another run opens it, the file is the
  whole output of the run that completed the job, or, if that run skipped, a file that
  looks valid; and whoever opens it later, once the run that opened it last has made its
  output with no other run writing, it is whole again. Of whose making, it does not
  say. `CompletedObjectIsWhole` has no such exceptions. Writing to a temporary name
  and renaming, as the R2 path does in effect, would close most of it.
* `internal/migrate/migrate.go:168` announces that a dirty version is repaired. A
  first migration that dies before its tables exist leaves a dirty version and
  no table to derive one from; `UpHeals` names it (`FirstRunInterrupted`).

## 5. Proofs

For all constants that satisfy the named assumptions: `StoreAssumption` (`NONE` is
not a worker, inputs are integers), `PlatformAssumption`, `RelayAssumption`,
`RequestAssumption`, `OutputAssumption`, `MigrateAssumption`, `TopologyAssumption`
(a process is a scheduler or a worker, the default delay is positive),
`AdminAssumption` (finitely many jobs and workers, a default limit within the
maximum).

| Module | Theorems | Properties |
|---|---|---|
| `JobStoreProofs` | `TypeCorrect`, `AttemptsAreBounded`, `LeasesAreDisciplined`, `CompletionIsFenced`, `DispatchesMatchAttempts`, `TerminalStates`, `StoreImplementsLifecycle`, `JobsOnlyAdvance` | the `store` run, without the views |
| `PlatformProofs` | `PlatformTypeCorrect`, `ExecutionsAreUnique`, `KillsAreJustified`, `WaitingJobsNeverVanish`, `DispatchesAreNotLost`, `LoopUsesTheStore`, `LoopImplementsItsParts` | all of the `platform_faults` run, and `DispatchNotLost` |
| `BrokerProofs` | `TypeCorrect`, `BatchesExclusive`, `DuplicatesExplained`, `UnacceptedExplained`, `RelaysImplementOutbox`; `TopologyTypeCorrect`, `ConnectionsAreRouted` | the safety of the `relay` and `topology` runs |
| `JobRequestsProofs` | `RequestsTypeCorrect`, `KeyNamesOneJob`, `DispatchedJobsHaveInput`, `RequestsUseTheStore` | the `requests` run's own |
| `JobLogsProofs` | `LogsTypeCorrect`, `ListedObjectsExist`, `LinesAreNeverBackdated`, `OnlyLateReportsReplaceTheResult`, `HandlerUsesTheStore` | all of the `logs` run |
| `OutputFilesProofs` | `OutputTypeCorrect`, `ObjectsAreWhole`, `FilesChangeByReopening`, `RunsUseTheStore` | all of the `output` run |
| `MigrateProofs` | `MigrateTypeCorrect`, `FilesApplyInOrder`, `SuccessIsCurrent` | the safety of the `migrate` run |
| `AdminViewsProofs` | `AdminTypeCorrect`, `ListsMissNothing`, `AnswersAlwaysAgree`, `LifecycleUnderViews` | the views of the `store` run |

**The store.** Types first (`NextType`, one step per action). Then every step is
described from the view of one job: it is kept, created, queued, claimed,
completed, or loses an attempt (`Effect`, lemma `Effects`, one step per
action). The reaper's bulk update and the relay's marks become, for one job, an
ordinary effect or none, so that each invariant is shown once per effect rather
than once per action and job. The inductive invariant is

    StoreInv == StoreTypeOK /\ AttemptsWithinLimit /\ LeaseDiscipline
                /\ FencedCompletion /\ OneDispatchPerAttempt

`AttemptsWithinLimit` contains its own strengthening: that waiting jobs have an
attempt left makes the bound inductive, and that the generation, the attempts
and the number of grants agree is what makes fencing by generation work.
`LeaseDiscipline` rests on nothing else than that workers are never removed
(`WorkersStay`). `FencedCompletion` needs the first two; `OneDispatchPerAttempt`
needs `LeaseDiscipline` to tell a late success (no worker) from an active one.
The refinement maps each effect to the step of the same name of `JobLifecycle`.

`JobsOnlyAdvance` is what can be proved of termination without fairness. `Progress`
numbers the stages of a job (ABSENT 0, NEW 1, DISPATCHED 2a + 2 and RUNNING 2a + 1
with `a` attempts granted, ended 2 * max + 3); whatever transaction moves a job
raises it, and it is bounded. So a job makes at most 2 * max + 3 moves, and what
`EveryJobEnds` adds is only that it does not stop before the last one.

**The views.** `HandlerUsesTheStore`, `RequestsUseTheStore`, `RunsUseTheStore`,
`LoopUsesTheStore` and `ViewsUseTheStore` say `Spec => StoreSpec`: each view allows no
more than `JobStore`'s general callers, so every theorem about the store holds in it,
`StoreImplementsLifecycle` and `JobsOnlyAdvance` among them. For requests this needs
`RequestInv` (the job of an upload or a submit exists), for runs and reports that
the generation they report with was granted.

**The loop.** Every step of `Platform` is a step of `JobStore` or leaves its tables
alone; hence `StoreInv` carries over, and with it the refinement `LoopUsesTheStore`.
`PlatformInv` adds

* `SlotsGranted`: the generation a handler executes with was granted to its worker.
  Without it `OneExecutionPerGrant` is not inductive: a new grant must differ
  from every generation a handler holds, which follows from the handlers' being
  below the length of `grants`;
* `KilledOnlyWhenLost`, which survives because a lost generation never comes back
  (effects only raise it), and because `misread` only grows;
* `WaitingIsCarried`: a waiting job has an unpublished row, or its message is in a
  queue or with a handler that is about to claim it; the dead-letter queue counts
  only if handlers may give a message up unused (`GivesUp`: claims may fail or
  workers be told to stop), and a job whose message vanished at this very attempt is
  excepted. With `NobodyStops` and `NothingVanishes` this gives both
  `CarriedOrDeadLettered`, for all faults, and `DispatchNotLost`, when claims are neither
  failing nor misread, no publish is lost and nobody is told to stop. Relays that
  block themselves do no harm here: their rows are still rows to publish.
  A claim whose reply is lost dead-letters the message too, but the job is
  RUNNING then.

**The relay.** `RelayTypeOK /\ BatchesAreExclusive /\ MarkedAreDone` is inductive;
`DuplicatesOnlyByFaults` and `UnacceptedOnlyByFaults` count: the broker has at most
one message of a row more than there were faults, and that one only if the row is
published or about to be (`Copies`); the rows that are so marked although the
broker never took a message of them are at most as many as the faults (`LostIsFew`).

**The outbox.** `RelaysImplementOutbox` maps the rows a relay has marked to `taken`.
A publish is an abstract one because the row is locked by the relay that
publishes it (`BatchesAreExclusive`) and what is marked is done with
(`MarkedAreDone`); commits, crashes and the rollback of a relay that blocks itself take
exactly its own marks away (`MarksOfOthersStay`). `LoopImplementsItsParts` shows the
same of `Platform`: transactions of the store only append rows
(`PlainInserts`, over the effects), and the relays' marks are on rows that were
pending (`MarksPublish`).

**Topology.** `ConnectedIsRouted` is not inductive: `TopologyInv` adds that a process that
is about to make its n-th request finds all of the earlier ones done, with its own
delay once it is past `jobs.retry` (`RequestsInOrder`), and that nobody is connected
to a broker that is down (`ConnectedIsUp`). A broker that loses its queues stops
first, and starts again only when nobody is in the middle of declaring; a queue that is there
is never declared again with another delay (`Refused`).

**Requests.** `RequestInv` adds to `StoreInv` and the types what a handler knows
between its calls (`Knows`), that no two handlers have drawn one id (`DrawnOnce`),
and that keys and storage modes belong to existing rows. `DispatchedHasInput`
holds because inputs are never removed and a submit reaches its queue step only
after it saw the object.

**Logs.** `LogsInv` adds that an attempt that a report has read was reached by then
(`ArtsRead`), that the finisher's report is done (`FinisherDone`) and listed
(`ResultIsListed`), and that every object was stored by a report that had read its
attempt (`ObjectsAreReported`). The last gives the author of what stands in the
result's object: its run is not a later one (`NoLinesOfLaterRuns`), so it is the
completing run or that of a late report.

**Outputs.** `OutputInv` is per job: runs and grants correspond (`RunsSafe`), and
`ObjectSafe` and `FileSafe` say what runs leave behind. An object only ever becomes whole.
A file is reasoned about through the run that opened it last. `WriterSafe`: whoever else
writes the file clashes with that run, and that run with it. So a run that has
not clashed when it makes its output is the only writer: the file is whole, and it stays so
until another run opens it, which marks the first as clashed (`MadeSafe`). A run that
skips without a clash has seen a valid file that no two runs are writing; a single
writer can only make it grow or finish it (`SkipSafe`). Nothing is assumed about
how many jobs share the path or what was there before.

**Migrations.** No single invariant describes both ways in which the tool is used, so
`MigrateInv` joins two. Without manual commands (`UpsOnly`), whatever version a run
has read, and whatever clean version is recorded, is never newer than the
tables: a stale version can make a run apply a file again, which fails, but not
skip one. When no run overlapped another or broke off, and no `force` was wrong (`Solo`), a clean version
is that of the tables or none at all, also after `force` and `down`. A dirty
version may be anything in both, since no run goes on from one. Success then
needs the last file's clean version, which is that of the complete schema.

**Admin views.** `ListsAreComplete` needs `Ahead`: whatever was due when the reading
began and has not been seen stands at the reader's offset or behind it. It
survives the tables' changes because a lasting list only grows, so positions
never fall; it ends with the list because positions are gapless (`RankOnto`, by
distinct times of creation): an empty page means that none is left at the
offset or behind it. `Counted` does the same for totals. `CountsHaveWorkers` says that
a count with jobs that ran implies a registered worker, which stays.

Only model-checked: liveness, which is out of the prover's reach (`EveryJobEnds`,
`EveryRowPublished`, `UpHeals`, `EveryProcessConnects`), and the three violations.
Every other property of every run is proved.

## 6. Not modelled

* The answer of a client handler: two requests with one key at the same time leave one
  job (`OneJobPerKey`), and the one whose insert fails gets a 500 (`Fails`).
* Authentication, presets and argument parsing, health endpoints, web pages: they
  keep no state that the job loop reads. The admin endpoints for workers are one
  statement each. The in-memory queue serves tests.
* Concrete durations. A lease may expire at any moment in every model, so the
  renewal interval's floor of 30 s (`worker.go:57`), which makes short leases
  expire under a healthy worker, is one of the behaviours already covered; that it
  is useless for leases below 30 s is arithmetic on two settings.
* The rollback that `FinishJob` and `QueueJob` leave to the end of the request
  (`jobs.go:94`): transactions are atomic.
* The text of log lines (`ffmpeg/runner.go:55` drops everything after a line of
  64 KB) and of arguments.
* Signing and configuration of the object-storage client; environment parsing.

## 7. Left to do

A model of one row's locks during `FinishJob` that would cover the late rollback;
lease timing with integer time, if the renewal interval becomes a setting.
