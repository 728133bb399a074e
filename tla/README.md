# A TLA+ verification of the AI Research OS control plane

AI Research OS keeps investment research as Markdown files in one directory tree.
A Web application (FastAPI), a command line, and a scheduler worker process change
that tree and two SQLite databases, and back both up to a remote release. This
directory holds TLA+ models of the parts that run concurrently or can fail half way,
TLC configurations that check them, and TLAPS proofs of what matters most.

    tlc -workers 2 -config SchedulerTwoWorkers.cfg MCSchedulerWorker.tla
    tlapm SchedulerWorkerProofs.tla

`PROJECT.json` lists every run, the mutant of the code that breaks each checked
property, and the source lines behind every definition.

## 1. Inventory

Paths are under `src/src/research_os/`.

| component | state it keeps | operations | hard because |
|---|---|---|---|
| operations database, `services/operations_db.py` | tables `schedules`, `schedule_runs`, `worker_state`, `service_events` | create, update, enable a schedule; set next run; create, claim, mark, reclaim, requeue, finalize a run; heartbeat, stop | several processes write it; `update_schedule` reads outside its transaction; `requeue_run` and `finalize_run` have no guard |
| scheduler worker, `services/scheduler_worker.py`, `services/schedule_control.py` | clock value of the tick, listing, run in hand | `tick`, `run_forever` | leases and clocks, crashes between any two database calls, retries, stop requests |
| worker supervisor, `services/worker_supervisor.py`, `runtime/worker.py` | child process, monitor thread, restart budget, state | `start`, `stop`, `snapshot`, `_monitor` | a monitor thread and request threads share fields; respawn races stop |
| Web clients of the scheduler, `services/web_schedule_mutations.py`, `services/web_operations_mutations.py`, `services/schedule_migration.py`, `services/jobs.py` | nothing of their own | create and edit schedules, run now, ad-hoc jobs, import of old jobs, `run_job` | they write the same rows as the worker |
| mutation gateway, `services/mutation_gateway.py`, `services/mutation_audit.py` and the plan store of `ui/app.py` | nonces, plans, audit records | issue, verify, commit with one-use nonce | replays, failure after the nonce is taken, a retry after a half undone failure, expiry, restarts |
| repository mutations, `repositories/transaction.py`, `services/web_repository_mutations.py` | staged operations, temporary files, before images | stage, commit, rollback, compensate | several `os.replace` calls and rollbacks, lost updates between check and publish |
| candidates, `services/triage.py`, `services/promote.py`, `services/discovery.py`, `services/candidate_queue.py`, `services/web_candidate_mutations.py` | tables `candidates`, `candidate_actions`, `discovery_runs`; Source files | discover, dismiss, restore, promote, expire, purge; start, reclaim and finish a discovery | promotion spans a database and the file tree; expiry selects before its transaction and updates by id alone; a discovery outlives its row |
| schema of the candidate database and snapshots, `services/candidate_db.py`, `services/backup.py` | schema version, tables, snapshot and manifest | apply, roll back, snapshot | `executescript` commits each statement; several processes open the file |
| durable backups, `services/durable_backup.py`, `adapters/backup_remote.py` | work directory, remote assets, receipts, `latest-success.json` | back up, restore, verify | live data change meanwhile; each call to the remote may fail; remote assets may be replaced |
| research life cycle, `services/reviews.py`, `workflow.py`, `actions.py`, `drafts.py`, `recommendation*.py`, `forecast_*.py`, `valuation.py`, `analysis_runner.py`, `impact_draft.py`, `domain/lifecycle.py` | status, review and references of Markdown objects; plans not yet written | draft, review, extract, open, resolve, activate, close, supersede | rules between objects are checked when the plan is computed, the plan is written later |
| ingestion of Sources, `services/ingestion.py`, `services/web_source_workflows.py` | Sources, raw files, extracted texts | capture, process, confirm a date, verify | slow work between two readings of a Source; several files per version; a failure is itself written |
| validation, `services/validation.py` | none (a cache of results) | `validate_repository` | rules between many objects; stands before every operation |
| runtime reconciliation, migration of Markdown, read models, indexes, metrics, scoring, audits, language models | none that others decide by | functions over the files; index files | see section 6 |
| command line, pages, release and provisioning tooling: `cli.py`, `ui/`, `services/release.py` | none | argument handling, rendering | see section 6 |

How they interact: `ui/app.py` starts the import and then the supervisor in its
lifespan; the supervisor starts one worker process; the worker and all Web handlers
meet only in the operations database; jobs and handlers meet in the file tree, where
`FileTransaction` is the only writer with a rollback; the mutation gateway stands
before every handler that changes something.

What makes each part correct:

- operations database: at most one active run of a schedule; an active row can
  always become stale and be reclaimed.
- worker: no two jobs of a schedule at once while leases hold; outcomes are final;
  a due time runs once; a queued run gets an outcome; retries are bounded.
- supervisor: at most one worker it knows of; none left after `stop`; a bounded
  number of restarts; a stopped supervisor stays stopped.
- gateway: a confirmed plan is executed at most once, and a nonce that may have
  had an effect is never accepted again.
- repository mutations: all files of a transaction or none, and a concurrent change
  is not overwritten.
- candidates: what is promoted has its Source and stays promoted; no candidate gets
  two Sources; no Source stays without a link or a record of it; one discovery per channel.
- schema: a version describes its tables; a crashed migration can be repeated; no
  action row is lost.
- durable backups: a receipt is a backup that can be restored and is as young as it
  says; a restoration is the backup asked for.
- ingestion: the listed assets exist and carry the hash that the Source states, a quoted text
  belongs to the latest version, nothing waits for a processing that would be refused, and two
  Sources with one content are not taken for independent.
- research life cycle: an object moves forward only and what it rests on is reviewed
  and never changes; a Forecast gets one Resolution; chains of supersession end.

## 2. Modules

| module | what it models |
|---|---|
| `OperationsDb` | the tables `schedules` and `schedule_runs`; one action per SQLite transaction; `DbSpec` is the most general client, about which the theorems speak |
| `SchedulerWorker` | the worker, the other processes that write these tables, clock and faults, on top of `OperationsDb` |
| `WorkerSupervisor` | the supervisor of the worker process: request threads, monitor threads, children and the `worker_state` table |
| `OneUseCommit` | abstract: what preview and confirmation promise |
| `FileTransaction` | staged writes of several files, one action per loop iteration of `commit()`, rollback |
| `RepositoryMutation` | extends `FileTransaction` with the gateway's nonces, the plan store of the Web application, publication, audit, compensation and the recovery manifest; implements `OneUseCommit` |
| `ResearchValidation` | the rules of `validate_repository` about status, review and references, as operators on a repository |
| `ResearchObjects` | extends `ResearchValidation` with the operations on research objects: plans computed on one state and written on a later one |
| `CandidateQueue` | candidates and their Source files: triage, promotion with compensation, expiry, purge |
| `DiscoveryRuns` | the table `discovery_runs` as a lock per channel |
| `CandidateStore` | the file of the candidate database: migrations statement by statement, rollback, writers, snapshots |
| `StoreBackup` | durable backups and restorations against a remote release |
| `SourceArchive` | Sources and the versions of their assets: capture, processing, record of failures, date confirmation |
| `*Proofs` (eight modules) | theorems: `SchedulerWorkerProofs` about `OperationsDb` and `SchedulerWorker`, `CandidateDbProofs` about `CandidateStore` and `DiscoveryRuns`, the others about the module they are named after |
| `MC*` | sets, symmetry and constraints for TLC |

`SchedulerWorker` builds on `OperationsDb`, `RepositoryMutation` on `FileTransaction` and
`ResearchObjects` on `ResearchValidation`, each by `EXTENDS`; `OneUseCommit` is the abstract
specification that `RepositoryMutation` implements. The higher levels rely on the lower ones:
in `ResearchObjects` the publication of a plan is one step because `RepositoryMutation` shows
that a committed mutation is whole, and in `SchedulerWorker` a job is one opaque step.

### OperationsDb

A row is a record with the columns that decide anything; text columns are left out.
A run id is a member of the pool `Runs` and a row that is not inserted yet has status
`"absent"`; a schedule that does not exist has version 0. SQLite runs with
`isolation_level=None`: a single statement commits by itself and the longer
operations use `BEGIN IMMEDIATE`, so each operation is one action. The partial unique
index is `SlotTaken`, an integrity error is a refused claim. `update_schedule` reads
the row first and writes it, `next_run_at` included, in a later transaction that
checks only the version: `UpdateSchedule` therefore takes the value to be written
back as an argument.

### SchedulerWorker

`pc[w]` says between which two database calls of `run_forever` and `tick` worker `w`
is. `observed[w]` is the clock value the tick read on entry and uses throughout.
`due[w]` is the result of `list_schedules(enabled=True)`, `todo[w]` what
`_claimable` returned. In `Advance` and `CreateDue` one sees that `next_run_at`
moves in one transaction and the run is inserted in the next. `Finish` is the return
of the job together with `requeue_run` or `finalize_run`, which look neither at
status nor owner. `ListClaimable` merges two reads in a row, of the schedules and of
the runs; it returns any listing that `ORDER BY queued_at DESC LIMIT n` may return.
`GoDown` is every end of a worker process; the rows stay.

Clients: `WebCreateSchedule`, `EditRead` and `EditWrite` (one editor at a time; the
version check refuses the second of two), `WebQueueRun` for run-now and for ad-hoc
jobs, and `Callers`, which insert a row and finalize it themselves: `run_job` of the
command line and the import of historical jobs.

History variables: `slotOf[r]` is the due time a scheduled run was created for, `span[r]`
the interval of the schedule then, `lost` holds the due times whose run a crash or a failing
insert prevented (in `CreateFails`, or in `Crash` at that place), `looked[s]` is the clock
value of the last tick that looked at schedule `s`, and `lapsed` records that some worker between claim and outcome was past its own lease
(`PastLease`) at some time. The properties that hold only while leases hold are
conditional on `~lapsed`.

Abstractions: `retry_limit`, `timeout_seconds` and the missed-run policy are the same
for all schedules; `todo` is a set, so any order of the listing is explored; the
backoff sleep is only a delay; heartbeats belong to the supervisor's model.

### WorkerSupervisor

Thread 0 is the application, which calls `start` and `stop`; every successful start
adds a monitor thread. A lock region, a system call and a database call are one step
each, so `stop()` meets the monitor between `Popen` and the assignment to
`self.process`, between a probe and `_ready.set()`, and inside
`_mark_worker_state`. A child is a process id (given out in order) that may report
its heartbeat, exit or die at any time. Failing calls (`Popen` and SQLite) and a join
that times out are bounded by `MaxFaults`. `reentered` records that `start()` went
past its early return beside a live monitor. The application calls it once per
supervisor, so it does not happen there; the properties are conditional on
`~reentered` and the constraint `NotReentered` cuts only behaviours in which they
hold by that condition. Not modelled: the log drain threads, and the end of the Web
process, which is `StopRequested` with `"parent"` in `SchedulerWorker`.

### FileTransaction, RepositoryMutation and OneUseCommit

`nonce[p]` is the state of the record in `_nonces`, `"forgotten"` when the memory of
the Web process is gone. A preview that fails leaves the mutation where it was: a
record may remain in `_nonces`, but nobody was told its token. `plans` is
`repository_plans` of `ui/app.py` (`issue_repository_plan`, `commit_repository_plan`).
A mutation is its own plan and also the content it writes, so `files[x] = p` says
that `x` holds what `p` wrote. `before` are the before images and `version` is the
signed target version, which are read in two separate passes over the files. `pc`
names the loop or call the handler is in: `check` (version read by the gateway),
`validate`, `recheck`, `publish`, `audit`; after a failure `compensate`, `unlink`,
`verify`, `record`, and `settle`, where the gateway reads the version again to
decide whether the token may be used again. `txPhase` is the loop that
`FileTransaction.commit()` is in, `txLeft` what it has yet to treat.

All handlers are coroutines that call this code without awaiting, in one Web
process, so no two previews or commits overlap and the locks are never contended.
What interleaves with a handler at every file access: other processes that change
the same files, a failing system or database call, the preview's expiry, and the end
of the process. Two confirmations of one token come one after the other.

`OneUse` is refinement: `OneUseCommit` with `effects <- committed` and
`offer <- Standing`. Abstractions: a transaction treats its files in any order
(names are abstract, and the code's order is one of them); equal digests mean equal
files; temporary files, parent directories, browser sessions and form checks are left
out, as are the audit rows `previewed` and `rejected`, which no decision depends on. The
manifest is one step, although it is a `FileTransaction` itself: it creates one file.

`unaccounted` collects the mutations that the code can neither undo nor record: the
process ended between the first replaced file and the audit row or the manifest; a
rollback inside `FileTransaction` failed (`created_or_replaced` is then still empty,
so there is no manifest); the manifest could not be written, or could not be written
a second time for a retried mutation. `LeftoversAreRecorded` is stated up to these.

### ResearchValidation and ResearchObjects

An object is a record of what the rules between objects look at: `status`, `review`,
`basis` (the ids it cites), `subject` (the one id it is about), `supersedes`,
`supersededBy`, `ready` (the extraction of a Source, or the sections a review asks for) and
`print` (the inputs a generated Report was made of). A path is a member of `Files` and has a
type, an id and a number in a series: two paths can carry one id, as two slugs do in the
code. `Valid(r)` is the conjunction of the rules, each of which stands for a part of
`validation.py`. Dates, numbers, headings and vocabularies are left out: their rules look at
one file and no operation changes their answer.

Every operation has the same shape in the code and in the model: `MayStart` (the whole
repository is valid), the checks on the objects of that validation, and `Offer`, which puts the
decision into `plan[s]`: the new contents, what was read, and the fields the operation sets in
files that are there (`sets`). Then each of these files is read again, one after the other
(`ReadAgain`), and the fields are set in what is there now (`Assign`): what another process wrote
in between stays, and nothing is checked again (`reviews.py:146` and 177, 200;
`forecast_lifecycle.py:38` and 51; `recommendation_lifecycle.py:57` and 63). Objects that are only
created are read once. A change between the two validations of `apply_resolution`, or between
the loads of the old and the new Recommendation, shows as one between the first and the second
reading. For a Web session the plan is then shown, which reads the before-images of the files a
third time, and a confirmation compares these and nothing else; the command line writes at once
and only refuses to create a file that exists. Handlers of the one Web process do not overlap
(`WebBusy`), but two previews of it can be open, and the command line runs at any time.
`clobbered` collects the files that were written although they had changed since the operation
validated them, before or after the second reading (`changed`). The rules about one object and
the order of its statuses are stated for every file outside `clobbered`; the properties about
several objects hold until there is such a file and, where ids are shared, up to `UniqueIds`.

### CandidateQueue and DiscoveryRuns

`CandidateQueue` has one action per transaction of the candidate database and per access to
the file tree: a promotion is a preflight, the publication of the Source files, the link, and on
failure a compensation, as the command line and the Web do it. Expiry and purge
are a selection and an update. History variables name the races that the code has
(`overtaken`, and the records of compensations), so that the properties hold up to exactly
these. Scores, clusters and texts are left out.

`DiscoveryRuns` keeps the age of a row and of a process in ticks up to a cap beyond
`LockStale`. `Start` is the transaction that reclaims stale rows and inserts one; `Finish`
closes the row by its id only while it is still running: the late finish of a process whose row
was reclaimed changes nothing.

### CandidateStore

`apply_migrations` runs a script with `executescript`, which commits what is pending and then
each statement by itself; the model executes one statement per step and may end the process
in between. A file is the version it states and the tables it has. `RollBack` is one
transaction. A snapshot reads the manifest's schema first, copies later, and puts the copy and
the manifest in place in two steps; `Verdict` is what `verify_candidate_snapshot` says of the
two. `SnapshotsFit`: the verdict is good, or it is a schema mismatch and `moved` records that
the version changed between the reading and the copy. `cause` in `VersionDescribes` names the
windows in which a crash or a rollback leaves a file that cannot be migrated; any rollback
while another process migrates counts, however far it goes.

### StoreBackup

One action per call: the inventory hashes one asset at a time, the candidate snapshot notes
the schema version and copies later, the archives take one file at a time and are checked
against the inventory; each upload is a put and two looks; the receipt and
`latest-success.json` are two writes. A restoration loads the outer manifest, inspects and
downloads each archive, and accepts what the receipt and the manifest of the archive say. A
step may fail at any time; what was uploaded stays. The move of a restoration into its
destination is the check that the directory is empty, its removal, a renaming or, across file
systems, a copy that is made in between, and the report; a second restoration can come between
any two of them (`crowded`). Others change items (`Edit`), remove assets, as the rollback of a
file transaction and the compensation of a promotion do (`Remove`), and change remote
assets (`Tamper`: deleted, or replaced by anything the release holds or by garbage). A download
may be damaged. A live item has a version number; an encrypted archive is the pair of backup
and set. Every id that a receipt holds was read from the remote, as in the code.

### SourceArchive

Every operation reads the repository, does something slow, reads the Source again and writes
it; `plan[p]` keeps what the first reading gave (`seen`, `dups`) and what will be written
(`new`). What is taken from `seen` and what from the second reading follows the code: the list
of assets and the upstream Sources come from the first, the rest from the second. The files of
a commit are placed one at a time (`placed`), the Source first. The way back is as long: when an
`os.replace` fails (`ReplaceFails`) the transaction takes the files back in the reverse order, one
step each (`RemoveAsset`, `RestoreSource`); when the audit row of the Web application fails
(`AuditFails`) `_compensate` puts an existing Source back first and then removes the assets. Any of
these steps can fail (`UndoFails`), and nothing tries the rest. A command line that captures an
existing Source whose file is gone by then creates it again (`Fits`). `Preview` and `Confirm` are the Web application's comparison of the files with what the
preview saw. A version is named after the operation that captured it; `asset_paths` is kept as
two lists, the captured and the extracted versions.

An operation is `late` when another one wrote its Source after it read it, or was writing it
then; a late write, or a rollback that puts back what a late operation has read, adds the Source to
`overtaken`. `published` lists the versions in the order of their captures, without those that were
taken back: `TextIsCurrent` compares the text with it and not with the Source's own list, which a
late write replaces. The other histories name what else the
properties have to except: a crash or a failing rollback between two files (`torn`), a processing that fails where
another has succeeded (`spoiled`), a write that was undone (`rolledBack`) and captures that were
at work at the same time (`together`). Each exception is needed: without any one of them TLC
finds a violation.

New Sources do not compete for a number here, and the validation of the whole repository before
a new capture is left out: `ResearchObjects` has both.

## 3. Runs

| run | question | instance | distinct states |
|---|---|---|---|
| `SchedulerTwoWorkers` | can two live workers overlap, rewrite an outcome or exceed the retries before a lease lapses? | 2 workers, 2 runs, clock up to 3, lease 2 | 3.1 M |
| `SchedulerRestart` | do restarts, signals, outages and edits make a due time run twice, or a tick look at a schedule in vain? | one live worker out of 2 ids, 3 runs, 2 faults, 1 edit, clock up to 5 at interval 2 | 2.7 M |
| `SchedulerLive` | does every run get an outcome? | 1 worker, 1 caller, 2 runs, 1 fault | 0.6 M |
| `SupervisorLife` | one child at most, none after `stop`, no false readiness, bounded restarts, no lasting absence? | 2 starts, one restart per clock value, 6 process ids | 0.27 M |
| `RepositoryCommit` | can a mutation take effect twice or in part, or leave something behind unseen? | 2 plans that write the same 2 files, 3 faults, 1 restart, 1 outside change | 1.5 M |
| `ReviewCycle` | do the rules about one object and those between objects hold although they are checked before the plan is written? | 1 Web session, 1 command line, 2 commits; Source, Events, a Thesis, Reports | 0.91 M |
| `DecisionCycle` | do the rules about one object, one Resolution, the end of supersession and the order of statuses hold? | the same, with Forecasts, Valuations, Recommendations | 0.74 M |
| `CandidatePromotion` | can a candidate lose its Source, get two, or be taken back; can a Source be left alone? | 2 candidates, a promotion on the command line and one in the Web, one job, one fault | 1.3 M |
| `DiscoveryLocks` | does the lock of a channel hold, and does it open again after a death? | 3 rows, 2 processes, 2 channels | 0.09 M |
| `StoreFile` | when does a migration lose, block or misname something? | 2 processes, 1 row, 1 crash, 1 rollback; a missing file or one of version 1 | 5.8 M |
| `StoreBackup` | is a receipt a backup that can be restored, and a restoration exact? | 2 processes, an earlier and a new backup, 2 asset places, 1 edit or removal, 1 remote asset replaced or deleted | 1.7 M |
| `SourceArchive` | does the archive verify, is the quoted text current, can what waits be processed, are duplicates named? | 2 Sources, 2 command lines and 1 Web operation at work together, a page with new content and a file with that of the archived Source, 2 faults | 1.8 M |

All runs pass. Properties that the code keeps only up to certain races are stated with the race
as an explicit condition, kept in a history variable; what happens when the race occurs is
listed next.

### Behaviours of the code to know of

Each is a behaviour of the model named in the heading, or is read from the code where it says so.

Scheduler and supervisor:

- `tick` claims every run of its listing with the time the tick began, so after a long
  first job the next lease is short or already over (`scheduler_worker.py:134`).
- A worker that outlives its lease writes its outcome by run id (`requeue_run`,
  `finalize_run`, `operations_db.py:432`): it can release the row its successor holds, and
  two jobs of the schedule run within their leases. Hence the condition `~lapsed`.
- An edit that read the schedule before the tick advanced it writes the old `next_run_at`
  back (`operations_db.py:378`), and a due time runs twice. Hence the edits in
  `DuplicatesNeedEdits`.
- `run_job` executes a row it has not claimed (`jobs.py:398`); a live worker can execute it too.
- A crash between `set_schedule_next_run` and `create_run` loses the due time. Hence `lost` in
  `DueTimesServed`. After an outage of several intervals `catch_up_once` makes one run, for the
  last due time, and passes over the earlier ones (`schedule_control.py:90-92`). Two live workers queue the same due time twice: the unique
  index does not cover queued rows, although a comment in `_queue_due_schedules` relies on it.
- A run queued before its schedule was disabled still executes. With `skip_missed` a
  schedule never runs, because `due_decision` treats every due time as missed. A run behind 200
  newer rows is never listed.
- After the last allowed restart the row of a worker whose replacement never got ready stays
  `ready` (`worker_supervisor.py:238`).

Repository mutations and research objects:

- Existence is tested and the version compared before `os.replace`, with nothing in between
  that holds the files: a change of another process in that window is overwritten, and
  `_compensate()` may later write the before-image over a change of others. A process that ends
  between the first replaced file and the audit row leaves changes that nothing records.
- The command line writes what it computed without comparing: it reverts a review that
  came in between. `clobbered` holds these files.
- An operation checks a file as the validation read it and sets its fields in the text of a second
  reading. A rejection of a Report that was validated while the Report was pending, and reads it
  again after another process approved it, leaves a Report that is `final` and `rejected`, from a
  Web session as well as from the command line. Hence the exemption in `LocalRules`.
- Two command lines that resolve one Forecast give it two Resolutions (`forecast_resolution.py:71`,
  130); so do a confirmed Web plan and a command line. Hence the condition in `OneResolution`.
- A Web plan's content is computed before its before-images are read; a change in between
  passes the comparison.
- A successor that supersedes a second Recommendation or Valuation loses its pointer to the
  first, and the first pair is linked in one direction only, although
  `recommendation_lifecycle.py:10-11` says that such a pair can never be committed.
  Two Valuations may supersede each other.
- Two previews of one generated Report leave two with the same fingerprint (GEN001). Two slugs
  can share one id.
- Some single operations produce a repository that `validate_repository` refuses, after which
  every operation is refused until a file is edited by hand: the approval of a Thesis without
  `review_date`, an assertion without reviewed Evidence, a Resolution or Valuation without a
  reviewed Source or a licence, an entity draft that names an object that does not exist
  (`drafts.py:268-271` wants this), and the reuse of a successor above.
- `validate_repository` caches its answer for a file by time stamp and size (`validation.py`);
  the models read the files (this one is read from the code).
- An impact batch that is run again makes its objects again (`impact_draft.py:131-142`; read
  from the code).

Candidates and their store:

- `expire_candidates` selects outside its transaction and updates by id alone
  (`triage.py:314`), although its docstring limits it to queued candidates: it overtakes a
  promotion or a dismissal. History variable `overtaken`.
- If two promotions of one candidate both pass the preflight, the compensation of the loser
  removes the file that the winner wrote (`promote.py:282`).
- A discovery that outlives `LOCK_STALE` is reclaimed while it works; meanwhile two discoveries
  of the channel run. Its late finish is refused, because the row is no longer running.
- `candidate_db.py:5-6` says that migrations apply and roll back atomically. A crash within
  version 1 leaves a file of version 0 that is refused for ever; a crash after the copy or
  the drop of version 2 blocks retries; two overlapping migrations can drop
  `candidate_actions` with all rows; a row that is inserted between copy and drop is lost; a
  rollback to version 0, or from 3 to 1, cannot be followed by an upgrade. The properties of
  `StoreFile` name exactly these windows.
- The schema in a snapshot's manifest is read before the copy; two snapshots with the same
  destination overwrite each other. `verify_candidate_snapshot` refuses such a snapshot
  (`backup.py:180-183`); hence `moved` in `SnapshotsFit`.
- Backups that overlap may set `latest-success.json` back to the older one. A partial upload
  blocks its id for ever. The inventory is not one moment for all assets, and an
  asset that is removed before the inventory reaches it is missing; `NothingOlder` says what
  remains true.

Ingestion of Sources:

- Processing takes the list of assets from the first reading (`ingestion.py:459`) and writes
  it over a capture that came in between: the Source then states the hash of one version and
  lists the files of another. History variable `overtaken`.
- A processing that fails beside or after a successful one writes `failed` over `processed`;
  the existing extraction is then refused (`ingestion.py:447`), and the Source stays `failed`
  until it is captured anew with another content. History variable `spoiled`.
- After a crash between the Source and its assets the Source states a hash whose file is
  missing, and capturing the same content again is refused as unchanged (`ingestion.py:336`).
- A rollback goes file by file and stops at the first call that fails (`transaction.py:97-111`,
  `web_repository_mutations.py:271-273`): assets stay beside a Source that no longer lists them, or
  the Source keeps a version that is gone. An extraction that stays is refused for ever
  (`ingestion.py:447`). History variable `torn`.
- Two captures at the same time do not see each other as duplicates.
- A duplicate that is allowed is named by the later capture; when the first Source is then
  captured again with a content of the second one, each names the other, a cycle that
  `source_independence_groups` (`workflow.py:183`) refuses.

### Bounds

`Horizon` ends the clock and no lease outlives it; attempts saturate at
`AttemptCap`; `MaxFaults`, `MaxVersion` and `MaxManual` bound crashes, edits and
requests; run ids come from a pool. A second worker, a second run of the same
schedule, one expiry and one reclaim are what overlaps need, and three time units
let a lease of two start late, run out and be reclaimed. The constraint `NotLapsed`
of `SchedulerTwoWorkers` cuts behaviours after a lapse, where all of its properties
are vacuous. In `SchedulerRestart` the clock goes up to 5 at an interval of 2, so that a worker
which is down between two looks catches up with two due times at once.

In `SupervisorLife` `MaxPids` is the number of processes that two starts need, each
with one replacement at each of the two clock values: one start cannot show a stale
flag or a leftover child.
In `RepositoryCommit` three faults are the fewest that fail a publication, its
compensation and its manifest; one outside change and one restart are enough to
separate every check from its use; with two plans one mutation comes between preview
and confirmation of the other, and two files are the fewest that can be half done.
Both plans write both files, so plans and files are interchangeable and the symmetry
is sound.

In `ReviewCycle` and `DecisionCycle` two commits let one plan be written between the
computation and the writing of another, which is how a rule between objects can break. The
seeds hold objects at several stages of their lives, so that every operation is enabled within
these two commits. `Batches` limits the sets of files that one review names or one new object
cites. In `CandidatePromotion` one fault or crash at any step meets two promotions of one
candidate. `StoreFile` needs two processes and one crash: each window that its properties name
is one of these. In `DiscoveryLocks` two processes and two channels compete for three
rows, and `LockStale = 1` lets a row get stale while its process works. In `StoreBackup` one
edit or removal between any two steps and one replaced asset separate each check from its use; an asset
place that is empty at the start shows an asset that appears. In `SourceArchive` all three operations may be at
work at once, which is what a late write, a failure beside a success and two captures of one
content need; one page brings new content and has a URL, the other has the content of the archived
Source, so both kinds of duplicate are found; two faults fail a call and
its record, start a rollback and fail it, or start one and end the process of another. What the proofs of section 4
cover holds without these bounds.

### Fairness and deadlock

`SchedulerWorker` (`LiveSpec`): each worker keeps going and jobs return (weak fairness of
`WorkerStep`), a dead worker is replaced (weak fairness of `Spawn`, which is the
supervisor's restart or the next start of the Web application) and time passes.
Nothing is assumed of clients, edits and faults. `RunsFinish` also needs
`ListLimit` to be at least the number of rows.
`SupervisorLife`: threads keep going (weak fairness of their steps) and a readiness
loop ends (strong fairness of `GiveUp`: its deadline is finite, but other branches of
the loop interrupt it). Nothing is assumed of children, of the time, or of the
application. `RepositoryMutation` has no liveness property: a handler is a sequential
program without waits.
`DiscoveryRuns` (`RunsLiveSpec`): time passes and a discovery ends (weak fairness of `Tick` and of
the steps of a process; requests have timeouts), each channel is scheduled again and again and
not every start dies before its transaction (strong fairness). Nothing is assumed of deaths.
The other modules have no liveness property: their operations are sequential programs
without waits, and whether a person confirms a plan or repeats a backup is not theirs to say.

Deadlock is checked in `DiscoveryLocks`, where a process can always begin again. In the other
runs the system may stop: the clock, the requests and the rows of the bound are used up, the
application has ended, or nobody asks for anything any more.

## 4. Proofs

`SchedulerWorkerProofs`, first part: `DbInv` (types, one active run per schedule, lease
columns match the status) is inductive for every operation of `OperationsDb` with arguments
of the right types. Each operation has its lemma, so the proofs about the worker can use them.

Second part, the worker: `IInv` is the inductive invariant. `OverlapNeedsLapse` alone is
not inductive: nothing in it says why a second worker cannot claim the row. The
conjunct `Ownership` says that, before a lapse, a worker in `"mark"` or `"execute"`
with a scheduled run owns the row until `LeaseOf(w)`; `ClockInv` says that no clock
value in use lies in the future, so nobody sees that lease expire early;
`RowsExist` says that rows in hand are inserted, so no insert hits them, and that
callers hold only ad-hoc rows; `LapseNoted` links the history variable to the
clock. `OthersRow` is the heart: under `IInv` no step of anybody touches a row that
another worker holds.

`RetriesBounded` needs the converse, and of ad-hoc runs too: `RetryInv` says that, as long
as nothing has lapsed or failed (`Quiet`), an active row is in the hands of its owner
(`InHand`), that the owner counts its attempts (`Tried`), and that a queued row has an
attempt left (`Attempts`). So what is claimed was queued, never reclaimed, and only the
worker that claimed a run last queues it again.

Proved for all values of the constants: `TypeOK`, `LeaseMatchesStatus`, `OverlapNeedsLapse`, `RetriesBounded` and the action property
`FinishedStaysFinished`. The assumptions are `NullsAreNotIds`, `NumbersAreNat` and
`WorkerConstants`. Only model-checked: the liveness property `RunsFinish`, because the prover
handles neither fairness nor ENABLED.

Third part, the slots. A worker reads the due schedules into a list, advances each of them in
one transaction and inserts its run in the next, so neither property about slots is inductive.
`Lists` says that the list holds one record of a schedule and only while the worker queues.
For
`DuplicatesNeedEdits` `SlotFits` counts: the versions of a schedule pay for the runs of a due
time, for one that is advanced and not yet inserted (`Pending`) and for one that can still be
queued because the row or a list has not got beyond it (`Coming`). That needs `OneWorker`, so the
theorem assumes `MaxAlive = 1`; it is what `AtMostOneChild` says of the supervisor, and section
3 tells what two workers do. `DueTimesServed` says that a tick never looks at a schedule in vain:
a due time less than an interval ago has its run, is about to get it, or is in `lost`. Its
invariant is `LookInv`: every `next_run_at` in the table, in a list or in the hands of an edit is
the end of the interval of such a due time (`NextServed`, `ListServed`, `EditServed`), which lies
in the past of the tick (`ServedPast`), and what is served stays served (`ServedStays`). So a
schedule that is found not due was served. It holds for any edits of the interval, but only for
`catch_up_once` (under `skip_missed` no due time gets a run) and for one live worker: a second
one whose clock value is older may look at a time before the first run. `WorkerImplementsDb`: every step of the worker, the Web
application, the CLI and the import maps to a step of `DbSpec` or a stutter, if the clock of
`OperationsDb` is unbounded (`Times = Nat`) and its bound on attempts is out of the reach of
the retries (`RetryLimit < AttemptCap`).

`WorkerSupervisorProofs`: `IInv` consists of the types, `PidsInv` (process ids beyond
the last one given out are unused), `Counted` and, as long as `~reentered`,
`OneActor` (at most one thread is between spawn and assignment, or watches),
`Seated` (a live child is the assigned one or in the hands of that thread),
`Cleared` and `Flagged` (what the stop event and the ready flag say of the
assignment), `Reaped` and `Stopping` (how far `stop()` is). `AtMostOneChild` needs
all of `OneActor` and `Seated`, because nothing in it says that a monitor which is about
to call `Popen` has seen its predecessor die. `BudgetKept` speaks of `MaxRestarts` restarts in
any window (the default of `RestartPolicy` is three), but a monitor counts only those it still remembers: `RestartInv` says that the
times granted are in order and that whatever a monitor has dropped from its list is too old
to count, for any clock value from now on. Proved: `AtMostOneChild`, `NoChildAfterStop`,
`ReadyIsReported`, `BudgetKept`. Only model-checked: the liveness properties
`ShutdownEmpties` and `AbsenceEnds`.

`RepositoryMutationProofs`: the question is why a token may be used again after a
failure. `RetryableIsUntouched` is not inductive. `Unseen` says that nobody's before
images or versions hold what a mutation writes as long as it may still run;
`Untouched` that no file holds it before it runs or when it may run again; `Within`
that the transaction in hand and its before images do not put it back;
`Settling` that the files which the gateway has found equal to the preview do not
hold it. `NonceInv` ties the nonces to `pc`: exactly the plan in hand is
`committing`. `Publishing` follows the transaction through its loops to
`CommittedIsWhole`: each file of an audited mutation holds what it wrote or was changed by another
process after it had been replaced (`overwritten`). Proved for any plans, paths and bounds: `TypeOK`, `NoStuckNonce`,
`RetryableIsUntouched`, `CommittedIsWhole`, and the refinement `OneUse`
(`GatewayIsOneUse`: initial states map to initial states, each step to a step of
`OneUseCommit` or a stutter). Assumptions: `AbsentIsContent` and `MutationConstants`.
`LInv` carries `LeftoversAreRecorded`: a file that holds what a mutation wrote belongs to
one that is accounted for or whose handler is still at work (`Accounted`), and so does
each image a rollback or a compensation may write back (`Images`); a file the transaction
in hand wrote will be rolled back (`Rollable`); and what the verification has looked at
holds nothing of it (`Verified`), so `compensated` is recorded only when it is true.

`ResearchObjectsProofs`: the rules about one object and the order of statuses are not inductive,
because a plan is written long after it was computed. `IInv` says of each plan in hand what its
operation established (`PlansLegal`): the new contents obey the rules of their own file
(`Sound`) and are a legal move from what was read, for the files that had not changed when they
were read again. A file that is not in `clobbered` was the same at every reading and still is, so
writing the plan is the legal move itself. For `OneResolution` the stronger `PlansAnswer` says that a plan either closes no
Forecast and adds no Resolution, or is one Resolution together with the Forecast it closes;
`SubjectsExist` keeps a Resolution from waiting for a Forecast that is not there.

The rules between objects (`RulesKept`) need an argument about what others publish in the
meantime, because a confirmation compares only the files of its own plan. `Standing` says that
everything a plan writes satisfies its rules in `Overlay`, the repository as it would be with
the plan in it. `Grows` orders repositories: a file stays, a reviewed Event stays reviewed, a
Source stays extracted, the links of a Report stay. `StandsOn`: what stands in a repository
stands in every one it grows into, if it asks for no more itself. `PlansKeep` says that each
plan makes what it read grow, so a publication that writes no changed file makes the
repository grow, and with it the overlays of all other plans (`PlansStand`). For
`SupersessionEnds`, `Linked` says that a plan writes a new link only to an object of the same
plan that has no successor: a circle would need one. Like `OneResolution`, both hold until a file
is written that had changed since it was validated, which the command line does.

Proved for any files, sessions and bounds: `TypeOK`, `LocalRules`, `MovesAreLegal`,
`OneResolution`, `RulesKept`, `SupersessionEnds`. Assumptions: `ObjectConstants`,
`SeedIsValid` and those of `ResearchValidation`. `SeedIsValid` asks a little more of the
repository at the start than that it is valid: no circle of successors, and no Recommendation
with a successor that is not superseded. `validate_repository` rejects neither, and no
operation makes either; the proof of `SupersessionEnds` shows that both are needed, because an
active Recommendation of the Seed with a successor could become the successor of another one.

`CandidateDbProofs`, the file: none of the three properties of `CandidateStore` is inductive.
`Described` says of the one process that migrates which tables its statements have left so far
(`Ready`), so that the next one succeeds, and of a file nobody migrates that the next migration
will find what it needs (`Good`). `Retained` says that before the drop everything that may be
lost is in the copy (`MayDrop`); `OneMigration` that nobody else drops meanwhile. `Copied` and
`Manifested` follow a snapshot from the copy to its manifest. Proved for any processes, rows,
crashes and rollbacks: the types, `VersionDescribes`, `ActionsKept` and `SnapshotsFit`.
Assumptions: `StoreConstants` and `NoneIsNothing`.

`CandidateDbProofs`, the lock: `RowsFit` ties a working process to its row: it is running, or
older than `LOCK_STALE`; `OwnRows` says that no two processes hold one row; `AtMostOne` is the
lock. Proved: `RunsTypeOK`, `OneRunPerChannel`, `OverlapNeedsStale`, `ReclaimedStays`. Only
model-checked: the liveness property `ChannelReopens`.

`CandidateQueueProofs`: a promotion writes files first and the row later, and what holds in
between is not in the properties. `FileOf` says that a file belongs to the plan that is
published there and how far that plan is; `Own` that until two promotions overwrote each
other a plan's file is its own; `LinkedRow` that a row which was linked once has a source, or
is purged, whatever an expiry did to it since: this is why a second promotion cannot be
linked, and `OneSourcePerCandidate` is inductive only with it. Proved for any candidates,
plans, jobs and bounds: `TypeOK`, `PromotedHasSource`, `OneSourcePerCandidate`, `NoOrphans`
and `PromotedStays`. Assumption: `QueueConstants`.

`StoreBackupProofs`: the invariant follows a backup through its phases. `Sole` says that one
process makes it; `Packed` what its work directory holds at each phase, up to `Complete` and
`AsInventoried` from the check of the archives on; `Sent` that every upload up to the counter is
there with the id that was noted, unless somebody interfered; `RemoteFits` that an asset nobody
interfered with is the one the backup uploads; `ReceiptFits` that a receipt freezes all of it.
`AgeFits` gives `NothingOlder`, `RestoreFits` gives `RestoreExact`. `LatestHasReceipt` (what
`latest-success.json` names has a receipt) and the three properties of the run are proved for any processes, backups, assets, changes and interference. Assumptions:
`BackupConstants` and `NoneIsNothing`.

`SourceArchiveProofs`: the four properties are about Sources that no late write has spoilt, three of
them also that no crash and no failing rollback has torn, and none is inductive, because an operation
writes the Source and the assets one by one and takes them back one by one. `Base` says what a plan holds at each step; `Timely` that an operation which
is not late has read what there is; `Ownership` that a version belongs to one Source and nobody
knows it before it is captured, so no other operation touches its files; `SourcesInv` that a clean
Source describes the archive as it is and as a rollback would leave it; `Naming` that of two
Sources with one content one names the other, and that a capture at work knows those it will
have to name; `Recorded` that a Source no late operation has written lists what was captured of it
and not taken back, which a rollback keeps because it takes back the last capture. Proved for any
Sources, operations, pages, failing calls and crashes: `TypeOK`,
`TextIsCurrent`, `VerifyPasses`, `WaitingCanBeProcessed`, `DuplicatesNamed`. Assumptions:
`ArchiveConstants` and `NoneIsNoDoc`.

Every invariant and every action property of a run, and the refinement, is the statement of a
theorem. Only model-checked are the liveness properties: `RunsFinish`, `ShutdownEmpties`,
`AbsenceEnds` and `ChannelReopens`.

## 5. Plan

1. (done) the operations database and the scheduler worker.
2. (done) `WorkerSupervisor`.
3. (done) `OneUseCommit` and the gateway with its plan store.
4. (done) `FileTransaction` and `RepositoryMutation`.
5. (done) `CandidateQueue` and `DiscoveryRuns`.
6. (done) `CandidateStore` and `StoreBackup`.
7. (done) `ResearchValidation` and `ResearchObjects`.
8. (done) `SourceArchive`.

Theorems worth adding: `DuplicatesNeedEdits` with overlapping workers, where a due time has at
most as many runs as versions and workers together; that `UniqueIds` holds for types with a
number of their own, so that `RulesKept` needs it only of Sources and Events.

## 6. Not modelled

- Rendering and argument handling (`ui/app.py`, `cli.py`, the pages) is the largest part of
  the code. Handlers that change state are modelled with the component they call; what is left
  formats, parses and dispatches.
- `services/release.py`, `benchmark.py` and the provisioning scripts check artefacts of a
  release on a maintainer's machine, once, in one process.
- Read models, indexes, metrics, scoring, calibration, deduplication, audits and comparisons of
  analyses are functions of the files that return numbers or reports. No operation decides
  by them, so that no property of a transition system depends on them; formulas and thresholds
  are arithmetic over dates and decimals that is better served by tables of examples.
- Text extraction, hashing, network access, language models and encryption are external.
- `reconcile_candidate_databases` adds to one candidate database the rows that another has and
  it lacks, in one transaction and only when no identifier means two things; only tests call
  it. `migration.py` rewrites Markdown of an older layout with a `FileTransaction`; only tests
  call it, too.
- Proposals of company updates, scenarios, insights and assistance add a Markdown file that no
  rule about other objects looks at.
- Mutations of candidates and schedules through the gateway execute a database transaction;
  the gateway's side is the same as for files, and the transaction is in `CandidateQueue` and
  `SchedulerWorker`.

For these reasons the map covers about a seventh of the implementation: the services that
change state, not the ones that compute or show.
