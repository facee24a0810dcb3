# WheelForge: a TLA+ model of its queue, pipelines, storage and retention

WheelForge turns an uploaded `requirements.txt` into a downloadable archive of
wheels. A Spring API (`src/backend`) and any number of Python worker processes
(`src/worker`) share a MySQL database and an object store on disk. They never
call each other: every hand-over is a row that one side writes and the other
finds. This directory models that hand-over (the lease queue, the two pipelines
that run on it, the API calls that race with them, and the retention job that
deletes what users may still be downloading), the files a worker leaves behind
with the queue and the sweep that clear them, and what the first two stages of a
build do: the search for replacements and the download of wheels.

## Contents

1. [Inventory](#inventory)
2. [Modules and the code they model](#modules-and-the-code-they-model)
3. [Runs](#runs)
4. [Bounds](#bounds)
5. [Fairness](#fairness)
6. [Proofs](#proofs)
7. [Findings](#findings)
8. [Known gaps](#known-gaps)
9. [What is not modelled](#what-is-not-modelled)
10. [Plan](#plan)

## Inventory

| Part | State | Operations | What makes it correct |
|---|---|---|---|
| Job queue (`jobs/repository.py`) | `build_jobs`: status, `available_at`, attempts, lease owner, execution id, expiry | `claim_next`, `heartbeat`, `retry_or_fail`, `fail_terminal`, `_terminalize_exhausted` | one owner at a time writes; attempts are bounded; every job ends |
| Worker loop (`jobs/consumer.py`) | the lease in hand | claim, dispatch, one last `retry_or_fail` | no failure leaves a job that nobody will finish |
| Build pipeline (`jobs/pipeline.py`, build half of the repository) | `build_tasks`, `resolved_packages`, `artifacts`, files in storage | claim subject, check cancellation, advance, persist, publish, commit, compensate | task and job agree; artifact, audit and file belong to one execution; a cancelled task gets no artifact |
| Parse pipeline (same files, parse half) | `requirement_files`, `normalized.txt` | claim, read, publish or reuse, complete, compensate | file and job agree; a parsed file has its object |
| Build task API (`BuildTaskService`) | rows it inserts | create, cancel, retry, delete | a retry leaves the old record alone; a cancel is honoured |
| Upload API (`RequirementFileService`) | original object, two rows | put, commit, clean up after rollback | the parse ends whatever the commit's outcome |
| Heartbeat (`jobs/heartbeat.py`) | a thread per stage | renew, stop, report | a late renewal revives nothing |
| Downloads (`ArtifactService`) | `download_records` | prepare (lock the row), stream, complete | a ticket leads to an object |
| Retention (`ArtifactRetentionJob`, `ArtifactRepository`) | `cleaned_at`, the batch it locked | claim expired, delete, mark, commit | no running download is cut off; everything expired is cleaned |
| Worker object store (`jobs/storage.py`) | objects, stages, quarantine directories | publish, publish or reuse, delete if owned, sweep | a crash between two steps loses no recorded object and leaves no file without a record |
| Maintenance queue (`jobs/segmented_queue.py`) | three lanes of slot files, counters and cursors in an attribute | enqueue, move, complete, peek, reconcile | no record lost; the counters agree with the files or are rebuilt |
| Maintenance service (`jobs/maintenance.py`) | a snapshot of the database | sweep workspaces, sweep objects | nothing recorded or live is swept, though the snapshot is old |
| Workspaces (`jobs/storage.py`) | directories per execution, a cleanup stack | allocate, clean up, sweep | no live workspace is cleared |
| Resolver (`resolver/compatible.py`, `candidates.py`) | attempts, observations, options, three budgets | try originals, discover, combine, try | the preferred choice is taken; EXHAUSTED means nothing was left out |
| Wheel downloader (`download/wheels.py`) | publication and attempt directories | begin, ask a source, inspect, publish, commit, unwind | every package is accounted for once, nothing half done is left |
| Validation, builder, parser, targets | none beyond a call | pure or I/O | results within limits and compatible with the target |
| Subprocess control (`process.py`) | a child process | run, time out, kill the group | no child survives its stage |
| Administration, authentication, profiles, results | plain rows | CRUD with version checks | lost updates are refused |
| Web frontend (`src/frontend`) | view state | calls and polls the API | a stopped poll shows nothing more |

### How the parts interact

* API to worker: `BuildTaskService.create`/`retry` and
  `RequirementFileService.upload` insert a subject row and a READY job in one
  transaction. A worker finds the job with `SELECT ... FOR UPDATE SKIP LOCKED`.
* User to running worker: `cancel` sets `cancel_requested`; the worker reads it
  at seven points of the pipeline and once more under the row lock at the end.
* Worker to worker: only through the lease. A takeover draws a new execution
  id; the old worker finds out the next time it locks the job row.
* Worker to API: the artifact row. The file lies under a key that names task
  and execution.
* Download to retention: `download_records`, and the lock on the artifact row.
* Worker to its own successor: the file system. Before a file is made, a record
  of it is queued (`_queue_enqueue`); whoever sweeps next (any worker, between
  two jobs) finds the record, looks at the file and the database snapshot and
  finishes, undoes, defers or holds. One `flock` per root, the gate, orders all
  of this; the database is not under it.

### Hard behaviours

Workers displaced in the middle of a stage; crashes between two transactions;
clocks that differ between hosts; commits whose answer is lost; a cancel call
that reads, waits and writes; compensation of published objects; a sweep that
deletes files inside a transaction that may roll back; snapshots that are older
than the rows they are compared with; publications, compensations and cleanups
cut short after any of their file operations; queue items that a writer keeps
while others move the record; a search with three budgets that each may run out.
`PROJECT.json` lists them as hazards, each
at its line, with the properties that are about it.

## Modules and the code they model

| Module | Models |
|---|---|
| `JobLease` | one row of `build_jobs` and its updates; readiness, expiry and ownership on a worker's own clock |
| `JobWorker` | `claim_next`, `JobConsumer`, the ways a pipeline is left, `retry_or_fail`, crashes, clocks |
| `BuildQueue` | the build pipeline, its repository calls, the cancel, retry and delete calls of the API; extends `JobWorker` |
| `BuildLifecycle` | the promise to the user, no queue in sight; `BuildQueue` refines it |
| `ParseQueue` | upload and parse pipeline; extends `JobWorker` |
| `Retention` | downloads against the retention job |
| `SegmentedQueue` | the maintenance queue, one file operation at a time, with crashes and exceptions inside every call |
| `MaintenanceRecords` | what a caller sees of that queue: the copies of a record, enqueue, move, complete and reconcile as functions on them |
| `Maintenance` | publication, compensation, workspaces and the sweep over both roots; extends `MaintenanceRecords` |
| `PackageSources` | the order of the package sources |
| `CompatibleResolver` | `CompatibleResolver.resolve`: the search for replacements and its limits |
| `WheelDownloader` | `DefaultBuildStages.download` over `WheelDownloader.download_one` |
| `BuildStages` | the two stages in a row, and their properties; extends both |
| `MCBuildQueue`, `MCParseQueue`, `MCRetention`, `MCSegmentedQueue`, `MCMaintenance`, `MCBuildStages` | values of the constants for TLC |
| `JobWorkerProofs`, `NaturalBounds` | lemmas shared by the proofs: job rows and workers; least and greatest naturals |
| `BuildQueueProofs`, `ParseQueueProofs`, `RetentionProofs`, `SegmentedQueueProofs`, `MaintenanceProofs`, `BuildStagesProofs` | theorems about the module of that name |

### Granularity

One SQL transaction is one action, because every repository call locks the job
row first and holds it to the end. Two places are finer:

* `BuildTaskService.cancel` is one transaction but reads the status without a
  lock; reading, cancelling the job row and locking the task are separate
  actions (`CancelReadStatus`, `CancelReadyBuildJob` or `CancelMissesJob`,
  `CancelRunning`).
* The retention job is one transaction with visible side effects: reading the
  switch (which fixes the snapshot), claiming, each deletion and the commit are
  separate actions.

In `SegmentedQueue` one file operation is one action: creating the temp file,
linking it, unlinking it, writing the state. In `Maintenance` one call under the
gate is one action that carries a number `n`, the steps it got through: nobody
else can look at the root before the gate is free, so only the state after the
last step, or after the step the process died in, is ever seen. The two reads of
`maintenance_snapshot` are separate actions: under MySQL's default isolation
they see one state, but the properties hold without relying on it. Every record
of a sweep is an action. What happens without the gate is split: retention
removes an object (`RetainObject`) and then commits or rolls back
(`RetainEnd`), and a commit whose answer is lost (`RecordUnacknowledged`) leaves
the worker where it compensates what it has recorded.

An operation that raises (`AllocateRaises`, `PublishStageRaises`, `PublishRaises`,
`PublishLinkRaises`, `Compensate`, `CompensateLeavesDirectory`) does so after any
of its steps and runs its error path, which may itself stop half-way. A process
that dies runs none.

Between two transactions a worker stands at a program point `pc`. Work that
touches neither database nor storage (resolving, downloading, validating,
packaging) is not an action: it happens while `pc` rests at the next point,
where the heartbeat may renew the lease, the clock may run, the process may die
and the stage may raise.

| `pc` | `_run_build` |
|---|---|
| 0 | `claim_build_subject` |
| 1, 2, 5, 7, 10, 12, 14 | `_cancel_if_requested` |
| 3, 6, 8, 11 | `advance_build` to RESOLVING, DOWNLOADING, VALIDATING, PACKAGING |
| 4 | `persist_resolution` |
| 9 | `persist_package_results` |
| 11 | also the verdict "no useful wheel": `fail_terminal` |
| 13 | `publish_descriptor` |
| 15 | `publish_artifact_terminal` |
| 16 | `cancel_build` |
| 17 | `delete_if_owned` on the published orphan |
| 18 | `retry_or_fail`, `fail_terminal` |

`ParseQueue` uses 0 to 4, 17 and 18 in the same way.

### Abstractions

* Time is relative. `ttl` and `delay` are distances from the slowest clock, cut
  at zero; `Skew[w]` is how far a worker's clock is ahead of it. The code reads
  `utcnow()` just before it takes the row lock; the model reads the clock with
  the lock. A worker that waits for the lock with an older `now` behaves like a
  worker whose clock is that much slower, which the skew allows for.
* An execution id is a fresh UUID per claim and every claim counts an attempt,
  so the attempt number stands for it.
* `resolved_packages` is who wrote the rows and whether results are in; the
  packages themselves are left out.
* Failure codes are kept as far as a property tells them apart.
* Priorities are all equal in the code (nothing sets another one), so the
  queue's order is the order of ids.
* In `Retention` the data source sets no isolation level, so MySQL's REPEATABLE
  READ is assumed: a plain read uses the snapshot of the transaction's first
  read, a locking read sees the present. `claimExpired` locks `artifacts` only;
  its subquery on `download_records` has no locking clause.

* In `SegmentedQueue` a segment and a slot are one cursor, a record is its id,
  generation and sequence, and the byte limit is left to the record limit. A
  client is a writer, which keeps its item after it has left the gate, or a
  sweeper, which does not.
* `Maintenance` keeps no slots: a record is the set of its copies, and a
  complete on a stale item may find its slot empty or, by raising, reused, as
  `SegmentedQueue` shows it can. An execution is one claim. A file is young or
  older than the minimum age. Workspaces have a depth instead of contents. A
  lease is `late` when it has run out on some worker's clock and its owner may
  still renew it; a sweep may take it for live or leave it out of its snapshot
  (`missed`), as `maintenance_snapshot` asks the sweeping worker's own clock.
* In `CompatibleResolver` a version is major, minor, micro and whether it is
  final; `_python_compatible` and `_has_target_wheel` decide by what a release
  says of Python and by the kinds of its file names; what pip says of an attempt
  and what an index lists, one version more than once too, are chosen freely. A
  provider raises before or after any of its entries.
* In `WheelDownloader` a wheel is its source and size; removing a directory may
  fail, after which it is `stuck`.

Definitions that begin with the comment `Mutant:` are not part of the model.
Each is a plausible slip in the definition that follows it; putting it in that
definition's place makes TLC refute the property named in `PROJECT.json`.

## Runs

| Run | Distinct states | Shows |
|---|---|---|
| `build_one_task` | 154,294 | one task, two workers with different clocks, two attempts, cancel and delete at any time, errors, crashes and lost answers everywhere: all safety and action properties, the refinement of `BuildLifecycle`, and that every job ends |
| `build_two_tasks` | 101,878 | one worker, two tasks, the second possibly a retry of the first: the old record is left alone, neither job starves |
| `parse` | 25,012 | one file, two workers, three attempts: the file row is fenced by the job row alone and always settles |
| `retention` | 89,774 | three artifacts, one undeletable, two downloads, transient faults: downloads the sweep could know of are safe, everything deletable is cleaned while fewer rows than a batch holds cannot be |
| `segmented_queue` | 976,574 | two processes, two records, two slots per lane, two faults between any two file operations: nothing is dropped, a start keeps the newest copy, the state stays readable and agrees with the files |
| `maintenance` | 1,482,270 | a build through two sweeps, a build and two executions of one parse through a sweep and a fault, which is a death or an exception after any step: recorded files go in the named ways only, live files stay, the rest stays tracked |
| `build_stages` | 253,865 | two pins, two sources, free listings and answers, then the download: the order of the search, what EXHAUSTED means, the books of the download |
| `build_stranded`, `build_unacked`, `build_claim_gap`, `parse_takeover`, `retention_snapshot` | (violations) | see [Findings](#findings) |

Deadlock is not checked but in `build_stages`, where only a finished stage may
rest: when all tasks have ended, all artifacts are cleaned and no user calls,
the system rests, and the runs over files end when their sweeps, sequence
numbers and faults are used up.

The properties, by what they relate:

* *Who may write.* `OwnerHoldsTask`, `OwnerHoldsFile`: after the subject claim,
  holding the lease implies holding the subject, which the later writes rely on.
* *Rows agree.* `JobTaskAgree`, `JobFileAgree`: job and subject end together.
* *One execution.* `ArtifactMatchesAudit`, `AuditFollowsOwner`,
  `AuditMovesForward`: artifact, task and resolution audit come from one
  execution, and no displaced one overwrites them.
* *Promises.* `CancelHonoured`, `TerminalStable`, `FileSettled`,
  `RefinesLifecycle`, `RecordedFileKept`.
* *Progress.* `JobEnds`, `ParseEnds`, `ExpiredCleaned`.
* *Downloads.* `KnownLeaseKept`, `SweepIsSafe`, `AvailableHasObject`.
  (`CleanedIsGone` is proved and not run: `SweepIsSafe` and the commit imply it.)
* *Files.* `RecordedKept` (which steps may remove the file of a listed artifact:
  retention, the compensation of its own execution after a lost answer, and a
  sweep on whose clock the lease had run out before the row was written; no other
  sweep, and no compensation of another execution), `LiveKept` (nothing of an
  execution is swept whose lease is live on every clock), `NothingUntracked`
  (whatever nobody will ask for again has a record that leads a sweep to it).
* *The queue under them.* `NothingDropped`, `NewestSurvives`, `StateAgrees`, and
  `TypeOK`, which holds the state to what `read_state` accepts.
* *Stages.* `ChosenFirst`, `ExhaustedIsComplete`, `DownloadAccounts`.

## Bounds

* `NumSubjects`, `Cancellable`, `Deletable`: how many tasks or files exist and
  which of them users touch. A task interacts with another only through the
  choice of a candidate and the retry, which two tasks exercise.
* `MaxAttempts` 2 or 3: two are enough for a takeover followed by exhaustion;
  the runs about a further claim after a takeover use 3, the value in
  `BuildJobEntity`.
* Two workers: one owner and one that is displaced. A third displaced worker
  acts as the second does, as both are only told apart by not owning the row;
  the proofs cover any number.
* `LeaseTicks` 2, skew 0 and 1 with one task: leases run down, are renewed by
  the heartbeat (with 1 a renewal changes nothing) and expire between any two
  steps, and the two clocks disagree about it. The other runs have 1.
* `RetryTicks` 1: a requeued job is not available at once. It is 0 with two
  tasks, to keep the run small.
* `Retention`: three artifacts with `BatchSize` 2 make two batches necessary;
  `MaxFaults` 1 is one rollback or failed deletion at any place. One API
  process in the run; the proofs cover any number.
* `SegmentedQueue`: `Capacity` 2 and `MaxRecords` 2 over three lanes make
  cursors wrap, lanes fill and the record limit bite; `MaxSequence` 3 and
  `MaxGeneration` 2 allow a record to be moved twice, so that a stale item meets
  an empty, a moved and a reused slot; `MaxFaults` 2 is a fault during the
  recovery from a fault.
* `Maintenance`: `Scenarios` names which executions run, how many sweeps begin
  and how many faults hit the executions, a fault being a death or a call that
  breaks off. Builds share no key, so one build meets everything a build can meet
  of the sweep; parses share a key, so two run together. The run has three: a
  build with one sweep and one fault, a build with two sweeps, two parses with
  one sweep and one fault. In each of them every sweep may die. The build is in
  `Skewed`, so its lease may be late. Two sweeps with a fault, and longer
  stacks, are left to the proofs, which bound none of these.
  `Depth` 1 is a workspace with one directory in it, enough for a stack that is
  behind.
* `BuildStages`: pin one is a release whose original is yanked, pin two a 0.x
  version, and the releases listed for them fall on both sides of every rule of
  the candidate order. `MaxObservations` 7, `MaxCombinations` 7 and
  `MaxAttempts` 12 are each met in some behaviours and not in others (two pins
  of two candidates make eight combinations on two sources). An index lists up to
  three entries (`MaxListed`) of which two are looked at (`MaxReleases`); in the
  code the release count and the observations are both 2000, so that the first
  ends a listing only while the budget is still full. Here it is the smaller
  one, and a listing is cut by either. `MaxTotalBytes` 3
  with wheels up to 2 lets the second package exceed the total.
* `ExpiredCleaned` is stated for `Cardinality(Broken) < BatchSize`, which is part
  of the formula; the run keeps one undeletable artifact in batches of two. The
  other case is a [known gap](#known-gaps).

## Fairness

* `WF(Claim(w))`, `WF(Forward(w))`: `JobConsumer.run_forever` polls without end
  and a process that dies is restarted by its service manager; every stage has
  a timeout. Crashes and errors have no fairness and may happen for ever:
  attempts bound them.
* `WF(Tick)`: clocks run.
* `WF(CleanUp(i))`: the scheduler calls the retention job again and again.
* No fairness for users, for cancel calls, downloads, heartbeats or faults.
* `SegmentedQueue`, `Maintenance` and `BuildStages` state safety only and assume
  no fairness: how often a sweep runs depends on budgets and back-offs that are
  not modelled, and the [known gaps](#known-gaps) are cases where it does not
  get anywhere.

`ExpiredCleaned` assumes further that retention is at last switched on for good,
as nothing is deleted while it is off.

## Proofs

Every safety invariant and action property that a passing run checks, and the
refinement, is also a theorem, for every value of the constants that the named
assumptions allow: any workers, attempts, leases, skews and tasks; any
artifacts, downloads and API processes; any processes, records, slots and faults
in the queue; any builds, parses, sweeps, exceptions and crashes in the maintenance; any
pins, releases, sources, packages and limits in the stages.

The assumptions say that counts and limits are numbers, positive where the code
refuses zero, and that "nobody" or "nothing" is not one of the things it is told
apart from (`NoWorker`, `NoItem`, `Empty`, `NoWheel`, `Nobody`). Three say more:
the source order is not empty and names no source twice (`SourcesAssumption`),
an index lists finitely many releases of a package (`ResolverAssumption`), and
builds and parses are different executions (`MaintenanceAssumption`). None bounds
a number from above.

A module's proof has the same shape each time: the inductive invariant with a
comment on each part, lemmas on the operators, one lemma per action (or one for
a group of actions that change the same things), the theorem, and corollaries.

**`BuildQueueProofs`.** `TypeCorrect`: `TypeOK` is inductive alone.
`QueueInvariant` and its corollaries: none of the safety invariants is inductive
alone. The commit of an artifact preserves `ArtifactMatchesAudit` only if the
committing owner finds its own complete audit (`AuditFollowsOwner`), which
another worker cannot have replaced because the owner's execution is the current
attempt; that the task is still open when its owner writes needs
`OwnerHoldsTask`, and that a takeover finds it open needs `JobTaskAgree`:

    QueueInv == TypeOK /\ JobTaskAgree /\ OwnerHoldsTask /\ AuditFollowsOwner
                /\ ArtifactMatchesAudit /\ CancelHonoured

The proof splits it into a part per task and a part per worker and shows that a
step touches one task and one worker (`OneTaskStep`), so that each action only
has to treat the task it changes and that task's owner. `EndedTasksAreStable`,
`AuditNeverFallsBack` and `RecordedFilesAreKept` are action properties proved
from it. The last one rests on `ExecutionInv` as well: no two workers carry the
same execution of a task, and an execution that has not tried its commit, or was
told that it failed, has no artifact row. `QueueRefinesLifecycle`:
under the mapping in `BuildQueue`, every step is a step of `BuildLifecycle` or
leaves its variables alone; it uses `QueueInv` and `CancelsExisting` (a cancel
call in flight is about a task that exists).

**`ParseQueueProofs`.** The file row carries no execution id, so the fencing
rests on the job row alone:

    ParseInv == TypeOK /\ JobFileAgree /\ OwnerHoldsFile /\ RowsFollowUpload

`RowsFollowUpload` (no job before the upload committed) is what makes the commit
of an upload harmless. `SettledFilesStay` follows.

**`RetentionProofs`.** Objects are deleted some steps after their rows were
claimed, so the claim's condition must be carried along:

    RetentionInv == TypeOK /\ MissingIsExpired /\ SeenIsWritten
                    /\ WrittenIsBegun /\ SweepIsSafe /\ CleanedIsGone

`KnownLeasesKept` follows: an object under lease goes only by a sweep whose
snapshot is older than the ticket.

**`SegmentedQueueProofs`.** A call writes slot and state files one after the
other and may stop between any two, so what it is about to write must be right
while it runs:

    QueueInv == TypeOK /\ EnqueueReady /\ RecordLinked /\ CompleteReady
                /\ NextIsQueued /\ SequencesBounded

`NextIsQueued` (a move that is about to complete the old item has left the next
generation in a slot) gives `NoRecordIsDropped`; `SequencesBounded` with
`NaturalBounds` gives the minima and maxima from which `reconcile` rebuilds a
state that `read_state` accepts (`StateAlwaysReadable`). `NewestCopySurvives`
needs the copy of the highest rank, which exists because ranks are bounded.
`StateAgreesBetweenCalls` has an invariant of its own, `AgreeInv`: it follows the
counts through the phases of a call, one behind after the link and one ahead
after the unlink.

**`MaintenanceProofs`.**

    MaintenanceInv == TypeOK /\ Shapes /\ GoodQueue(queue) /\ TodoKind /\ OwnKeys
                      /\ Leases /\ Unpublished /\ Snapshot /\ LiveKept

and with it `NothingUntracked` and `Cleaned` (the object of a row that retention
is cleaning is gone or was restored). A sweep acts on a snapshot of the database
while the database moves on. `Snapshot` says what the old snapshot is still good
for: an execution it does not show alive is over, was missed by the sweeper's
clock, or has no file that was old when the snapshot was taken, and likewise an
artifact it does not list. For a build
claimed after the snapshot this holds because a queued execution has no files
(`Leases`), and `Unpublished` says that before its publication nothing leads the
sweep from an intent to an object. Steps of a worker change what belongs to its
own execution (`OwnStep`), steps of a sweep spare what is listed or alive
(`CleaningStep`); each action is shown to be of one of the two kinds.
`RecordedArtifactsStay` is an action property proved from the invariant: a step
of a worker leaves the other keys alone and has its own row written only if the
answer was lost (`WorkerKeepsRecorded`), and a sweep that removes a listed file
had missed its execution (`SweepKeepsRecorded`).

**`BuildStagesProofs`.** For the download,

    DownloadInv == DownloadTypeOK /\ Places /\ Errors /\ Contents /\ Directories
                   /\ Books /\ Totals

where `Books` says that the packages before the current one are accounted for
once each, and `Totals` carries the running sum as a function, so that no
induction over packages is needed. For the search,

    SearchInv == SearchTypeOK /\ SearchPlaces /\ Observed /\ OptionsDiffer
                 /\ OriginalsFirst /\ InTrial /\ PassedTried /\ PassedOverShows
                 /\ ChosenFirst /\ ExhaustedIsComplete

whose heart is `PassedTried`: every selection the search is past was tried on
every source open to it. A selection is passed by the last pin it replaces: in an
earlier frontier, or in this one when its combination is no longer left.
`ResolvesWhatIsPreferred` then says that the attempt that resolves is the first
one, in the order of the search, that does; `ExhaustionIsComplete` that
EXHAUSTED leaves no choice of the discovered options untried and no source or
entry unread for want of observations (`PassedOverShows`: when something is
passed over for that reason, the budget says so while the search goes on). `CandidatesAreOrdered` is about
`ordered_candidates` itself: the order of preference is a strict total order, so
in a finite set every rank from 0 on is taken by exactly one candidate (an
injection between finite sets of one size is onto), and the list holds every
candidate once, in that order.

**Model-checked only.** `JobEnds`, `ParseEnds` and `ExpiredCleaned` are liveness
under fairness, which the prover does not treat; the five runs that expect a
violation are counterexamples and nothing to prove.

## Findings

Each is shown by a run whose single property TLC refutes; quotations and lines
are in `PROJECT.json`.

* `build_stranded`: a cancel call that read QUEUED before a claim, a takeover
  and a requeue cancels the job and leaves the task in RESOLVING for ever.
* `build_unacked`: when the final commit takes effect and its answer is lost,
  the handler deletes the file of the artifact it just recorded.
* `build_claim_gap`: a worker that is slow or dies between `claim_next` and
  `claim_build_subject` until its lease runs out leaves a task without an
  execution id; the takeover, the second of three attempts, fails it for good.
* `parse_takeover`: the normalized object has one key per file; a displaced
  parser's compensation deletes the object its successor has taken over.
* `retention_snapshot`: a ticket handed out between the sweep's first read and
  its claim is not seen, and the object is deleted under the running lease.

## Known gaps

Behaviours of the code that modelling brought up and that no run refutes,
because no doc says otherwise, because the properties except them, or because
stating them would take a larger instance.

* A process that dies between the `rmdir` of a directory and the write of the
  shortened stack (`storage.py:3698`, `3705`) leaves a workspace whose stack
  names a directory that is gone; `_open_workspace_stack` raises on it in every
  later sweep of the root. `ClearResumes` in `Maintenance` states the contrary;
  TLC refutes it when it is added to `Maintenance.cfg`. The comment at
  `pipeline.py:834` leaves such entries to maintenance.
* The stack is written at any depth and refused on reading above 256
  (`storage.py:3623`): a deeper workspace has the same effect.
* A slot written but not counted (a crash between the two) lets the queue grow
  one past `max_records`; `reconcile` then refuses and no process starts
  (`segmented_queue.py:535`).
* A full queue cannot be worked off by deferrals, since a move enqueues before
  it completes (`segmented_queue.py:246`); publications fail meanwhile.
* A writer whose item's slot was reused fails its publication with "ownership
  changed" (`segmented_queue.py:447`), although the record is where a sweep put
  it.
* Records that end up held and wait for an operator: the intent of a publication
  that two sweeps deferred while it was copied; a publication whose writer died
  between the link and the removal of the stage; a quarantine directory whose
  metadata was not written.
* A file restored from quarantine after its publication record was completed has
  no record any more (`restored` in `NothingUntracked`).
* A compensation that fails before the object is moved removes its quarantine
  directory and completes the record, each by `_best_effort`
  (`storage.py:2484-2494`): if the first fails and the second does not, an empty
  directory stays without a record (`"stray"` in `NothingUntracked`).
* A sweep asks its own clock whether a lease still runs (`repository.py:1083`). On
  a worker whose clock is ahead, an execution that its owner still renews is taken
  for dead, and its old files may be swept, also the object of an artifact it
  records meanwhile (`missed` in `RecordedKept`, `late` in `LiveKept`).
* `claimExpired` takes the oldest rows first and a failed row stays eligible
  (`ArtifactRepository.java:63`): with as many undeletable artifacts as the batch
  holds, every sweep takes the same rows and the later ones wait for ever.
  `ExpiredCleaned` excepts this case; TLC refutes it without the exception.
* EXHAUSTED does not say that an index holds nothing more. `candidates_bounded`
  (`pipeline.py:232`) cuts an index's answer without saying so; a listing of
  another provider is cut at `_MAX_PROVIDER_RELEASES` with a rejection but without
  marking the budget (`compatible.py:611`, and the test at
  `test_compatible.py:861`); a source whose provider raises counts as listing
  nothing (`compatible.py:447`); options beyond the candidate limit are rejected
  (`compatible.py:540`). After each the search may report EXHAUSTED.
  `ExhaustedIsComplete` is about the observation budget only.

## What is not modelled

* Archive validation, packaging, requirement parsing, markers and tags, pip's
  report: pure or I/O work inside a stage. For the queue a stage succeeds or
  raises, and both are modelled.
* Of storage: the scan for files older than the queue (`storage.py` 1342-1473,
  2969-3180), records of the kinds artifact and stage, pruning of empty
  directories, and the workspace capability, which only does I/O.
* Of maintenance: when a run is due, its back-off, and the count of stalled runs.
* Of the resolver: the texts of rejections and version changes.
* `process.py`: timeout, output limit and kill of the child's process group. For
  the stages a call of pip succeeds, fails or times out.
* The heartbeat's threads: a renewal is an action while a stage runs, its
  failure is an error of the stage. The five-second join is not modelled.
* Authentication, administration beyond the retention switch, target profiles,
  build logs, the frontend: plain reads and writes without a protocol, or input
  and output.

## Plan

1. `MaintenanceRecords` states what a caller sees of the queue; `SegmentedQueue`
   shows the file operations behind it. Show the second to implement the first,
   with the copies in the slots as the mapping.
2. The heartbeat's two threads and the frontend's polling, each a small module:
   how a failed renewal reaches the thread that works, and a `start` during a
   request in flight.
3. Lemmas on the operators that are so far used inside larger proofs only: what
   `RecoverPublication` decides as a table, and `Rebuilt` as a function of the
   slots.
