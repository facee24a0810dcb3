----------------------------- MODULE BuildQueue -----------------------------
(***************************************************************************)
(* Build tasks from the API call that creates them to their terminal       *)
(* status.  The API (BuildTaskService) and the worker processes            *)
(* (JobConsumer, JobPipeline, JobRepository) meet only in MySQL and in     *)
(* object storage.  Every SQL transaction is one action; the program       *)
(* points between two transactions of a worker are the values of pc.       *)
(*                                                                         *)
(* Stage work that touches neither the database nor object storage         *)
(* (resolving, downloading, validating, packaging in the workspace) has no *)
(* action of its own: it happens while pc rests at the point that follows, *)
(* where LeaseHeartbeat may renew the lease and where the stage may raise. *)
(***************************************************************************)
EXTENDS JobWorker

CONSTANTS
    Cancellable,    \* the tasks a user may ask to cancel (a bound)
    Deletable,      \* the tasks a user may delete (a bound)
    CommitAckLost   \* may the answer to the final commit be lost?

ASSUME CommitAssumption == CommitAckLost \in BOOLEAN

VARIABLES
    task,         \* build_tasks
    resolved,     \* resolved_packages of a task: who wrote them, and whether
                  \* the wheel results are in
    artifacts,    \* artifacts: the <<task, execution>> of every row
    objects,      \* artifact files in object storage, keyed the same way
    cancelling    \* how far a cancel call of the API has come

dbVars == <<job, task, resolved, artifacts>>
vars == <<job, task, resolved, artifacts, objects, cancelling,
          lease, pc, published, exit>>

Tasks == Subjects

Stages == {"RESOLVING", "DOWNLOADING", "VALIDATING", "PACKAGING"}
Successes == {"SUCCESS", "PARTIAL_SUCCESS"}
Terminal == Successes \cup {"FAILED", "CANCELLED"}
TaskStatus == {"ABSENT", "QUEUED"} \cup Stages \cup Terminal
FailureCodes == {"NONE", "SUBJECT_CLAIM_FAILED", "JOB_FAILED",
                 "JOB_ATTEMPTS_EXHAUSTED", "PERMANENT_FAILURE",
                 "STATIC_VALIDATION_FAILED"}

TaskRow == [status : TaskStatus, exec : Execs, cancel : BOOLEAN,
            deleted : BOOLEAN, code : FailureCodes]

AbsentTask == [status |-> "ABSENT", exec |-> 0, cancel |-> FALSE,
               deleted |-> FALSE, code |-> "NONE"]

WithStatus(row, s) ==
    [status |-> s, exec |-> row.exec, cancel |-> row.cancel,
     deleted |-> row.deleted, code |-> row.code]

ResolvedRows == [exec : Execs, done : BOOLEAN]

(***************************************************************************)
(* The points of JobPipeline._run_build, in order.                         *)
(***************************************************************************)
CheckAt             == {1, 2, 5, 7, 10, 12, 14}   \* _cancel_if_requested
AdvanceAt           == {3, 6, 8, 11}          \* advance_build
PersistResolutionAt == 4
PersistResultsAt    == 9
VerdictAt           == 11                     \* just before PACKAGING
PublishAt           == 13                     \* publish_descriptor
CommitAt            == 15                     \* publish_artifact_terminal
CancelAt            == 16                     \* the check read a set flag

\* Inside _during_lease: the heartbeat thread runs.
HeartbeatAt == {4, 7, 9, 12, 13}

\* Where a stage or a storage call may raise.
RaiseAt == 0 .. 16

StageAt(p) == IF p = 3 THEN "RESOLVING"
              ELSE IF p = 6 THEN "DOWNLOADING"
              ELSE IF p = 8 THEN "VALIDATING"
              ELSE "PACKAGING"

TypeOK ==
    /\ WorkerTypeOK
    /\ task \in [Tasks -> TaskRow]
    /\ resolved \in [Tasks -> ResolvedRows]
    /\ artifacts \subseteq Tasks \X Execs
    /\ objects \subseteq Tasks \X Execs
    /\ cancelling \in [Tasks -> {"none", "queued", "running"}]

Init ==
    /\ WorkerInit
    /\ task = [t \in Tasks |-> AbsentTask]
    /\ resolved = [t \in Tasks |-> [exec |-> 0, done |-> FALSE]]
    /\ artifacts = {}
    /\ objects = {}
    /\ cancelling = [t \in Tasks |-> "none"]
-----------------------------------------------------------------------------
(***************************************************************************)
(* The API.                                                                *)
(***************************************************************************)
\* The next id in line: rows are created one after another.
NextId(t) == /\ task[t].status = "ABSENT"
             /\ \A s \in Tasks : s < t => task[s].status # "ABSENT"

\* save(task) and enqueueBuild in one transaction.
Insert(t) ==
    /\ NextId(t)
    /\ task' = [task EXCEPT ![t] = WithStatus(task[t], "QUEUED")]
    /\ job' = [job EXCEPT ![t] = EnqueuedJob]
    /\ UNCHANGED <<resolved, artifacts, objects, cancelling, workerVars>>

Create(t) == Insert(t)

Retryable == {"FAILED", "PARTIAL_SUCCESS", "CANCELLED"}

\* Mutant: the source row itself goes back to the queue.
RetryInPlace(s, t) ==
    /\ task[s].status \in Retryable
    /\ ~task[s].deleted
    /\ NextId(t)
    /\ task' = [task EXCEPT ![s].status = "QUEUED"]
    /\ job' = [job EXCEPT ![s] = EnqueuedJob]
    /\ UNCHANGED <<resolved, artifacts, objects, cancelling, workerVars>>

\* retry: a new task and a new job; the source row is only read.
Retry(s, t) ==
    /\ task[s].status \in Retryable
    /\ ~task[s].deleted
    /\ Insert(t)

\* softDelete.
DeletedTask(row) ==
    [status |-> row.status, exec |-> row.exec, cancel |-> row.cancel,
     deleted |-> TRUE, code |-> row.code]

\* delete hides the row; neither the job nor a running worker is told.
Delete(t) ==
    /\ task[t].status # "ABSENT"
    /\ ~task[t].deleted
    /\ task' = [task EXCEPT ![t] = DeletedTask(task[t])]
    /\ UNCHANGED <<job, resolved, artifacts, objects, cancelling, workerVars>>

(***************************************************************************)
(* cancel is one transaction but not one step: it reads the status without *)
(* a lock, then touches the job row if it read QUEUED, then locks the      *)
(* task.  Other transactions may commit in between.  One call per task is  *)
(* in flight at a time.                                                    *)
(***************************************************************************)
CancelReadStatus(t) ==
    /\ cancelling[t] = "none"
    /\ task[t].status # "ABSENT"
    /\ ~task[t].deleted
    /\ cancelling' = [cancelling EXCEPT ![t] =
                        IF task[t].status = "QUEUED" THEN "queued" ELSE "running"]
    /\ UNCHANGED <<dbVars, objects, workerVars>>

\* Mutant: a running task is marked CANCELLED by the API itself.
WithCancelAtOnce(row, jobWasReady) ==
    [status |-> "CANCELLED", exec |-> row.exec, cancel |-> TRUE,
     deleted |-> row.deleted, code |-> row.code]

\* requestCancellation, and transitionTo(CANCELLED) when the job was READY
\* and the locked row is still QUEUED.
WithCancel(row, jobWasReady) ==
    [status  |-> IF jobWasReady /\ row.status = "QUEUED"
                 THEN "CANCELLED" ELSE row.status,
     exec    |-> row.exec, cancel |-> TRUE,
     deleted |-> row.deleted, code |-> row.code]

\* Mutant: no look at whether the locked row has ended.
CancelLocksTaskBlind(t, jobWasReady) ==
    \/ task[t].deleted /\ UNCHANGED task
    \/ /\ ~task[t].deleted
       /\ task' = [task EXCEPT ![t] = WithCancel(task[t], jobWasReady)]

\* lockedActiveOwnedTask throws on a deleted row and rolls everything back;
\* a terminal row is returned as it is.
CancelLocksTask(t, jobWasReady) ==
    \/ /\ task[t].deleted \/ task[t].status \in Terminal
       /\ UNCHANGED task
    \/ /\ ~(task[t].deleted \/ task[t].status \in Terminal)
       /\ task' = [task EXCEPT ![t] = WithCancel(task[t], jobWasReady)]

\* cancelReadyBuildJob hits: the job row stays locked until the transaction
\* commits, so no worker can act on the task before its row is locked too.
CancelReadyBuildJob(t) ==
    /\ cancelling[t] = "queued"
    /\ job[t].status = "READY"
    /\ CancelLocksTask(t, TRUE)
    /\ job' = [job EXCEPT ![t] = IF task[t].deleted THEN job[t]
                                 ELSE ClosedJob(job[t], "CANCELLED")]
    /\ cancelling' = [cancelling EXCEPT ![t] = "none"]
    /\ UNCHANGED <<resolved, artifacts, objects, workerVars>>

\* cancelReadyBuildJob misses.
CancelMissesJob(t) ==
    /\ cancelling[t] = "queued"
    /\ job[t].status # "READY"
    /\ cancelling' = [cancelling EXCEPT ![t] = "running"]
    /\ UNCHANGED <<dbVars, objects, workerVars>>

CancelRunning(t) ==
    /\ cancelling[t] = "running"
    /\ CancelLocksTask(t, FALSE)
    /\ cancelling' = [cancelling EXCEPT ![t] = "none"]
    /\ UNCHANGED <<job, resolved, artifacts, objects, workerVars>>

Cancel(t) == CancelReadStatus(t) \/ CancelReadyBuildJob(t)
                \/ CancelMissesJob(t) \/ CancelRunning(t)
-----------------------------------------------------------------------------
(***************************************************************************)
(* The queue.                                                              *)
(***************************************************************************)
\* _terminalize_subject: a terminal row keeps its status.
FailedTask(row, code) ==
    IF row.status \in Terminal THEN row
    ELSE [status |-> "FAILED", exec |-> row.exec, cancel |-> row.cancel,
          deleted |-> row.deleted, code |-> code]

ClaimNext(w, t) ==
    /\ TakeJob(w, t)
    /\ UNCHANGED <<task, resolved, artifacts, objects, cancelling>>

TerminalizeExhausted(w, t) ==
    /\ CloseExhausted(w, t)
    /\ task' = [task EXCEPT ![t] = FailedTask(task[t], "JOB_ATTEMPTS_EXHAUSTED")]
    /\ UNCHANGED <<resolved, artifacts, objects, cancelling>>

\* The lease is held and the task row carries this execution.
OwnsTask(w) == Owns(w) /\ task[Subject(w)].exec = Exec(w)

\* The rest of valid_binding and the target snapshot are as the API checked and
\* wrote them when it created the task, and nothing changes them afterwards.
CanClaimSubject(row, l) ==
    /\ ~row.deleted
    /\ \/ ~l.reclaimed /\ row.status = "QUEUED" /\ row.exec = 0
       \/ /\ l.reclaimed /\ l.prev # 0
          /\ row.status \in Stages \cup {"QUEUED"}
          /\ row.exec = l.prev

\* The row now carries this execution and starts over.
ClaimedTask(row, e) ==
    [status |-> "RESOLVING", exec |-> e, cancel |-> row.cancel,
     deleted |-> row.deleted, code |-> "NONE"]

ClaimSubject(w) ==
    LET t == Subject(w) IN
    /\ At(w, {ClaimSubjectAt})
    /\ \/ /\ ~Owns(w)
          /\ Drop(w)
          /\ UNCHANGED <<job, task>>
       \/ /\ Owns(w)
          /\ CanClaimSubject(task[t], lease[w])
          /\ task' = [task EXCEPT ![t] = ClaimedTask(task[t], Exec(w))]
          /\ Step(w)
          /\ UNCHANGED job
       \/ /\ Owns(w)
          /\ ~CanClaimSubject(task[t], lease[w])
          /\ job' = [job EXCEPT ![t] = ClosedJob(job[t], "FAILED")]
          /\ task' = [task EXCEPT ![t] = FailedTask(task[t], "SUBJECT_CLAIM_FAILED")]
          /\ Drop(w)
    /\ UNCHANGED <<resolved, artifacts, objects, cancelling>>
-----------------------------------------------------------------------------
(***************************************************************************)
(* The build pipeline.                                                     *)
(***************************************************************************)
\* LeaseHeartbeat._run: one renewal while a stage runs.  A renewal that is
\* refused raises LostLeaseError when the stage ends; so does the next step.
Heartbeat(w) ==
    /\ At(w, HeartbeatAt)
    /\ Owns(w)
    /\ job' = [job EXCEPT ![Subject(w)] = RenewedJob(job[Subject(w)], w)]
    /\ job' # job
    /\ UNCHANGED <<task, resolved, artifacts, objects, cancelling, workerVars>>

Check(w) ==
    /\ At(w, CheckAt)
    /\ \/ ~OwnsTask(w) /\ Leave(w, "lost")
       \/ OwnsTask(w) /\ task[Subject(w)].cancel /\ GoTo(w, CancelAt, "none")
       \/ OwnsTask(w) /\ ~task[Subject(w)].cancel /\ Step(w)
    /\ UNCHANGED <<dbVars, objects, cancelling>>

CancelBuild(w) ==
    LET t == Subject(w) IN
    /\ At(w, {CancelAt})
    /\ \/ /\ OwnsTask(w) /\ task[t].cancel
          /\ task' = [task EXCEPT ![t] = WithStatus(task[t], "CANCELLED")]
          /\ job' = [job EXCEPT ![t] = ClosedJob(job[t], "CANCELLED")]
          /\ Leave(w, "done")
       \/ /\ ~(OwnsTask(w) /\ task[t].cancel)
          /\ Leave(w, "lost")
          /\ UNCHANGED <<job, task>>
    /\ UNCHANGED <<resolved, artifacts, objects, cancelling>>

\* Renews the lease and moves the task to its next stage.
AdvanceBuild(w) ==
    LET t == Subject(w) IN
    /\ At(w, AdvanceAt)
    /\ \/ /\ OwnsTask(w) /\ task[t].status \notin Terminal
          /\ job' = [job EXCEPT ![t] = RenewedJob(job[t], w)]
          /\ task' = [task EXCEPT ![t] = WithStatus(task[t], StageAt(pc[w]))]
          /\ Step(w)
       \/ /\ ~(OwnsTask(w) /\ task[t].status \notin Terminal)
          /\ Leave(w, "lost")
          /\ UNCHANGED <<job, task>>
    /\ UNCHANGED <<resolved, artifacts, objects, cancelling>>

\* Mutant: the rows are replaced and committed before ownership is asked.
PersistResolutionUnfenced(w) ==
    /\ At(w, {PersistResolutionAt})
    /\ resolved' = [resolved EXCEPT ![Subject(w)] =
                      [exec |-> Exec(w), done |-> FALSE]]
    /\ \/ OwnsTask(w) /\ Step(w)
       \/ ~OwnsTask(w) /\ Leave(w, "lost")
    /\ UNCHANGED <<job, task, artifacts, objects, cancelling>>

\* The rows of any earlier execution are replaced.  The job is asked first and
\* the task by _append_log in the same transaction.
PersistResolution(w) ==
    /\ At(w, {PersistResolutionAt})
    /\ \/ /\ OwnsTask(w)
          /\ resolved' = [resolved EXCEPT ![Subject(w)] =
                            [exec |-> Exec(w), done |-> FALSE]]
          /\ Step(w)
       \/ /\ ~OwnsTask(w)
          /\ Leave(w, "lost")
          /\ UNCHANGED resolved
    /\ UNCHANGED <<job, task, artifacts, objects, cancelling>>

\* The rows are updated by package name, whichever execution wrote them.
PersistPackageResults(w) ==
    /\ At(w, {PersistResultsAt})
    /\ \/ /\ Owns(w) /\ resolved[Subject(w)].exec # 0
          /\ resolved' = [resolved EXCEPT ![Subject(w)] =
                            [exec |-> resolved[Subject(w)].exec, done |-> TRUE]]
          /\ Step(w)
       \/ /\ ~(Owns(w) /\ resolved[Subject(w)].exec # 0)
          /\ Leave(w, "lost")
          /\ UNCHANGED resolved
    /\ UNCHANGED <<job, task, artifacts, objects, cancelling>>

\* No useful wheel: fail_terminal before packaging starts.
Reject(w) ==
    LET t == Subject(w) IN
    /\ At(w, {VerdictAt})
    /\ \/ /\ Owns(w)
          /\ job' = [job EXCEPT ![t] = ClosedJob(job[t], "FAILED")]
          /\ task' = [task EXCEPT ![t] =
                        FailedTask(task[t], "STATIC_VALIDATION_FAILED")]
       \/ ~Owns(w) /\ UNCHANGED <<job, task>>
    /\ Drop(w)
    /\ UNCHANGED <<resolved, artifacts, objects, cancelling>>

\* publish_descriptor; the key names the execution.  If the heartbeat has
\* failed meanwhile, the object exists and the pipeline does not know it.
PublishObject(w) ==
    /\ At(w, {PublishAt})
    /\ objects' = objects \cup {<<Subject(w), Exec(w)>>}
    /\ \/ StepPublished(w)
       \/ \E e \in {"lost", "retry"} : Leave(w, e)
    /\ UNCHANGED <<dbVars, cancelling>>

\* Mutant: the cancel flag is not read again under the lock.
CanCommitIgnoringCancel(w) == OwnsTask(w)

CanCommit(w) == OwnsTask(w) /\ ~task[Subject(w)].cancel

\* The artifact row, the terminal task status and the completed job.
CommitRows(w, s) ==
    LET t == Subject(w) IN
    /\ artifacts' = artifacts \cup {<<t, Exec(w)>>}
    /\ task' = [task EXCEPT ![t] = WithStatus(task[t], s)]
    /\ job' = [job EXCEPT ![t] = ClosedJob(job[t], "COMPLETED")]
    /\ UNCHANGED <<resolved, objects, cancelling>>

PublishArtifactTerminal(w) ==
    /\ At(w, {CommitAt})
    /\ \/ /\ CanCommit(w)
          /\ \E s \in Successes : CommitRows(w, s)
          /\ Drop(w)
       \/ /\ ~CanCommit(w)
          /\ Leave(w, "lost")
          /\ UNCHANGED <<dbVars, objects, cancelling>>

\* The commit takes effect but its answer is lost: the driver raises
\* OperationalError.  For every other transaction this is the same as an
\* error raised at the point that follows.
CommitUnacknowledged(w) ==
    /\ CommitAckLost
    /\ At(w, {CommitAt})
    /\ CanCommit(w)
    /\ \E s \in Successes : CommitRows(w, s)
    /\ Leave(w, "retry")
-----------------------------------------------------------------------------
(***************************************************************************)
(* Errors.                                                                 *)
(***************************************************************************)
\* An exception other than LostLeaseError.  Before the subject is claimed and
\* the workspace allocated it escapes to the consumer, or to run's own handler
\* if it is a ValueError (a malformed payload).  Later the handlers of
\* _run_build take it: a parse or archive error, which comes from reading the
\* requirements, from validating or from packaging, is permanent.
Raise(w, e) ==
    /\ At(w, RaiseAt)
    /\ \/ pc[w] \in {ClaimSubjectAt, 1} /\ e \in {"last", "fail"}
       \/ pc[w] # ClaimSubjectAt /\ e \in {"retry", "reject"}
       \/ pc[w] \in {2, 9, 12} /\ e = "fail"
    /\ Leave(w, e)
    /\ UNCHANGED <<dbVars, objects, cancelling>>

\* Mutant: the object key does not name the execution.
CompensateSharedKey(w) ==
    /\ At(w, {CompensateAt})
    /\ objects' = {o \in objects : o[1] # Subject(w)}
    /\ AfterCompensation(w)
    /\ UNCHANGED <<dbVars, cancelling>>

\* delete_if_owned on the orphan, best effort.
Compensate(w) ==
    /\ At(w, {CompensateAt})
    /\ objects' \in {objects, objects \ {<<Subject(w), Exec(w)>>}}
    /\ AfterCompensation(w)
    /\ UNCHANGED <<dbVars, cancelling>>

\* _reset_subject_for_retry, only if the task carries this execution.
ResetTask(row, e) ==
    IF row.exec = e
    THEN [status |-> "QUEUED", exec |-> 0, cancel |-> row.cancel,
          deleted |-> row.deleted, code |-> row.code]
    ELSE row

\* MALFORMED_JOB_PAYLOAD and PERMANENT_BUILD_FAILURE are not told apart.
SettleCode(e) == IF e = "fail" THEN "PERMANENT_FAILURE" ELSE "JOB_FAILED"

Settle(w) ==
    LET t == Subject(w) IN
    /\ SettleJob(w)
    /\ task' = [task EXCEPT ![t] =
                  IF ~Owns(w) THEN @
                  ELSE IF Requeues(w) THEN ResetTask(@, Exec(w))
                  ELSE FailedTask(@, SettleCode(exit[w]))]
    /\ UNCHANGED <<resolved, artifacts, objects, cancelling>>
-----------------------------------------------------------------------------
Claim(w) == \E t \in Tasks : ClaimNext(w, t) \/ TerminalizeExhausted(w, t)

Forward(w) ==
    \/ ClaimSubject(w) \/ Check(w) \/ CancelBuild(w) \/ AdvanceBuild(w)
    \/ PersistResolution(w) \/ PersistPackageResults(w) \/ Reject(w)
    \/ PublishObject(w) \/ PublishArtifactTerminal(w)
    \/ Compensate(w) \/ Settle(w)

Tick == AdvanceClocks /\ UNCHANGED <<task, resolved, artifacts, objects, cancelling>>

Fault(w) ==
    \/ CommitUnacknowledged(w)
    \/ \E e \in Exits : Raise(w, e)
    \/ /\ SettleRaises(w) \/ Crash(w)
       /\ UNCHANGED <<task, resolved, artifacts, objects, cancelling>>

User ==
    \/ \E t \in Tasks : Create(t)
    \/ \E t \in Tasks \cap Cancellable : Cancel(t)
    \/ \E t \in Tasks \cap Deletable : Delete(t)
    \/ \E s, t \in Tasks : Retry(s, t)

Next ==
    \/ User
    \/ \E w \in Workers : Claim(w) \/ Forward(w) \/ Heartbeat(w) \/ Fault(w)
    \/ Tick

Spec == Init /\ [][Next]_vars

(***************************************************************************)
(* Fairness.  Workers loop forever (run_forever) and a process that dies   *)
(* is restarted by systemd; clocks run.  Nothing obliges users or the API  *)
(* to act, or faults to happen or to stop.                                 *)
(***************************************************************************)
Fairness ==
    /\ \A w \in Workers : WF_vars(Claim(w)) /\ WF_vars(Forward(w))
    /\ WF_vars(Tick)

FairSpec == Spec /\ Fairness
-----------------------------------------------------------------------------
(***************************************************************************)
(* Properties.                                                             *)
(***************************************************************************)
\* A worker that passed claim_build_subject and still holds the job's lease
\* holds the task too: the row carries its execution id and has not ended.
\* Every later write relies on it, persist_resolution without looking.
OwnerHoldsTask ==
    \A w \in Workers :
        At(w, 1 .. 16) /\ Owns(w) =>
            /\ task[Subject(w)].exec = Exec(w)
            /\ task[Subject(w)].status \in Stages

\* The job row and the task row end together, whatever crashed, expired or
\* was taken over: no finished task is left in the queue and no failed or
\* completed job leaves its task unfinished.
JobTaskAgree ==
    \A t \in Tasks :
        /\ job[t].status = "ABSENT" <=> task[t].status = "ABSENT"
        /\ job[t].status = "COMPLETED" <=> task[t].status \in Successes
        /\ job[t].status = "FAILED" <=> task[t].status = "FAILED"
        /\ task[t].status = "CANCELLED" => job[t].status = "CANCELLED"

\* A successful task has exactly one artifact row, made by the execution the
\* task carries, and the resolved packages shown with it are complete and
\* were written by that same execution; other tasks have no artifact.
ArtifactMatchesAudit ==
    \A t \in Tasks :
        /\ \A e \in Execs :
              <<t, e>> \in artifacts <=> task[t].status \in Successes /\ task[t].exec = e
        /\ task[t].status \in Successes =>
              resolved[t].exec = task[t].exec /\ resolved[t].done

\* The audit never runs ahead of the queue's attempt counter, and from
\* persist_resolution on whoever holds the lease finds its own rows in it,
\* from persist_package_results on with the results: no displaced worker has
\* replaced them, although they are matched by package name alone.
AuditFollowsOwner ==
    /\ \A t \in Tasks :
          /\ resolved[t].exec <= job[t].attempts
          /\ job[t].status = "ABSENT" => resolved[t].exec = 0
          /\ job[t].status = "RUNNING" => job[t].exec = job[t].attempts
    /\ \A w \in Workers :
          /\ At(w, 5 .. 15) /\ Owns(w) => resolved[Subject(w)].exec = Exec(w)
          /\ At(w, 10 .. 15) /\ Owns(w) => resolved[Subject(w)].done

\* A task whose cancellation was recorded never gets an artifact, even when
\* the request lands between the last check and the commit.
CancelHonoured ==
    \A t \in Tasks : task[t].cancel => \A e \in Execs : <<t, e>> \notin artifacts

\* An ended task never changes again, except that it may be hidden: a late
\* worker, a late cancel call or a retry leaves the old record as it is.
TerminalStable ==
    [][\A t \in Tasks : task[t].status \in Terminal =>
          task'[t] \in {task[t], DeletedTask(task[t])}]_vars

\* The resolution audit is never overwritten by an earlier execution than
\* the one that wrote it last.
AuditMovesForward ==
    [][\A t \in Tasks : resolved'[t].exec >= resolved[t].exec]_vars

\* Every artifact row points to a file in object storage.
ArtifactHasFile == artifacts \subseteq objects

\* The file behind an artifact row is never removed by another execution: the
\* only step that takes it away is the compensation of the very execution
\* that recorded it, after a commit whose answer was lost.
RecordedFileKept ==
    [][\A a \in artifacts \cap objects :
          a \in objects' \/ \E w \in Workers : /\ a = <<Subject(w), Exec(w)>>
                                             /\ pc[w] = CompensateAt
                                             /\ exit[w] = "retry"]_vars

\* Every job that is queued or running ends: attempts are bounded, leases
\* run out, and what is left is failed when the attempts are used up.
JobEnds ==
    \A t \in Tasks : job[t].status \in {"READY", "RUNNING"}
                        ~> job[t].status \in {"COMPLETED", "FAILED", "CANCELLED"}

\* No task is left in a running stage by a job that was cancelled.
NoStrandedTask ==
    \A t \in Tasks : job[t].status = "CANCELLED" => task[t].status = "CANCELLED"

\* A job whose worker died is taken over, not given up, while attempts are
\* left: its task fails at the subject claim only if the user deleted it.
ClaimFailsOnlyDeleted ==
    \A t \in Tasks : task[t].code = "SUBJECT_CLAIM_FAILED" => task[t].deleted

(***************************************************************************)
(* The promise to the user.                                                *)
(***************************************************************************)
OutcomeOf(s) ==
    IF s = "ABSENT" THEN "absent"
    ELSE IF s \in Successes THEN "succeeded"
    ELSE IF s = "FAILED" THEN "failed"
    ELSE IF s = "CANCELLED" THEN "cancelled"
    ELSE "open"

Lifecycle == INSTANCE BuildLifecycle WITH
    outcome   <- [t \in Tasks |-> OutcomeOf(task[t].status)],
    asked     <- {t \in Tasks : task[t].cancel},
    delivered <- {t \in Tasks : \E e \in Execs : <<t, e>> \in artifacts}

\* The queue, its workers and the API together do what BuildLifecycle says:
\* one outcome per task, success with the artifact and without a request to
\* cancel, and nothing after the end.
RefinesLifecycle == Lifecycle!Spec
=============================================================================
