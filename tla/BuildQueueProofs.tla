-------------------------- MODULE BuildQueueProofs ---------------------------
(***************************************************************************)
(* The theorems of BuildQueue, for any number of workers, tasks and        *)
(* attempts and any clock skew.                                            *)
(*                                                                         *)
(* The types are inductive alone, the safety invariants are not: that the  *)
(* rows agree needs that the owner of a lease holds the task, which needs  *)
(* that the rows agree; the artifact needs the audit; cancellation needs   *)
(* the artifact.  Together they are inductive.                             *)
(*                                                                         *)
(* From the invariant follows what a step may never do: an ended task      *)
(* stays as it is, the audit does not fall back, the file of an artifact   *)
(* row is kept, and every step is a step of BuildLifecycle or changes      *)
(* nothing a user sees.                                                    *)
(***************************************************************************)
EXTENDS BuildQueue, JobWorkerProofs

USE WorkersAssumption, AttemptsAssumption, TicksAssumption, SkewAssumption,
    SubjectsAssumption, CommitAssumption

(***************************************************************************)
(* Type correctness.                                                       *)
(***************************************************************************)
\* Every update of a task row yields a task row.
LEMMA TaskRowUpdates ==
    ASSUME NEW row \in TaskRow
    PROVE  /\ \A c \in FailureCodes : FailedTask(row, c) \in TaskRow
           /\ \A b \in BOOLEAN : WithCancel(row, b) \in TaskRow
           /\ \A e \in Execs : ResetTask(row, e) \in TaskRow
           /\ \A e \in Execs : ClaimedTask(row, e) \in TaskRow
           /\ \A s \in TaskStatus : WithStatus(row, s) \in TaskRow
           /\ DeletedTask(row) \in TaskRow
<1>1. \A c \in FailureCodes : FailedTask(row, c) \in TaskRow
  BY DEF FailedTask, TaskRow, TaskStatus, Terminal
<1>2. \A b \in BOOLEAN : WithCancel(row, b) \in TaskRow
  BY DEF WithCancel, TaskRow, TaskStatus, Terminal
<1>3. \A e \in Execs : ResetTask(row, e) \in TaskRow
  BY DEF ResetTask, TaskRow, TaskStatus, Execs
<1>4. \A e \in Execs : ClaimedTask(row, e) \in TaskRow
  BY DEF ClaimedTask, TaskRow, TaskStatus, Stages, FailureCodes
<1>5. \A s \in TaskStatus : WithStatus(row, s) \in TaskRow
  BY DEF WithStatus, TaskRow
<1>6. DeletedTask(row) \in TaskRow
  BY DEF DeletedTask, TaskRow
<1> QED
  BY <1>1, <1>2, <1>3, <1>4, <1>5, <1>6

\* No task exists yet: the first state has the types.
LEMMA InitTypeOK == Init => TypeOK
<1> SUFFICES ASSUME Init PROVE TypeOK
  OBVIOUS
<1>1. \A w \in Workers : NoLease \in LeaseRecord
  BY DEF NoLease, LeaseRecord, Execs
<1>2. \A t \in Tasks : AbsentJob \in JobRow
  BY DEF AbsentJob, JobRow, JobStatus
<1>3. WorkerTypeOK
  BY <1>1, <1>2 DEF Init, WorkerInit, WorkerTypeOK, Points, ClaimSubjectAt, Exits, Tasks
<1>4. AbsentTask \in TaskRow
  BY DEF AbsentTask, TaskRow, TaskStatus, FailureCodes, Execs
<1> QED
  BY <1>3, <1>4 DEF Init, TypeOK, ResolvedRows, Execs

\* One step keeps the types: one case per action of the API, of the queue, of
\* the pipeline and of the environment.
LEMMA NextTypeOK == TypeOK /\ [Next]_vars => TypeOK'
<1> SUFFICES ASSUME TypeOK, [Next]_vars PROVE TypeOK'
  OBVIOUS
<1>w. WorkerTypeOK
  BY DEF TypeOK
<1>j. \A t \in Tasks : job[t] \in JobRow /\ task[t] \in TaskRow
  BY DEF TypeOK, WorkerTypeOK, Tasks
<1>s. ASSUME NEW w \in Workers, ~Idle(w)
      PROVE  Subject(w) \in Tasks /\ Exec(w) \in Execs
  BY <1>w, <1>s DEF WorkerTypeOK, LeaseRecord, Idle, Subject, Exec, Tasks, Subjects
<1> USE DEF Tasks
\* What a step has to establish besides the worker's own variables.
<1> DEFINE Rest == /\ job' \in [Tasks -> JobRow]
                   /\ task' \in [Tasks -> TaskRow]
                   /\ resolved' \in [Tasks -> ResolvedRows]
                   /\ artifacts' \subseteq Tasks \X Execs
                   /\ objects' \subseteq Tasks \X Execs
                   /\ cancelling' \in [Tasks -> {"none", "queued", "running"}]
<1>q. WorkerTyped /\ Rest => TypeOK'
  BY DEF WorkerTyped, TypeOK, WorkerTypeOK
<1> HIDE DEF Tasks
<1>t. /\ task \in [Tasks -> TaskRow]
      /\ resolved \in [Tasks -> ResolvedRows]
      /\ artifacts \subseteq Tasks \X Execs
      /\ objects \subseteq Tasks \X Execs
      /\ cancelling \in [Tasks -> {"none", "queued", "running"}]
      /\ job \in [Tasks -> JobRow]
  BY DEF TypeOK, WorkerTypeOK, Tasks
<1>x. {"none", "done", "lost", "retry"} \subseteq Exits
  BY DEF Exits
<1>1. ASSUME NEW t \in Tasks, Insert(t)
      PROVE  TypeOK'
  <2>1. EnqueuedJob \in JobRow
    BY DEF EnqueuedJob, JobRow, JobStatus
  <2>2. WithStatus(task[t], "QUEUED") \in TaskRow
    BY <1>j, TaskRowUpdates DEF TaskStatus
  <2>3. Rest
    BY <1>1, <1>t, <2>1, <2>2 DEF Insert
  <2> QED BY <1>1, <1>q, <1>w, <2>3 DEF Insert, WorkerTyped, WorkerTypeOK, workerVars
<1>2. ASSUME NEW t \in Tasks, Delete(t)
      PROVE  TypeOK'
  <2>1. DeletedTask(task[t]) \in TaskRow
    BY <1>j, TaskRowUpdates
  <2>2. Rest
    BY <1>2, <1>t, <2>1 DEF Delete
  <2> QED BY <1>2, <1>q, <1>w, <2>2 DEF Delete, WorkerTyped, WorkerTypeOK, workerVars
<1>3. ASSUME NEW t \in Tasks, Cancel(t)
      PROVE  TypeOK'
  <2>1. \A b \in BOOLEAN : CancelLocksTask(t, b) => task' \in [Tasks -> TaskRow]
    BY <1>t, <1>j, TaskRowUpdates DEF CancelLocksTask
  <2>2. \A s \in JobStatus : ClosedJob(job[t], s) \in JobRow
    BY <1>j DEF ClosedJob, JobRow
  <2>3. Rest /\ UNCHANGED workerVars
    BY <1>3, <1>t, <2>1, <2>2
       DEF Cancel, CancelReadStatus, CancelReadyBuildJob, CancelMissesJob,
           CancelRunning, dbVars, JobStatus
  <2> QED BY <1>q, <1>w, <2>3 DEF WorkerTyped, WorkerTypeOK, workerVars
<1>4. ASSUME NEW w \in Workers, NEW t \in Tasks, ClaimNext(w, t)
      PROVE  TypeOK'
  <2>1. ClaimedJob(job[t], w) \in JobRow
    BY <1>4, <1>j, JobRowUpdates DEF ClaimNext, TakeJob
  <2>2. LeaseOf(t, job[t]) \in LeaseRecord
    BY <1>4, <1>j DEF ClaimNext, TakeJob, LeaseOf, LeaseRecord, JobRow, Execs, Tasks, Subjects
  <2>3. Rest
    BY <1>4, <1>t, <2>1 DEF ClaimNext, TakeJob
  <2>4. WorkerTyped
    BY <1>4, <1>w, <2>2 DEF ClaimNext, TakeJob, WorkerTyped, WorkerTypeOK, Points, ClaimSubjectAt
  <2> QED BY <1>q, <2>3, <2>4
<1>5. ASSUME NEW w \in Workers, NEW t \in Tasks, TerminalizeExhausted(w, t)
      PROVE  TypeOK'
  <2>1. ClosedJob(job[t], "FAILED") \in JobRow
    BY <1>j DEF ClosedJob, JobRow, JobStatus
  <2>2. FailedTask(task[t], "JOB_ATTEMPTS_EXHAUSTED") \in TaskRow
    BY <1>j, TaskRowUpdates DEF FailureCodes
  <2>3. Rest
    BY <1>5, <1>t, <2>1, <2>2 DEF TerminalizeExhausted, CloseExhausted
  <2> QED BY <1>5, <1>q, <1>w, <2>3
          DEF TerminalizeExhausted, CloseExhausted, WorkerTyped, WorkerTypeOK, workerVars
<1>6. ASSUME NEW w \in Workers, ClaimSubject(w)
      PROVE  TypeOK'
  <2>1. Subject(w) \in Tasks /\ Exec(w) \in Execs
    BY <1>6, <1>s DEF ClaimSubject, At
  <2>2. /\ ClaimedTask(task[Subject(w)], Exec(w)) \in TaskRow
        /\ FailedTask(task[Subject(w)], "SUBJECT_CLAIM_FAILED") \in TaskRow
        /\ ClosedJob(job[Subject(w)], "FAILED") \in JobRow
    BY <1>j, <2>1, TaskRowUpdates DEF ClosedJob, JobRow, JobStatus, FailureCodes
  <2>3. Rest
    BY <1>6, <1>t, <2>1, <2>2 DEF ClaimSubject
  <2>4. pc[w] < 18 /\ (Drop(w) \/ Step(w))
    BY <1>6 DEF ClaimSubject, At, ClaimSubjectAt
  <2> QED BY <1>q, <1>w, <2>3, <2>4, WorkerMoves
<1>7. ASSUME NEW w \in Workers, Heartbeat(w)
      PROVE  TypeOK'
  <2>1. Subject(w) \in Tasks
    BY <1>7, <1>s DEF Heartbeat, At
  <2>2. RenewedJob(job[Subject(w)], w) \in JobRow
    BY <1>j, <2>1, JobRowUpdates
  <2>3. Rest
    BY <1>7, <1>t, <2>1, <2>2 DEF Heartbeat
  <2> QED BY <1>7, <1>q, <1>w, <2>3, WorkerMoves DEF Heartbeat
<1>8. ASSUME NEW w \in Workers, Check(w)
      PROVE  TypeOK'
  <2>1. Rest
    BY <1>8, <1>t DEF Check, dbVars
  <2>2. pc[w] < 18 /\ (Leave(w, "lost") \/ GoTo(w, CancelAt, "none") \/ Step(w))
    BY <1>8 DEF Check, At, CheckAt
  <2>3. CancelAt \in Points
    BY DEF CancelAt, Points
  <2> QED BY <1>q, <1>w, <1>x, <2>1, <2>2, <2>3, WorkerMoves
<1>9. ASSUME NEW w \in Workers, CancelBuild(w)
      PROVE  TypeOK'
  <2>1. Subject(w) \in Tasks
    BY <1>9, <1>s DEF CancelBuild, At
  <2>2. /\ WithStatus(task[Subject(w)], "CANCELLED") \in TaskRow
        /\ ClosedJob(job[Subject(w)], "CANCELLED") \in JobRow
    <3>1. {"CANCELLED"} \cup Successes \subseteq TaskStatus
      BY DEF TaskStatus, Terminal
    <3>2. {"CANCELLED", "COMPLETED"} \subseteq JobStatus
      BY DEF JobStatus
    <3> QED BY <1>j, <2>1, <3>1, <3>2, TaskRowUpdates, JobRowUpdates
  <2>3. Rest
    BY <1>9, <1>t, <2>1, <2>2 DEF CancelBuild
  <2>4. Leave(w, "lost") \/ Leave(w, "done")
    BY <1>9 DEF CancelBuild
  <2> QED BY <1>q, <1>w, <1>x, <2>3, <2>4, WorkerMoves
<1>10. ASSUME NEW w \in Workers, AdvanceBuild(w)
       PROVE  TypeOK'
  <2>1. Subject(w) \in Tasks
    BY <1>10, <1>s DEF AdvanceBuild, At
  <2>2. StageAt(pc[w]) \in TaskStatus
    BY DEF StageAt, TaskStatus, Stages
  <2>3. /\ WithStatus(task[Subject(w)], StageAt(pc[w])) \in TaskRow
        /\ RenewedJob(job[Subject(w)], w) \in JobRow
    BY <1>j, <2>1, <2>2, TaskRowUpdates, JobRowUpdates
  <2>4. Rest
    BY <1>10, <1>t, <2>1, <2>3 DEF AdvanceBuild
  <2>5. pc[w] < 18 /\ (Leave(w, "lost") \/ Step(w))
    BY <1>10 DEF AdvanceBuild, At, AdvanceAt
  <2> QED BY <1>q, <1>w, <1>x, <2>4, <2>5, WorkerMoves
<1>11. ASSUME NEW w \in Workers, PersistResolution(w) \/ PersistPackageResults(w)
       PROVE  TypeOK'
  <2>1. Subject(w) \in Tasks /\ Exec(w) \in Execs
    BY <1>11, <1>s DEF PersistResolution, PersistPackageResults, At
  <2>2. /\ [exec |-> Exec(w), done |-> FALSE] \in ResolvedRows
        /\ [exec |-> resolved[Subject(w)].exec, done |-> TRUE] \in ResolvedRows
    BY <1>t, <2>1 DEF ResolvedRows
  <2>3. Rest
    BY <1>11, <1>t, <2>1, <2>2 DEF PersistResolution, PersistPackageResults
  <2>4. pc[w] < 18 /\ (Leave(w, "lost") \/ Step(w))
    BY <1>11 DEF PersistResolution, PersistPackageResults, At, PersistResolutionAt,
                 PersistResultsAt
  <2> QED BY <1>q, <1>w, <1>x, <2>3, <2>4, WorkerMoves
<1>12. ASSUME NEW w \in Workers, Reject(w)
       PROVE  TypeOK'
  <2>1. Subject(w) \in Tasks
    BY <1>12, <1>s DEF Reject, At
  <2>2. /\ FailedTask(task[Subject(w)], "STATIC_VALIDATION_FAILED") \in TaskRow
        /\ ClosedJob(job[Subject(w)], "FAILED") \in JobRow
    BY <1>j, <2>1, TaskRowUpdates DEF ClosedJob, JobRow, JobStatus, FailureCodes
  <2>3. Rest
    BY <1>12, <1>t, <2>1, <2>2 DEF Reject
  <2>4. Drop(w)
    BY <1>12 DEF Reject
  <2> QED BY <1>q, <1>w, <2>3, <2>4, WorkerMoves
<1>13. ASSUME NEW w \in Workers, PublishObject(w)
       PROVE  TypeOK'
  <2>1. Subject(w) \in Tasks /\ Exec(w) \in Execs
    BY <1>13, <1>s DEF PublishObject, At
  <2>2. Rest
    BY <1>13, <1>t, <2>1 DEF PublishObject, dbVars
  <2>3. pc[w] < 18 /\ (StepPublished(w) \/ Leave(w, "lost") \/ Leave(w, "retry"))
    BY <1>13 DEF PublishObject, At, PublishAt
  <2> QED BY <1>q, <1>w, <1>x, <2>2, <2>3, WorkerMoves
<1>14. ASSUME NEW w \in Workers, PublishArtifactTerminal(w) \/ CommitUnacknowledged(w)
       PROVE  TypeOK'
  <2>1. Subject(w) \in Tasks /\ Exec(w) \in Execs
    BY <1>14, <1>s DEF PublishArtifactTerminal, CommitUnacknowledged, At
  <2>2. /\ \A s \in Successes : WithStatus(task[Subject(w)], s) \in TaskRow
        /\ ClosedJob(job[Subject(w)], "COMPLETED") \in JobRow
    <3>1. {"CANCELLED"} \cup Successes \subseteq TaskStatus
      BY DEF TaskStatus, Terminal
    <3>2. {"CANCELLED", "COMPLETED"} \subseteq JobStatus
      BY DEF JobStatus
    <3> QED BY <1>j, <2>1, <3>1, <3>2, TaskRowUpdates, JobRowUpdates
  <2>5. ASSUME NEW s \in Successes, CommitRows(w, s)
        PROVE  Rest
    BY <1>t, <2>1, <2>2, <2>5 DEF CommitRows
  <2>6. ASSUME UNCHANGED <<dbVars, objects, cancelling>>
        PROVE  Rest
    BY <1>t, <2>6 DEF dbVars
  <2>3. Rest
    BY <1>14, <2>5, <2>6 DEF PublishArtifactTerminal, CommitUnacknowledged
  <2>4. Drop(w) \/ Leave(w, "lost") \/ Leave(w, "retry")
    BY <1>14 DEF PublishArtifactTerminal, CommitUnacknowledged
  <2> QED BY <1>q, <1>w, <1>x, <2>3, <2>4, WorkerMoves
<1>15. ASSUME NEW w \in Workers, NEW e \in Exits, Raise(w, e)
       PROVE  TypeOK'
  <2>1. Rest
    BY <1>15, <1>t DEF Raise, dbVars
  <2>2. Leave(w, e)
    BY <1>15 DEF Raise
  <2> QED BY <1>q, <1>w, <2>1, <2>2, WorkerMoves
<1>16. ASSUME NEW w \in Workers, Compensate(w)
       PROVE  TypeOK'
  <2>1. Rest
    BY <1>16, <1>t DEF Compensate, dbVars
  <2>2. AfterCompensation(w)
    BY <1>16 DEF Compensate
  <2> QED BY <1>q, <1>w, <2>1, <2>2, WorkerMoves
<1>17. ASSUME NEW w \in Workers, Settle(w)
       PROVE  TypeOK'
  <2>1. Subject(w) \in Tasks /\ Exec(w) \in Execs
    BY <1>17, <1>s DEF Settle, SettleJob, At
  <2>2. /\ ResetTask(task[Subject(w)], Exec(w)) \in TaskRow
        /\ FailedTask(task[Subject(w)], SettleCode(exit[w])) \in TaskRow
    BY <1>j, <2>1, TaskRowUpdates DEF SettleCode, FailureCodes
  <2>3. /\ RequeuedJob(job[Subject(w)], w) \in JobRow
        /\ ClosedJob(job[Subject(w)], "FAILED") \in JobRow
    BY <1>j, <2>1, JobRowUpdates DEF JobStatus
  <2>4. Rest
    BY <1>17, <1>t, <2>1, <2>2, <2>3 DEF Settle, SettleJob
  <2>5. Drop(w)
    BY <1>17 DEF Settle, SettleJob
  <2> QED BY <1>q, <1>w, <2>4, <2>5, WorkerMoves
<1>18. ASSUME NEW w \in Workers, SettleRaises(w) \/ Crash(w),
              UNCHANGED <<task, resolved, artifacts, objects, cancelling>>
       PROVE  TypeOK'
  <2>1. Rest
    BY <1>18, <1>t DEF SettleRaises, Crash
  <2>2. Drop(w) \/ GoTo(w, SettleAt, "last")
    BY <1>18 DEF SettleRaises, Crash
  <2>3. SettleAt \in Points /\ "last" \in Exits
    BY DEF SettleAt, Points, Exits
  <2> QED BY <1>q, <1>w, <2>1, <2>2, <2>3, WorkerMoves
<1>19. ASSUME Tick
       PROVE  TypeOK'
  <2>1. \A t \in Tasks : TickedJob(job[t]) \in JobRow
    BY <1>j DEF TickedJob, Sooner, JobRow
  <2>2. Rest
    BY <1>19, <1>t, <2>1 DEF Tick, AdvanceClocks, Tasks
  <2> QED BY <1>19, <1>q, <1>w, <2>2
          DEF Tick, AdvanceClocks, WorkerTyped, WorkerTypeOK, workerVars
<1>20. CASE UNCHANGED vars
  BY <1>20, <1>q, <1>t, <1>w DEF vars, WorkerTyped, WorkerTypeOK
<1> QED
  BY <1>1, <1>2, <1>3, <1>4, <1>5, <1>6, <1>7, <1>8, <1>9, <1>10, <1>11, <1>12,
     <1>13, <1>14, <1>15, <1>16, <1>17, <1>18, <1>19, <1>20
     DEF Next, User, Create, Retry, Claim, Forward, Fault

\* Every reachable state is well typed: in particular no job row ever counts
\* more attempts than max_attempts, whoever claims, crashes or retries.
THEOREM TypeCorrect == Spec => []TypeOK
<1>1. Init => TypeOK
  BY InitTypeOK
<1>2. TypeOK /\ [Next]_vars => TypeOK'
  BY NextTypeOK
<1> QED BY <1>1, <1>2, PTL DEF Spec
-----------------------------------------------------------------------------
(***************************************************************************)
(* The inductive invariant.                                                *)
(***************************************************************************)
\* The workers' part of the types.
LEMMA TypedWorkers == ASSUME TypeOK PROVE WorkerTypeOK
BY DEF TypeOK

QueueInv ==
    /\ TypeOK
    /\ JobTaskAgree
    /\ OwnerHoldsTask
    /\ AuditFollowsOwner
    /\ ArtifactMatchesAudit
    /\ CancelHonoured

(***************************************************************************)
(* The same, arranged by the row or the worker it is about.                *)
(***************************************************************************)
TaskInv(t) ==
    /\ job[t].status = "ABSENT" <=> task[t].status = "ABSENT"
    /\ job[t].status = "COMPLETED" <=> task[t].status \in Successes
    /\ job[t].status = "FAILED" <=> task[t].status = "FAILED"
    /\ task[t].status = "CANCELLED" => job[t].status = "CANCELLED"
    /\ resolved[t].exec <= job[t].attempts
    /\ job[t].status = "ABSENT" => resolved[t].exec = 0
    /\ job[t].status = "RUNNING" => job[t].exec = job[t].attempts
    /\ \A e \in Execs :
          <<t, e>> \in artifacts <=> task[t].status \in Successes /\ task[t].exec = e
    /\ task[t].status \in Successes =>
          resolved[t].exec = task[t].exec /\ resolved[t].done
    /\ task[t].cancel => \A e \in Execs : <<t, e>> \notin artifacts

WorkerInv(w) ==
    /\ At(w, 1 .. 16) /\ Owns(w) => /\ task[Subject(w)].exec = Exec(w)
                                    /\ task[Subject(w)].status \in Stages
    /\ At(w, 5 .. 15) /\ Owns(w) => resolved[Subject(w)].exec = Exec(w)
    /\ At(w, 10 .. 15) /\ Owns(w) => resolved[Subject(w)].done

\* The two arrangements say the same.
LEMMA Rearranged ==
    QueueInv <=> /\ TypeOK
                 /\ \A t \in Tasks : TaskInv(t)
                 /\ \A w \in Workers : WorkerInv(w)
BY DEF QueueInv, JobTaskAgree, OwnerHoldsTask, AuditFollowsOwner,
       ArtifactMatchesAudit, CancelHonoured, TaskInv, WorkerInv

\* And in the next state.
LEMMA RearrangedNext ==
    ASSUME TypeOK', \A t \in Tasks : TaskInv(t)', \A w \in Workers : WorkerInv(w)'
    PROVE  QueueInv'
BY DEF QueueInv, JobTaskAgree, OwnerHoldsTask, AuditFollowsOwner,
       ArtifactMatchesAudit, CancelHonoured, TaskInv, WorkerInv

\* The empty database satisfies the inductive invariant.
LEMMA InitQueueInv == Init => QueueInv
<1> SUFFICES ASSUME Init PROVE QueueInv
  OBVIOUS
<1>1. TypeOK
  BY InitTypeOK
<1>2. ASSUME NEW t \in Tasks PROVE TaskInv(t)
  BY DEF Init, WorkerInit, TaskInv, AbsentJob, AbsentTask, Successes, Tasks
<1>3. ASSUME NEW w \in Workers PROVE WorkerInv(w)
  <2>1. Idle(w)
    BY DEF Init, WorkerInit, Idle, NoLease
  <2> QED BY <2>1 DEF WorkerInv, At
<1> QED BY <1>1, <1>2, <1>3, Rearranged
-----------------------------------------------------------------------------
(***************************************************************************)
(* Frames: what a step leaves alone keeps its part of the invariant.       *)
(***************************************************************************)
\* A task none of whose rows changes.
LEMMA TaskUntouched ==
    ASSUME NEW t \in Tasks, TaskInv(t),
           job'[t] = job[t], task'[t] = task[t], resolved'[t] = resolved[t],
           \A e \in Execs : <<t, e>> \in artifacts' <=> <<t, e>> \in artifacts
    PROVE  TaskInv(t)'
BY DEF TaskInv

\* A worker that does not move, whose lease is no longer than before, and
\* whose task, if the lease is still held, keeps its execution and its audit.
LEMMA WorkerUntouched ==
    ASSUME NEW v \in Workers, WorkerInv(v),
           lease'[v] = lease[v], pc'[v] = pc[v],
           ~Idle(v) /\ Owns(v)' =>
              /\ Owns(v)
              /\ task'[Subject(v)].exec = task[Subject(v)].exec
              /\ task[Subject(v)].status \in Stages => task'[Subject(v)].status \in Stages
              /\ resolved'[Subject(v)] = resolved[Subject(v)]
    PROVE  WorkerInv(v)'
<1>1. Idle(v)' = Idle(v) /\ Subject(v)' = Subject(v) /\ Exec(v)' = Exec(v)
  BY DEF Idle, Subject, Exec
<1>2. \A S : At(v, S)' = At(v, S)
  BY <1>1 DEF At
<1> QED
  BY <1>1, <1>2 DEF WorkerInv, At

\* A worker that has left the numbered stages of the pipeline.
LEMMA WorkerGone ==
    ASSUME NEW w \in Workers, lease'[w].subject = 0 \/ pc'[w] \in {0, 17, 18}
    PROVE  WorkerInv(w)'
BY DEF WorkerInv, At, Idle

\* The rows of task s are the same after the step.
RowsKept(s) ==
    /\ job'[s] = job[s]
    /\ task'[s] = task[s]
    /\ resolved'[s] = resolved[s]
    /\ \A e \in Execs : <<s, e>> \in artifacts' <=> <<s, e>> \in artifacts

\* A step that changes the rows of one task and takes its lease from
\* everybody whose part of the invariant is not shown otherwise.
LEMMA OneTaskStep ==
    ASSUME QueueInv, TypeOK', NEW t \in Tasks,
           \A s \in Tasks \ {t} : RowsKept(s),
           TaskInv(t)',
           \A v \in Workers :
              \/ WorkerInv(v)'
              \/ Stays(v) /\ ~(job'[t].status = "RUNNING" /\ job'[t].owner = v)
    PROVE  QueueInv'
<1>1. (\A s \in Tasks : TaskInv(s)) /\ (\A v \in Workers : WorkerInv(v))
  BY Rearranged
<1>2. ASSUME NEW s \in Tasks PROVE TaskInv(s)'
  BY <1>1, TaskUntouched DEF RowsKept
<1>3. ASSUME NEW v \in Workers PROVE WorkerInv(v)'
  <2> SUFFICES ASSUME Stays(v), ~(job'[t].status = "RUNNING" /\ job'[t].owner = v)
               PROVE  WorkerInv(v)'
    OBVIOUS
  <2>1. ASSUME ~Idle(v), Owns(v)'
        PROVE  Subject(v) \in Tasks \ {t} /\ Owns(v)
    <3>1. Subject(v)' = Subject(v) /\ Exec(v)' = Exec(v)
      BY DEF Stays, Subject, Exec
    <3>2. Subject(v) \in Tasks
      BY <2>1 DEF QueueInv, TypeOK, WorkerTypeOK, LeaseRecord, Subject, Idle, Tasks, Subjects
    <3>3. Subject(v) # t
      BY <2>1, <3>1 DEF Owns, Owned
    <3>4. job'[Subject(v)] = job[Subject(v)]
      BY <3>2, <3>3 DEF RowsKept
    <3> QED BY <2>1, <3>1, <3>2, <3>3, <3>4 DEF Owns, Owned
  <2> QED BY <1>1, <2>1, WorkerUntouched DEF Stays, RowsKept
<1> QED BY <1>2, <1>3, RearrangedNext

\* A step of one worker that writes no row.
LEMMA QuietStep ==
    ASSUME QueueInv, TypeOK', NEW w \in Workers, UNCHANGED dbVars,
           \A v \in Workers \ {w} : Stays(v),
           WorkerInv(w)'
    PROVE  QueueInv'
<1>1. (\A s \in Tasks : TaskInv(s)) /\ (\A v \in Workers : WorkerInv(v))
  BY Rearranged
<1>2. ASSUME NEW s \in Tasks PROVE TaskInv(s)'
  BY <1>1, TaskUntouched DEF dbVars
<1>3. ASSUME NEW v \in Workers PROVE WorkerInv(v)'
  <2>1. CASE v = w
    BY <2>1
  <2>2. CASE v # w
    <3>1. Stays(v)
      BY <2>2
    <3>2. Subject(v)' = Subject(v) /\ Exec(v)' = Exec(v) /\ Owns(v)' = Owns(v)
      BY <3>1 DEF Stays, Subject, Exec, Owns, dbVars
    <3> QED BY <1>1, <3>1, <3>2, WorkerUntouched DEF Stays, dbVars
  <2> QED BY <2>1, <2>2
<1> QED BY <1>2, <1>3, RearrangedNext

\* What the owner of a lease may rely on: the job is running its execution,
\* the latest one, and the task has not ended and has no artifact.
LEMMA OwnerFacts ==
    ASSUME QueueInv, NEW w \in Workers, ~Idle(w), Owns(w)
    PROVE  LET t == Subject(w) IN
           /\ t \in Tasks /\ Exec(w) \in Execs
           /\ job[t].status = "RUNNING" /\ job[t].owner = w
           /\ job[t].exec = Exec(w) /\ job[t].attempts = Exec(w)
           /\ task[t].status \notin Terminal \cup {"ABSENT"}
           /\ resolved[t].exec <= Exec(w)
           /\ \A e \in Execs : <<t, e>> \notin artifacts
<1>1. Subject(w) \in Tasks /\ Exec(w) \in Execs
  BY DEF QueueInv, TypeOK, WorkerTypeOK, LeaseRecord, Subject, Exec, Idle, Tasks, Subjects
<1>2. TaskInv(Subject(w))
  BY <1>1, Rearranged
<1>3. /\ job[Subject(w)].status = "RUNNING" /\ job[Subject(w)].owner = w
      /\ job[Subject(w)].exec = Exec(w)
  BY DEF Owns, Owned
<1>4. /\ job[Subject(w)].attempts = Exec(w)
      /\ resolved[Subject(w)].exec <= Exec(w)
  BY <1>2, <1>3 DEF TaskInv
<1>5. task[Subject(w)].status \notin Terminal \cup {"ABSENT"}
  BY <1>2, <1>3 DEF TaskInv, Terminal
<1>6. \A e \in Execs : <<Subject(w), e>> \notin artifacts
  BY <1>2, <1>5 DEF TaskInv, Terminal
<1> QED BY <1>1, <1>3, <1>4, <1>5, <1>6
-----------------------------------------------------------------------------
(***************************************************************************)
(* The steps.                                                              *)
(***************************************************************************)
\* A worker changes the rows of one task and keeps, or gives up, its lease.
LEMMA OwnerStep ==
    ASSUME QueueInv, TypeOK', NEW w \in Workers, NEW t \in Tasks,
           \A s \in Tasks \ {t} : RowsKept(s),
           TaskInv(t)', WorkerInv(w)',
           \A v \in Workers \ {w} : Stays(v),
           job'[t].owner \in {w, NoWorker}
    PROVE  QueueInv'
<1>1. \A v \in Workers \ {w} : job'[t].owner # v
  BY DEF WorkersAssumption
<1> QED BY <1>1, OneTaskStep

\* Creating or retrying a task (enqueueBuild) preserves the invariant.
LEMMA InsertStep ==
    ASSUME QueueInv, TypeOK', NEW t \in Tasks, Insert(t)
    PROVE  QueueInv'
<1>1. t \in DOMAIN job /\ t \in DOMAIN task
  BY DEF QueueInv, TypeOK, WorkerTypeOK, Tasks
<1>2. job'[t] = EnqueuedJob /\ task'[t] = WithStatus(task[t], "QUEUED")
  BY <1>1 DEF Insert
<1>3. \A s \in Tasks \ {t} : RowsKept(s)
  BY DEF Insert, RowsKept, QueueInv, TypeOK, WorkerTypeOK, Tasks
<1>4. TaskInv(t)'
  <2>1. TaskInv(t) /\ task[t].status = "ABSENT"
    BY Rearranged DEF Insert, NextId
  <2> QED BY <1>2, <2>1 DEF Insert, TaskInv, EnqueuedJob, WithStatus, Successes
<1>5. \A v \in Workers : Stays(v) /\ job'[t].status # "RUNNING"
  BY <1>2 DEF Insert, Stays, workerVars, EnqueuedJob
<1> QED BY <1>3, <1>4, <1>5, OneTaskStep

\* A step that touches nothing but one task row, whose execution and status
\* stay, and which has no artifact if its cancel flag is set.
LEMMA FlagStep ==
    ASSUME QueueInv, TypeOK', NEW t \in Tasks, NEW row,
           task' = [task EXCEPT ![t] = row],
           row.status = task[t].status, row.exec = task[t].exec,
           row.cancel => task[t].cancel \/ task[t].status \notin Terminal,
           UNCHANGED <<job, resolved, artifacts, workerVars>>
    PROVE  QueueInv'
<1>1. (\A s \in Tasks : TaskInv(s)) /\ (\A v \in Workers : WorkerInv(v))
  BY Rearranged
<1>2. task'[t] = row /\ \A s \in Tasks \ {t} : task'[s] = task[s]
  BY DEF QueueInv, TypeOK
<1>3. ASSUME NEW s \in Tasks PROVE TaskInv(s)'
  <2>1. CASE s # t
    BY <1>1, <1>2, <2>1, TaskUntouched
  <2>2. CASE s = t
    BY <1>1, <1>2, <2>2 DEF TaskInv, Terminal
  <2> QED BY <2>1, <2>2
<1>4. ASSUME NEW v \in Workers PROVE WorkerInv(v)'
  <2>1. Subject(v)' = Subject(v) /\ Exec(v)' = Exec(v) /\ Owns(v)' = Owns(v)
    BY DEF workerVars, Subject, Exec, Owns
  <2>2. \A s \in Tasks : task'[s].exec = task[s].exec /\ task'[s].status = task[s].status
    BY <1>2
  <2>3. ~Idle(v) => Subject(v) \in Tasks
    BY DEF QueueInv, TypeOK, WorkerTypeOK, LeaseRecord, Subject, Idle, Tasks, Subjects
  <2> QED BY <1>1, <2>1, <2>2, <2>3, WorkerUntouched DEF workerVars
<1> QED BY <1>3, <1>4, RearrangedNext

\* Soft-deleting a task preserves the invariant.
LEMMA DeleteStep ==
    ASSUME QueueInv, TypeOK', NEW t \in Tasks, Delete(t)
    PROVE  QueueInv'
<1>1. /\ DeletedTask(task[t]).status = task[t].status
      /\ DeletedTask(task[t]).exec = task[t].exec
      /\ DeletedTask(task[t]).cancel = task[t].cancel
  BY DEF DeletedTask
<1> QED BY <1>1, FlagStep DEF Delete

\* A step that leaves the database and the workers alone preserves the
\* invariant.
LEMMA StutterStep ==
    ASSUME QueueInv, TypeOK', UNCHANGED <<dbVars, workerVars>>
    PROVE  QueueInv'
<1>1. (\A s \in Tasks : TaskInv(s)) /\ (\A v \in Workers : WorkerInv(v))
  BY Rearranged
<1>2. ASSUME NEW s \in Tasks PROVE TaskInv(s)'
  BY <1>1, TaskUntouched DEF dbVars
<1>3. ASSUME NEW v \in Workers PROVE WorkerInv(v)'
  <2>1. Owns(v)' = Owns(v)
    BY DEF Subject, Exec, Owns, dbVars, workerVars
  <2> QED BY <1>1, <2>1, WorkerUntouched DEF dbVars, workerVars
<1> QED BY <1>2, <1>3, RearrangedNext

\* Each step of the API's cancel call preserves the invariant, the one that
\* cancels a job found READY after a stale read included.
LEMMA CancelStep ==
    ASSUME QueueInv, TypeOK', NEW t \in Tasks, Cancel(t)
    PROVE  QueueInv'
<1>0. TaskInv(t) /\ t \in DOMAIN job /\ t \in DOMAIN task
  BY Rearranged DEF QueueInv, TypeOK, WorkerTypeOK, Tasks
<1>1. CASE CancelReadStatus(t) \/ CancelMissesJob(t)
  BY <1>1, StutterStep DEF CancelReadStatus, CancelMissesJob
<1>2. CASE CancelRunning(t)
  <2>1. CASE UNCHANGED task
    BY <1>2, <2>1, StutterStep DEF CancelRunning, dbVars
  <2>2. CASE ~(task[t].deleted \/ task[t].status \in Terminal)
             /\ task' = [task EXCEPT ![t] = WithCancel(task[t], FALSE)]
    <3>1. /\ WithCancel(task[t], FALSE).status = task[t].status
          /\ WithCancel(task[t], FALSE).exec = task[t].exec
      BY DEF WithCancel
    <3> QED BY <1>2, <2>2, <3>1, FlagStep DEF CancelRunning
  <2> QED BY <1>2, <2>1, <2>2 DEF CancelRunning, CancelLocksTask
<1>3. CASE CancelReadyBuildJob(t)
  <2>1. task[t].status \notin Terminal \cup {"ABSENT"} /\ job[t].status = "READY"
    BY <1>0, <1>3 DEF CancelReadyBuildJob, TaskInv, Terminal
  <2>2. CASE task[t].deleted
    <3>1. UNCHANGED <<job, task>>
      <4>1. job' = [job EXCEPT ![t] = job[t]] /\ UNCHANGED task
        BY <1>3, <2>2 DEF CancelReadyBuildJob, CancelLocksTask
      <4>2. job \in [Tasks -> JobRow]
        BY DEF QueueInv, TypeOK, WorkerTypeOK, Tasks
      <4> QED BY <4>1, <4>2
    <3> QED BY <1>3, <3>1, StutterStep DEF CancelReadyBuildJob, dbVars
  <2>3. CASE ~task[t].deleted
    <3>1. /\ job' = [job EXCEPT ![t] = ClosedJob(job[t], "CANCELLED")]
          /\ task' = [task EXCEPT ![t] = WithCancel(task[t], TRUE)]
      BY <1>3, <2>1, <2>3 DEF CancelReadyBuildJob, CancelLocksTask
    <3>2. job'[t] = ClosedJob(job[t], "CANCELLED") /\ task'[t] = WithCancel(task[t], TRUE)
      BY <1>0, <3>1
    <3>3. \A s \in Tasks \ {t} : RowsKept(s)
      BY <1>3, <3>1 DEF CancelReadyBuildJob, RowsKept, QueueInv, TypeOK, WorkerTypeOK, Tasks
    <3>4. TaskInv(t)'
      <4>1. /\ job'[t].status = "CANCELLED" /\ job'[t].attempts = job[t].attempts
            /\ task'[t].status \in {"CANCELLED", task[t].status}
            /\ task'[t].exec = task[t].exec
        BY <3>2 DEF ClosedJob, WithCancel
      <4> QED BY <1>0, <1>3, <2>1, <4>1 DEF CancelReadyBuildJob, TaskInv, Terminal, Successes
    <3>5. \A v \in Workers : Stays(v) /\ job'[t].status # "RUNNING"
      BY <1>3, <3>2 DEF CancelReadyBuildJob, Stays, workerVars, ClosedJob
    <3> QED BY <3>3, <3>4, <3>5, OneTaskStep
  <2> QED BY <2>2, <2>3
<1> QED BY <1>1, <1>2, <1>3 DEF Cancel
-----------------------------------------------------------------------------
\* A row the queue may hand out belongs to a task that exists and is open.
LEMMA CandidateFacts ==
    ASSUME QueueInv, NEW t \in Tasks, NEW w \in Workers, IsCandidate(t, w)
    PROVE  /\ job[t].status \in {"READY", "RUNNING"}
           /\ task[t].status \notin Terminal \cup {"ABSENT"}
<1>1. TaskInv(t)
  BY Rearranged
<1>2. job[t].status \in {"READY", "RUNNING"}
  BY DEF IsCandidate, ReadyFor, ExpiredFor, IsReady, IsExpired
<1> QED BY <1>1, <1>2 DEF TaskInv, Terminal

\* claim_next preserves the invariant: a takeover ends the ownership of the
\* worker it displaces.
LEMMA ClaimNextStep ==
    ASSUME QueueInv, TypeOK', NEW w \in Workers, NEW t \in Tasks, ClaimNext(w, t)
    PROVE  QueueInv'
<1>0. TaskInv(t) /\ job \in [Tasks -> JobRow] /\ resolved \in [Tasks -> ResolvedRows]
  BY Rearranged DEF QueueInv, TypeOK, WorkerTypeOK, Tasks
<1>1. job'[t] = ClaimedJob(job[t], w)
  BY <1>0 DEF ClaimNext, TakeJob
<1>2. \A s \in Tasks \ {t} : RowsKept(s)
  BY <1>0 DEF ClaimNext, TakeJob, RowsKept
<1>3. TaskInv(t)'
  <2>1. /\ job[t].status \in {"READY", "RUNNING"}
        /\ task[t].status \notin Terminal \cup {"ABSENT"}
    BY CandidateFacts DEF ClaimNext, TakeJob
  <2>2. job[t].attempts \in Nat /\ resolved[t].exec \in Nat
    BY <1>0 DEF JobRow, ResolvedRows, Execs
  <2>3. /\ job'[t].status = "RUNNING" /\ job'[t].exec = job'[t].attempts
        /\ job'[t].attempts = job[t].attempts + 1
    BY <1>1 DEF ClaimedJob
  <2>4. task' = task /\ resolved' = resolved /\ artifacts' = artifacts
    BY DEF ClaimNext
  <2> QED BY <1>0, <2>1, <2>2, <2>3, <2>4 DEF TaskInv, Terminal, Successes
<1>4. pc'[w] = 0 /\ \A v \in Workers \ {w} : Stays(v)
  BY DEF ClaimNext, TakeJob, Stays, ClaimSubjectAt, QueueInv, TypeOK, WorkerTypeOK
<1>5. job'[t].owner = w
  BY <1>1 DEF ClaimedJob
<1> QED BY <1>2, <1>3, <1>4, <1>5, OwnerStep, WorkerGone

\* Failing a job whose attempts are used up preserves the invariant: job and
\* task end in the same transaction.
LEMMA TerminalizeExhaustedStep ==
    ASSUME QueueInv, TypeOK', NEW w \in Workers, NEW t \in Tasks,
           TerminalizeExhausted(w, t)
    PROVE  QueueInv'
<1>0. TaskInv(t) /\ job \in [Tasks -> JobRow] /\ task \in [Tasks -> TaskRow]
  BY Rearranged DEF QueueInv, TypeOK, WorkerTypeOK, Tasks
<1>1. /\ job'[t] = ClosedJob(job[t], "FAILED")
      /\ task'[t] = FailedTask(task[t], "JOB_ATTEMPTS_EXHAUSTED")
  BY <1>0 DEF TerminalizeExhausted, CloseExhausted
<1>2. \A s \in Tasks \ {t} : RowsKept(s)
  BY <1>0 DEF TerminalizeExhausted, CloseExhausted, RowsKept
<1>3. TaskInv(t)'
  <2>1. /\ job[t].status \in {"READY", "RUNNING"}
        /\ task[t].status \notin Terminal \cup {"ABSENT"}
    BY CandidateFacts DEF TerminalizeExhausted, CloseExhausted
  <2>2. /\ job'[t].status = "FAILED" /\ job'[t].attempts = job[t].attempts
        /\ task'[t].status = "FAILED" /\ task'[t].exec = task[t].exec
        /\ task'[t].cancel = task[t].cancel
    BY <1>1, <2>1 DEF ClosedJob, FailedTask
  <2> QED BY <1>0, <2>1, <2>2 DEF TerminalizeExhausted, TaskInv, Terminal, Successes
<1>4. \A v \in Workers : Stays(v) /\ job'[t].status # "RUNNING"
  BY <1>1 DEF TerminalizeExhausted, CloseExhausted, Stays, workerVars, ClosedJob
<1> QED BY <1>2, <1>3, <1>4, OneTaskStep

\* Worker w is out of the numbered stages after the step.
Gone(w) == lease'[w].subject = 0 \/ pc'[w] \in {17, 18}

\* The owner closes job and task alike, FAILED or CANCELLED.
LEMMA CloseStep ==
    ASSUME QueueInv, TypeOK', NEW w \in Workers, ~Idle(w), Owns(w),
           NEW s \in {"FAILED", "CANCELLED"}, NEW row,
           row.status = s, row.cancel = task[Subject(w)].cancel,
           job' = [job EXCEPT ![Subject(w)] = ClosedJob(job[Subject(w)], s)],
           task' = [task EXCEPT ![Subject(w)] = row],
           UNCHANGED <<resolved, artifacts>>,
           Gone(w), \A v \in Workers \ {w} : Stays(v)
    PROVE  QueueInv'
<1>t. PICK t \in Tasks : t = Subject(w)
  BY OwnerFacts
<1>0. TaskInv(t) /\ job \in [Tasks -> JobRow] /\ task \in [Tasks -> TaskRow]
  BY Rearranged DEF QueueInv, TypeOK, WorkerTypeOK, Tasks
<1>1. job'[t] = ClosedJob(job[t], s) /\ task'[t] = row
  BY <1>0, <1>t
<1>2. \A r \in Tasks \ {t} : RowsKept(r)
  BY <1>0, <1>t DEF RowsKept
<1>3. TaskInv(t)'
  <2>1. task[t].status \notin Terminal /\ \A e \in Execs : <<t, e>> \notin artifacts
    BY <1>t, OwnerFacts
  <2>2. job'[t].status = s /\ job'[t].attempts = job[t].attempts
    BY <1>1 DEF ClosedJob
  <2> QED BY <1>0, <1>1, <2>1, <2>2 DEF TaskInv, Terminal, Successes
<1>4. job'[t].owner = NoWorker
  BY <1>1 DEF ClosedJob
<1>5. WorkerInv(w)'
  BY WorkerGone DEF Gone
<1> QED BY <1>0, <1>2, <1>3, <1>4, <1>5, OwnerStep

\* FailedTask fails the task of an owner, which is open.
LEMMA FailStep ==
    ASSUME QueueInv, TypeOK', NEW w \in Workers, ~Idle(w), Owns(w), NEW c,
           job' = [job EXCEPT ![Subject(w)] = ClosedJob(job[Subject(w)], "FAILED")],
           task' = [task EXCEPT ![Subject(w)] = FailedTask(task[Subject(w)], c)],
           UNCHANGED <<resolved, artifacts>>, Drop(w)
    PROVE  QueueInv'
<1>1. task[Subject(w)].status \notin Terminal
  BY OwnerFacts
<1>2. /\ FailedTask(task[Subject(w)], c).status = "FAILED"
      /\ FailedTask(task[Subject(w)], c).cancel = task[Subject(w)].cancel
  BY <1>1 DEF FailedTask
<1>3. TypeOK
  BY DEF QueueInv
<1>4. Gone(w) /\ \A v \in Workers \ {w} : Stays(v)
  BY <1>3, TypedWorkers, Moves DEF Gone
<1> QED BY <1>2, <1>4, CloseStep

\* A worker that writes nothing and gives up.
LEMMA QuitStep ==
    ASSUME QueueInv, TypeOK', NEW w \in Workers, UNCHANGED dbVars, NEW e,
           Drop(w) \/ Leave(w, e) \/ AfterCompensation(w)
    PROVE  QueueInv'
<1>1. TypeOK
  BY DEF QueueInv
<1>2. Gone(w) /\ \A v \in Workers \ {w} : Stays(v)
  BY <1>1, TypedWorkers, Moves DEF Gone
<1> QED BY <1>2, QuietStep, WorkerGone DEF Gone

\* A worker that writes nothing and moves from p to q in its pipeline.
LEMMA MoveStep ==
    ASSUME QueueInv, TypeOK', NEW w \in Workers, UNCHANGED dbVars,
           lease' = lease, \A v \in Workers \ {w} : Stays(v),
           pc'[w] \in 1 .. 16 => ~Idle(w) /\ pc[w] \in 1 .. 16,
           pc'[w] \in 5 .. 15 => pc[w] \in 5 .. 15,
           pc'[w] \in 10 .. 15 => pc[w] \in 10 .. 15
    PROVE  QueueInv'
<1>1. WorkerInv(w)
  BY Rearranged
<1>2. Subject(w)' = Subject(w) /\ Exec(w)' = Exec(w) /\ Idle(w)' = Idle(w)
  BY DEF Subject, Exec, Idle
<1>3. Owns(w)' = Owns(w)
  BY <1>2 DEF Owns, dbVars
<1>4. WorkerInv(w)'
  BY <1>1, <1>2, <1>3 DEF WorkerInv, At, dbVars
<1> QED BY <1>4, QuietStep
-----------------------------------------------------------------------------
\* The owner moves on, having left its task open and its execution in it.
LEMMA OpenStep ==
    ASSUME QueueInv, TypeOK', NEW w \in Workers, NEW t \in Tasks, t = Subject(w),
           ~Idle(w), Owns(w), \A s \in Tasks \ {t} : RowsKept(s),
           UNCHANGED artifacts,
           job'[t].status = "RUNNING", job'[t].owner = w,
           job'[t].exec = job[t].exec, job'[t].attempts = job[t].attempts,
           task'[t].exec = Exec(w), task'[t].status \in Stages,
           task'[t].cancel = task[t].cancel,
           resolved'[t].exec <= Exec(w),
           lease' = lease, \A v \in Workers \ {w} : Stays(v),
           pc'[w] \in 5 .. 15 => resolved'[t].exec = Exec(w),
           pc'[w] \in 10 .. 15 => resolved'[t].done
    PROVE  QueueInv'
<1>1. /\ job[t].exec = Exec(w) /\ job[t].attempts = Exec(w)
      /\ \A e \in Execs : <<t, e>> \notin artifacts
  BY OwnerFacts
<1>2. TaskInv(t)'
  <2>1. task'[t].status \notin Terminal \cup {"ABSENT"}
    BY DEF Stages, Terminal, Successes
  <2> QED BY <1>1, <2>1 DEF TaskInv, Terminal
<1>3. Subject(w)' = t /\ Exec(w)' = Exec(w)
  BY DEF Subject, Exec
<1>4. WorkerInv(w)'
  BY <1>3 DEF WorkerInv, At
<1> QED BY <1>2, <1>4, OwnerStep

\* claim_build_subject preserves the invariant on each of its three outcomes.
LEMMA ClaimSubjectStep ==
    ASSUME QueueInv, TypeOK', NEW w \in Workers, ClaimSubject(w)
    PROVE  QueueInv'
<1>0. TypeOK /\ ~Idle(w) /\ pc[w] = 0 /\ UNCHANGED <<resolved, artifacts>>
  BY DEF QueueInv, ClaimSubject, At, ClaimSubjectAt
<1>1. CASE ~Owns(w) /\ Drop(w) /\ UNCHANGED <<job, task>>
  BY <1>0, <1>1, QuitStep DEF dbVars
<1>2. CASE /\ Owns(w) /\ Step(w) /\ UNCHANGED job
           /\ task' = [task EXCEPT ![Subject(w)] =
                         ClaimedTask(task[Subject(w)], Exec(w))]
  <2>1. PICK t \in Tasks : t = Subject(w)
    BY <1>0, <1>2, OwnerFacts
  <2>2. task'[t] = ClaimedTask(task[t], Exec(w)) /\ \A s \in Tasks \ {t} : RowsKept(s)
    BY <1>0, <1>2, <2>1 DEF TypeOK, RowsKept
  <2>3. /\ task'[t].exec = Exec(w) /\ task'[t].status \in Stages
        /\ task'[t].cancel = task[t].cancel
    BY <2>2 DEF ClaimedTask, Stages
  <2>4. lease' = lease /\ pc'[w] = 1 /\ \A v \in Workers \ {w} : Stays(v)
    BY <1>0, <1>2, TypedWorkers, Moves
  <2>5. job[t].status = "RUNNING" /\ job[t].owner = w /\ resolved[t].exec <= Exec(w)
    BY <1>0, <1>2, <2>1, OwnerFacts
  <2> QED BY <1>0, <1>2, <2>1, <2>2, <2>3, <2>4, <2>5, OpenStep
<1>3. CASE /\ Owns(w) /\ Drop(w)
           /\ job' = [job EXCEPT ![Subject(w)] = ClosedJob(job[Subject(w)], "FAILED")]
           /\ task' = [task EXCEPT ![Subject(w)] =
                         FailedTask(task[Subject(w)], "SUBJECT_CLAIM_FAILED")]
  BY <1>0, <1>3, FailStep
<1> QED BY <1>1, <1>2, <1>3 DEF ClaimSubject

\* A lease renewal preserves the invariant.
LEMMA HeartbeatStep ==
    ASSUME QueueInv, TypeOK', NEW w \in Workers, Heartbeat(w)
    PROVE  QueueInv'
<1>0. ~Idle(w) /\ Owns(w) /\ pc[w] \in 1 .. 16
  BY DEF Heartbeat, At, HeartbeatAt
<1>1. PICK t \in Tasks : t = Subject(w)
  BY <1>0, OwnerFacts
<1>2. WorkerInv(w) /\ job \in [Tasks -> JobRow]
  BY Rearranged DEF QueueInv, TypeOK, WorkerTypeOK, Tasks
<1>3. /\ task[t].exec = Exec(w) /\ task[t].status \in Stages
      /\ pc[w] \in 5 .. 15 => resolved[t].exec = Exec(w)
      /\ pc[w] \in 10 .. 15 => resolved[t].done
  BY <1>0, <1>1, <1>2 DEF WorkerInv, At
<1>4. /\ job[t].status = "RUNNING" /\ job[t].owner = w /\ resolved[t].exec <= Exec(w)
      /\ job[t].exec = Exec(w)
  BY <1>0, <1>1, OwnerFacts
<1>5. /\ job'[t] = RenewedJob(job[t], w)
      /\ UNCHANGED <<task, resolved, artifacts, lease, pc>>
  BY <1>1, <1>2 DEF Heartbeat, workerVars
<1>6. \A s \in Tasks \ {t} : RowsKept(s)
  BY <1>1, <1>2 DEF Heartbeat, RowsKept
<1>7. \A v \in Workers \ {w} : Stays(v)
  BY <1>5 DEF Stays
<1>8. /\ job'[t].status = "RUNNING" /\ job'[t].owner = w
      /\ job'[t].exec = job[t].exec /\ job'[t].attempts = job[t].attempts
  BY <1>4, <1>5 DEF RenewedJob
<1> QED BY <1>0, <1>1, <1>3, <1>4, <1>5, <1>6, <1>7, <1>8, OpenStep

\* A cancellation check preserves the invariant.
LEMMA CheckStep ==
    ASSUME QueueInv, TypeOK', NEW w \in Workers, Check(w)
    PROVE  QueueInv'
<1>0. TypeOK /\ UNCHANGED dbVars /\ ~Idle(w) /\ pc[w] \in {1, 2, 5, 7, 10, 12, 14}
  BY DEF QueueInv, Check, At, CheckAt
<1>1. CASE Leave(w, "lost")
  BY <1>0, <1>1, QuitStep
<1>2. CASE GoTo(w, CancelAt, "none")
  <2>1. lease' = lease /\ pc'[w] = 16 /\ \A v \in Workers \ {w} : Stays(v)
    BY <1>0, <1>2, TypedWorkers, Moves DEF CancelAt
  <2> QED BY <1>0, <2>1, MoveStep
<1>3. CASE Step(w)
  <2>1. lease' = lease /\ pc'[w] = pc[w] + 1 /\ \A v \in Workers \ {w} : Stays(v)
    BY <1>0, <1>3, TypedWorkers, Moves
  <2> QED BY <1>0, <2>1, MoveStep
<1> QED BY <1>1, <1>2, <1>3 DEF Check

\* cancel_build preserves the invariant.
LEMMA CancelBuildStep ==
    ASSUME QueueInv, TypeOK', NEW w \in Workers, CancelBuild(w)
    PROVE  QueueInv'
<1>0. TypeOK /\ ~Idle(w) /\ UNCHANGED <<resolved, artifacts>>
  BY DEF QueueInv, CancelBuild, At
<1>1. CASE Leave(w, "lost") /\ UNCHANGED <<job, task>>
  BY <1>0, <1>1, QuitStep DEF dbVars
<1>2. CASE /\ Owns(w) /\ Leave(w, "done")
           /\ task' = [task EXCEPT ![Subject(w)] = WithStatus(task[Subject(w)], "CANCELLED")]
           /\ job' = [job EXCEPT ![Subject(w)] = ClosedJob(job[Subject(w)], "CANCELLED")]
  <2>1. /\ WithStatus(task[Subject(w)], "CANCELLED").status = "CANCELLED"
        /\ WithStatus(task[Subject(w)], "CANCELLED").cancel = task[Subject(w)].cancel
    BY DEF WithStatus
  <2>2. Gone(w) /\ \A v \in Workers \ {w} : Stays(v)
    BY <1>0, <1>2, TypedWorkers, Moves DEF Gone
  <2> QED BY <1>0, <1>2, <2>1, <2>2, CloseStep
<1> QED BY <1>1, <1>2 DEF CancelBuild, OwnsTask

\* advance_build preserves the invariant: an owner's task stays in a stage.
LEMMA AdvanceBuildStep ==
    ASSUME QueueInv, TypeOK', NEW w \in Workers, AdvanceBuild(w)
    PROVE  QueueInv'
<1>0. TypeOK /\ ~Idle(w) /\ pc[w] \in {3, 6, 8, 11} /\ UNCHANGED <<resolved, artifacts>>
  BY DEF QueueInv, AdvanceBuild, At, AdvanceAt
<1>1. CASE Leave(w, "lost") /\ UNCHANGED <<job, task>>
  BY <1>0, <1>1, QuitStep DEF dbVars
<1>2. CASE /\ Owns(w) /\ Step(w)
           /\ job' = [job EXCEPT ![Subject(w)] = RenewedJob(job[Subject(w)], w)]
           /\ task' = [task EXCEPT ![Subject(w)] =
                         WithStatus(task[Subject(w)], StageAt(pc[w]))]
  <2>1. PICK t \in Tasks : t = Subject(w)
    BY <1>0, <1>2, OwnerFacts
  <2>2. WorkerInv(w) /\ job \in [Tasks -> JobRow] /\ task \in [Tasks -> TaskRow]
    BY <1>0, Rearranged DEF TypeOK, WorkerTypeOK, Tasks
  <2>3. /\ task[t].exec = Exec(w)
        /\ pc[w] \in 5 .. 15 => resolved[t].exec = Exec(w)
        /\ pc[w] \in 10 .. 15 => resolved[t].done
    BY <1>0, <1>2, <2>1, <2>2 DEF WorkerInv, At
  <2>4. /\ job[t].status = "RUNNING" /\ job[t].owner = w
        /\ resolved[t].exec <= Exec(w)
    BY <1>0, <1>2, <2>1, OwnerFacts
  <2>5. /\ job'[t] = RenewedJob(job[t], w) /\ task'[t] = WithStatus(task[t], StageAt(pc[w]))
        /\ \A s \in Tasks \ {t} : RowsKept(s)
    BY <1>0, <1>2, <2>1, <2>2 DEF RowsKept
  <2>6. StageAt(pc[w]) \in Stages
    BY DEF StageAt, Stages
  <2>7. /\ job'[t].status = "RUNNING" /\ job'[t].owner = w
        /\ job'[t].exec = job[t].exec /\ job'[t].attempts = job[t].attempts
        /\ task'[t].exec = Exec(w) /\ task'[t].status \in Stages
        /\ task'[t].cancel = task[t].cancel
    BY <2>3, <2>4, <2>5, <2>6 DEF RenewedJob, WithStatus
  <2>8. lease' = lease /\ pc'[w] = pc[w] + 1 /\ \A v \in Workers \ {w} : Stays(v)
    BY <1>0, <1>2, TypedWorkers, Moves
  <2>9. /\ pc'[w] \in 5 .. 15 => resolved'[t].exec = Exec(w)
        /\ pc'[w] \in 10 .. 15 => resolved'[t].done
    BY <1>0, <2>3, <2>8
  <2> QED BY <1>0, <1>2, <2>1, <2>4, <2>5, <2>7, <2>8, <2>9, OpenStep
<1> QED BY <1>1, <1>2 DEF AdvanceBuild, OwnsTask

\* persist_resolution and persist_package_results preserve the invariant:
\* only the owner of the job replaces or completes the audit.
LEMMA PersistStep ==
    ASSUME QueueInv, TypeOK', NEW w \in Workers,
           PersistResolution(w) \/ PersistPackageResults(w)
    PROVE  QueueInv'
<1>0. TypeOK /\ ~Idle(w) /\ UNCHANGED <<job, task, artifacts>>
  BY DEF QueueInv, PersistResolution, PersistPackageResults, At
<1>1. CASE Leave(w, "lost") /\ UNCHANGED resolved
  BY <1>0, <1>1, QuitStep DEF dbVars
<1>2. ASSUME Owns(w), Step(w), NEW d \in BOOLEAN, NEW x, x = Exec(w),
             \/ pc[w] = 4
             \/ pc[w] = 9 /\ d = TRUE,
             resolved' = [resolved EXCEPT ![Subject(w)] = [exec |-> x, done |-> d]]
      PROVE  QueueInv'
  <2>1. PICK t \in Tasks : t = Subject(w)
    BY <1>0, <1>2, OwnerFacts
  <2>2. WorkerInv(w) /\ resolved \in [Tasks -> ResolvedRows]
    BY <1>0, Rearranged DEF TypeOK
  <2>3. task[t].exec = Exec(w) /\ task[t].status \in Stages
    BY <1>0, <1>2, <2>1, <2>2 DEF WorkerInv, At
  <2>4. job[t].status = "RUNNING" /\ job[t].owner = w /\ Exec(w) \in Nat
    BY <1>0, <1>2, <2>1, OwnerFacts DEF Execs
  <2>5. resolved'[t].exec = Exec(w) /\ resolved'[t].done = d
    BY <1>2, <2>1, <2>2
  <2>6. \A s \in Tasks \ {t} : RowsKept(s)
    BY <1>0, <1>2, <2>1, <2>2 DEF RowsKept
  <2>7. lease' = lease /\ pc'[w] = pc[w] + 1 /\ \A v \in Workers \ {w} : Stays(v)
    BY <1>0, <1>2, TypedWorkers, Moves
  <2>8. pc'[w] \in 10 .. 15 => resolved'[t].done
    BY <1>2, <2>5, <2>7
  <2> QED BY <1>0, <1>2, <2>1, <2>3, <2>4, <2>5, <2>6, <2>7, <2>8, OpenStep
<1>3. CASE PersistResolution(w)
  BY <1>1, <1>2, <1>3 DEF PersistResolution, OwnsTask, At, PersistResolutionAt
<1>4. CASE PersistPackageResults(w)
  <2>1. pc[w] = 9
    BY <1>4 DEF PersistPackageResults, At, PersistResultsAt
  <2>2. Owns(w) => resolved[Subject(w)].exec = Exec(w)
    <3>1. WorkerInv(w)
      BY Rearranged
    <3> QED BY <1>0, <2>1, <3>1 DEF WorkerInv, At
  <2> QED BY <1>1, <1>2, <1>4, <2>1, <2>2 DEF PersistPackageResults
<1> QED BY <1>3, <1>4

\* fail_terminal after a useless validation preserves the invariant.
LEMMA RejectStep ==
    ASSUME QueueInv, TypeOK', NEW w \in Workers, Reject(w)
    PROVE  QueueInv'
<1>0. ~Idle(w) /\ Drop(w) /\ UNCHANGED <<resolved, artifacts>>
  BY DEF Reject, At
<1>1. CASE UNCHANGED <<job, task>>
  BY <1>0, <1>1, QuitStep DEF dbVars
<1>2. CASE /\ Owns(w)
           /\ job' = [job EXCEPT ![Subject(w)] = ClosedJob(job[Subject(w)], "FAILED")]
           /\ task' = [task EXCEPT ![Subject(w)] =
                         FailedTask(task[Subject(w)], "STATIC_VALIDATION_FAILED")]
  BY <1>0, <1>2, FailStep
<1> QED BY <1>1, <1>2 DEF Reject

\* Publishing the artifact file preserves the invariant.
LEMMA PublishObjectStep ==
    ASSUME QueueInv, TypeOK', NEW w \in Workers, PublishObject(w)
    PROVE  QueueInv'
<1>0. TypeOK /\ UNCHANGED dbVars /\ ~Idle(w) /\ pc[w] = 13
  BY DEF QueueInv, PublishObject, At, PublishAt
<1>1. CASE StepPublished(w)
  <2>1. lease' = lease /\ pc'[w] = 14 /\ \A v \in Workers \ {w} : Stays(v)
    BY <1>0, <1>1, TypedWorkers, Moves
  <2> QED BY <1>0, <2>1, MoveStep
<1>2. ASSUME NEW e, Leave(w, e) PROVE QueueInv'
  BY <1>0, <1>2, QuitStep
<1> QED BY <1>1, <1>2 DEF PublishObject

\* The final commit, whether or not its answer arrives.
LEMMA CommitStep ==
    ASSUME QueueInv, TypeOK', NEW w \in Workers, At(w, {CommitAt}), CanCommit(w),
           NEW s \in Successes, CommitRows(w, s), NEW e, Drop(w) \/ Leave(w, e)
    PROVE  QueueInv'
<1>0. /\ TypeOK /\ ~Idle(w) /\ Owns(w) /\ pc[w] = 15
      /\ task[Subject(w)].exec = Exec(w) /\ ~task[Subject(w)].cancel
  BY DEF QueueInv, At, CommitAt, CanCommit, OwnsTask
<1>1. PICK t \in Tasks : t = Subject(w)
  BY <1>0, OwnerFacts
<1>2. /\ TaskInv(t) /\ WorkerInv(w)
      /\ job \in [Tasks -> JobRow] /\ task \in [Tasks -> TaskRow]
  BY <1>0, Rearranged DEF TypeOK, WorkerTypeOK, Tasks
<1>3. /\ job'[t] = ClosedJob(job[t], "COMPLETED") /\ task'[t] = WithStatus(task[t], s)
      /\ artifacts' = artifacts \cup {<<t, Exec(w)>>} /\ resolved' = resolved
  BY <1>1, <1>2 DEF CommitRows
<1>4. \A r \in Tasks \ {t} : RowsKept(r)
  BY <1>1, <1>2, <1>3 DEF CommitRows, RowsKept
<1>5. TaskInv(t)'
  <2>1. resolved[t].exec = Exec(w) /\ resolved[t].done
    BY <1>0, <1>1, <1>2 DEF WorkerInv, At
  <2>2. \A x \in Execs : <<t, x>> \notin artifacts
    BY <1>0, <1>1, OwnerFacts
  <2>3. /\ job'[t].status = "COMPLETED" /\ job'[t].attempts = job[t].attempts
        /\ task'[t].status = s /\ task'[t].exec = Exec(w) /\ ~task'[t].cancel
    BY <1>0, <1>1, <1>3 DEF ClosedJob, WithStatus
  <2>4. \A x \in Execs : <<t, x>> \in artifacts' <=> x = Exec(w)
    BY <1>3, <2>2
  <2>5. s \notin {"ABSENT", "FAILED", "CANCELLED"}
    BY DEF Successes
  <2> QED BY <1>2, <1>3, <2>1, <2>3, <2>4, <2>5 DEF TaskInv
<1>6. job'[t].owner = NoWorker
  BY <1>3 DEF ClosedJob
<1>7. WorkerInv(w)' /\ \A v \in Workers \ {w} : Stays(v)
  BY <1>0, TypedWorkers, Moves, WorkerGone
<1> QED BY <1>4, <1>5, <1>6, <1>7, OwnerStep

\* publish_artifact_terminal preserves the invariant, whether or not its
\* answer arrives.
LEMMA PublishTerminalStep ==
    ASSUME QueueInv, TypeOK', NEW w \in Workers,
           PublishArtifactTerminal(w) \/ CommitUnacknowledged(w)
    PROVE  QueueInv'
<1>1. CASE Leave(w, "lost") /\ UNCHANGED dbVars
  BY <1>1, QuitStep
<1> QED BY <1>1, CommitStep DEF PublishArtifactTerminal, CommitUnacknowledged

\* retry_or_fail and fail_terminal preserve the invariant.
LEMMA SettleStep ==
    ASSUME QueueInv, TypeOK', NEW w \in Workers, Settle(w)
    PROVE  QueueInv'
<1>0. /\ TypeOK /\ ~Idle(w) /\ Drop(w) /\ UNCHANGED <<resolved, artifacts>>
      /\ job \in [Tasks -> JobRow] /\ task \in [Tasks -> TaskRow]
  BY DEF QueueInv, TypeOK, WorkerTypeOK, Settle, SettleJob, At, Tasks
<1>t. PICK t \in Tasks : t = Subject(w)
  BY <1>0 DEF TypeOK, WorkerTypeOK, LeaseRecord, Subject, Idle, Tasks, Subjects
<1>1. CASE ~Owns(w)
  <2>1. job' = [job EXCEPT ![t] = job[t]] /\ task' = [task EXCEPT ![t] = task[t]]
    BY <1>t, <1>1 DEF Settle, SettleJob
  <2>2. UNCHANGED <<job, task>>
    BY <1>0, <2>1
  <2> QED BY <1>0, <2>2, QuitStep DEF dbVars
<1>2. CASE Owns(w) /\ ~Requeues(w)
  BY <1>0, <1>2, FailStep DEF Settle, SettleJob
<1>3. CASE Owns(w) /\ Requeues(w)
  <2>1. /\ job' = [job EXCEPT ![t] = RequeuedJob(job[t], w)]
        /\ task' = [task EXCEPT ![t] = ResetTask(task[t], Exec(w))]
    BY <1>t, <1>3 DEF Settle, SettleJob
  <2>2. /\ job'[t] = RequeuedJob(job[t], w) /\ task'[t] = ResetTask(task[t], Exec(w))
        /\ \A s \in Tasks \ {t} : RowsKept(s)
    BY <1>0, <2>1 DEF RowsKept
  <2>3. TaskInv(t)'
    <3>1. /\ TaskInv(t) /\ task[t].status \notin Terminal \cup {"ABSENT"}
          /\ job[t].status = "RUNNING"
      BY <1>0, <1>t, <1>3, OwnerFacts, Rearranged
    <3>2. /\ job'[t].status = "READY" /\ job'[t].attempts = job[t].attempts
          /\ task'[t].status \in {"QUEUED", task[t].status}
          /\ task'[t].cancel = task[t].cancel
      BY <2>2 DEF RequeuedJob, ResetTask
    <3>3. task'[t].status \notin Terminal \cup {"ABSENT"}
      BY <3>1, <3>2 DEF Terminal, Successes
    <3> QED BY <1>0, <3>1, <3>2, <3>3 DEF TaskInv, Terminal
  <2>4. job'[t].owner = NoWorker
    BY <2>2 DEF RequeuedJob
  <2>5. WorkerInv(w)' /\ \A v \in Workers \ {w} : Stays(v)
    BY <1>0, TypedWorkers, Moves, WorkerGone
  <2> QED BY <2>2, <2>3, <2>4, <2>5, OwnerStep
<1> QED BY <1>1, <1>2, <1>3

\* The passing of time preserves the invariant: it can only end ownership.
LEMMA TickStep ==
    ASSUME QueueInv, TypeOK', Tick
    PROVE  QueueInv'
<1>1. /\ (\A s \in Tasks : TaskInv(s)) /\ (\A v \in Workers : WorkerInv(v))
      /\ job \in [Tasks -> JobRow]
  BY Rearranged DEF QueueInv, TypeOK, WorkerTypeOK, Tasks
<1>2. ASSUME NEW s \in Tasks
      PROVE  /\ job'[s].status = job[s].status /\ job'[s].attempts = job[s].attempts
             /\ job'[s].owner = job[s].owner /\ job'[s].exec = job[s].exec
             /\ job'[s].ttl <= job[s].ttl /\ job'[s].ttl \in Nat /\ job[s].ttl \in Nat
  <2>1. job'[s] = TickedJob(job[s])
    BY DEF Tick, AdvanceClocks, Tasks
  <2> QED BY <1>1, <2>1 DEF TickedJob, Sooner, JobRow
<1>3. UNCHANGED <<task, resolved, artifacts, lease, pc>>
  BY DEF Tick, AdvanceClocks, workerVars
<1>4. ASSUME NEW s \in Tasks PROVE TaskInv(s)'
  BY <1>1, <1>2, <1>3 DEF TaskInv
<1>5. ASSUME NEW v \in Workers PROVE WorkerInv(v)'
  <2>1. Subject(v)' = Subject(v) /\ Exec(v)' = Exec(v)
    BY <1>3 DEF Subject, Exec
  <2>2. ASSUME ~Idle(v), Owns(v)' PROVE Owns(v)
    <3>1. Subject(v) \in Tasks
      BY <2>2 DEF QueueInv, TypeOK, WorkerTypeOK, LeaseRecord, Subject, Idle, Tasks, Subjects
    <3>2. Skew[v] \in Nat
      BY DEF SkewAssumption
    <3> QED BY <1>2, <2>1, <2>2, <3>1, <3>2 DEF Owns, Owned
  <2> QED BY <1>1, <1>3, <2>2, WorkerUntouched
<1> QED BY <1>4, <1>5, RearrangedNext

\* Compensation, errors and crashes preserve the invariant.
LEMMA OtherSteps ==
    ASSUME QueueInv, TypeOK', NEW w \in Workers
    PROVE  /\ \A e : Raise(w, e) => QueueInv'
           /\ Compensate(w) => QueueInv'
           /\ /\ SettleRaises(w) \/ Crash(w)
              /\ UNCHANGED <<task, resolved, artifacts, objects, cancelling>>
              => QueueInv'
<1>1. ASSUME NEW e, Raise(w, e) PROVE QueueInv'
  BY <1>1, QuitStep DEF Raise
<1>2. CASE Compensate(w)
  BY <1>2, QuitStep DEF Compensate
<1>3. ASSUME SettleRaises(w) \/ Crash(w), UNCHANGED <<task, resolved, artifacts>>
      PROVE  QueueInv'
  <2>1. CASE Crash(w)
    BY <1>3, <2>1, QuitStep DEF Crash, dbVars
  <2>2. CASE SettleRaises(w)
    <3>1. TypeOK
      BY DEF QueueInv
    <3>2. lease' = lease /\ pc'[w] = 18 /\ \A v \in Workers \ {w} : Stays(v)
      BY <2>2, <3>1, TypedWorkers, Moves DEF SettleRaises, SettleAt
    <3>3. UNCHANGED dbVars
      BY <1>3, <2>2 DEF SettleRaises, dbVars
    <3> QED BY <3>2, <3>3, MoveStep
  <2> QED BY <1>3, <2>1, <2>2
<1> QED BY <1>1, <1>2, <1>3

\* Every step of the API, the workers and the environment keeps the
\* inductive invariant.
LEMMA NextQueueInv == QueueInv /\ [Next]_vars => QueueInv'
<1> SUFFICES ASSUME QueueInv, [Next]_vars PROVE QueueInv'
  OBVIOUS
<1>0. TypeOK'
  BY NextTypeOK DEF QueueInv
<1>1. CASE User
  BY <1>0, <1>1, InsertStep, DeleteStep, CancelStep DEF User, Create, Retry
<1>2. ASSUME NEW w \in Workers, Claim(w) \/ Heartbeat(w) PROVE QueueInv'
  BY <1>0, <1>2, ClaimNextStep, TerminalizeExhaustedStep, HeartbeatStep DEF Claim
<1>3. ASSUME NEW w \in Workers, Forward(w) PROVE QueueInv'
  BY <1>0, <1>3, ClaimSubjectStep, CheckStep, CancelBuildStep, AdvanceBuildStep,
     PersistStep, RejectStep, PublishObjectStep, PublishTerminalStep, OtherSteps,
     SettleStep
     DEF Forward
<1>4. ASSUME NEW w \in Workers, Fault(w) PROVE QueueInv'
  BY <1>0, <1>4, PublishTerminalStep, OtherSteps DEF Fault
<1>5. CASE Tick
  BY <1>0, <1>5, TickStep
<1>6. CASE UNCHANGED vars
  BY <1>0, <1>6, StutterStep DEF vars, dbVars, workerVars
<1> QED BY <1>1, <1>2, <1>3, <1>4, <1>5, <1>6 DEF Next
-----------------------------------------------------------------------------
\* The inductive invariant holds in every reachable state.
THEOREM QueueInvariant == Spec => []QueueInv
<1>1. Init => QueueInv
  BY InitQueueInv
<1>2. QueueInv /\ [Next]_vars => QueueInv'
  BY NextQueueInv
<1> QED BY <1>1, <1>2, PTL DEF Spec

\* The job row and the task row always end together, whatever crashes,
\* expires or is taken over.
THEOREM JobAndTaskAgree == Spec => []JobTaskAgree
<1>1. QueueInv => JobTaskAgree
  BY DEF QueueInv
<1> QED BY <1>1, QueueInvariant, PTL

\* Whoever holds the lease of a claimed task holds the task.
THEOREM OwnersHoldTheirTask == Spec => []OwnerHoldsTask
<1>1. QueueInv => OwnerHoldsTask
  BY DEF QueueInv
<1> QED BY <1>1, QueueInvariant, PTL

\* The lease holder reads its own audit rows and no one else's.
THEOREM AuditIsTheOwners == Spec => []AuditFollowsOwner
<1>1. QueueInv => AuditFollowsOwner
  BY DEF QueueInv
<1> QED BY <1>1, QueueInvariant, PTL

\* Successful tasks, and only they, have an artifact: one, from the execution
\* whose audit is stored.
THEOREM ArtifactAgreesWithAudit == Spec => []ArtifactMatchesAudit
<1>1. QueueInv => ArtifactMatchesAudit
  BY DEF QueueInv
<1> QED BY <1>1, QueueInvariant, PTL

\* A task whose cancellation was recorded never has an artifact.
THEOREM CancellationHonoured == Spec => []CancelHonoured
<1>1. QueueInv => CancelHonoured
  BY DEF QueueInv
<1> QED BY <1>1, QueueInvariant, PTL
-----------------------------------------------------------------------------
(***************************************************************************)
(* Rows.                                                                   *)
(***************************************************************************)
\* The row of an ended task changes in no step, except that it is hidden.
LEMMA EndedTaskStep ==
    ASSUME QueueInv, [Next]_vars, NEW t \in Tasks, task[t].status \in Terminal
    PROVE  task'[t] \in {task[t], DeletedTask(task[t])}
<1>0. task \in [Tasks -> TaskRow] /\ TaskInv(t)
  BY Rearranged DEF QueueInv, TypeOK
\* Nobody owns it, so every write of a worker is for another task.
<1>1. \A w \in Workers : ~Idle(w) /\ Owns(w) => Subject(w) # t
  BY OwnerFacts
<1>2. ASSUME NEW s \in Tasks, Insert(s) PROVE task'[t] = task[t]
  <2>1. s # t
    BY <1>2 DEF Insert, NextId, Terminal, Successes
  <2> QED BY <1>0, <1>2, <2>1 DEF Insert
<1>3. ASSUME NEW s \in Tasks, Delete(s) PROVE task'[t] \in {task[t], DeletedTask(task[t])}
  BY <1>0, <1>3 DEF Delete
<1>4. ASSUME NEW s \in Tasks, Cancel(s) PROVE task'[t] = task[t]
  <2>1. \A b : CancelLocksTask(s, b) => task'[t] = task[t]
    BY <1>0 DEF CancelLocksTask
  <2> QED BY <1>4, <2>1 DEF Cancel, CancelReadStatus, CancelReadyBuildJob,
                           CancelMissesJob, CancelRunning, dbVars
<1>5. ASSUME NEW w \in Workers, NEW s \in Tasks, ClaimNext(w, s) \/ TerminalizeExhausted(w, s)
      PROVE  task'[t] = task[t]
  <2>1. CASE ClaimNext(w, s)
    BY <2>1 DEF ClaimNext
  <2>2. CASE TerminalizeExhausted(w, s)
    <3>1. s # t
      BY <2>2, CandidateFacts DEF TerminalizeExhausted, CloseExhausted
    <3> QED BY <1>0, <2>2, <3>1 DEF TerminalizeExhausted
  <2> QED BY <1>5, <2>1, <2>2
<1>6. ASSUME NEW w \in Workers, Forward(w) PROVE task'[t] = task[t]
  <2>1. CASE ClaimSubject(w)
    BY <1>0, <1>1, <2>1 DEF ClaimSubject, At
  <2>2. CASE Check(w) \/ PublishObject(w) \/ Compensate(w)
    BY <2>2 DEF Check, PublishObject, Compensate, dbVars
  <2>3. CASE CancelBuild(w)
    BY <1>0, <1>1, <2>3 DEF CancelBuild, OwnsTask, At
  <2>4. CASE AdvanceBuild(w)
    BY <1>0, <1>1, <2>4 DEF AdvanceBuild, OwnsTask, At
  <2>5. CASE PersistResolution(w) \/ PersistPackageResults(w)
    BY <2>5 DEF PersistResolution, PersistPackageResults
  <2>6. CASE Reject(w)
    BY <1>0, <1>1, <2>6 DEF Reject, At
  <2>7. CASE PublishArtifactTerminal(w)
    BY <1>0, <1>1, <2>7
       DEF PublishArtifactTerminal, CanCommit, OwnsTask, CommitRows, At, dbVars
  <2>8. CASE Settle(w)
    BY <1>0, <1>1, <2>8 DEF Settle, SettleJob, At
  <2> QED BY <1>6, <2>1, <2>2, <2>3, <2>4, <2>5, <2>6, <2>7, <2>8 DEF Forward
<1>7. ASSUME NEW w \in Workers, Heartbeat(w) \/ Fault(w) PROVE task'[t] = task[t]
  BY <1>0, <1>1, <1>7
     DEF Heartbeat, Fault, Raise, CommitUnacknowledged, CanCommit, OwnsTask, CommitRows,
         At, dbVars
<1> QED BY <1>2, <1>3, <1>4, <1>5, <1>6, <1>7
        DEF Next, User, Create, Retry, Claim, Tick, vars

\* An ended task is never changed by a late worker, a late cancel call or a
\* retry.
THEOREM EndedTasksAreStable == Spec => TerminalStable
<1>1. QueueInv /\ [Next]_vars =>
        [\A t \in Tasks : task[t].status \in Terminal =>
            task'[t] \in {task[t], DeletedTask(task[t])}]_vars
  BY EndedTaskStep
<1> QED BY <1>1, QueueInvariant, PTL DEF Spec, TerminalStable

\* No step puts the audit of an earlier execution in place of a later one.
LEMMA AuditStep ==
    ASSUME QueueInv, [Next]_vars, NEW t \in Tasks
    PROVE  resolved'[t].exec >= resolved[t].exec
<1>0. resolved \in [Tasks -> ResolvedRows] /\ resolved[t].exec \in Nat
  BY DEF QueueInv, TypeOK, ResolvedRows, Execs
<1>1. ASSUME NEW w \in Workers, PersistResolution(w)
      PROVE  resolved'[t].exec >= resolved[t].exec
  <2>1. CASE UNCHANGED resolved
    BY <1>0, <2>1
  <2>2. CASE OwnsTask(w) /\ resolved' = [resolved EXCEPT ![Subject(w)] =
                                       [exec |-> Exec(w), done |-> FALSE]]
    <3>1. resolved[Subject(w)].exec <= Exec(w) /\ Exec(w) \in Nat
      BY <1>1, <2>2, OwnerFacts DEF PersistResolution, OwnsTask, At, Execs
    <3> QED BY <1>0, <2>2, <3>1
  <2> QED BY <1>1, <2>1, <2>2 DEF PersistResolution
<1>2. ASSUME NEW w \in Workers, PersistPackageResults(w)
      PROVE  resolved'[t].exec >= resolved[t].exec
  <2>1. resolved'[t].exec = resolved[t].exec
    BY <1>0, <1>2 DEF PersistPackageResults
  <2> QED BY <1>0, <2>1
<1>3. ASSUME UNCHANGED resolved PROVE resolved'[t].exec >= resolved[t].exec
  BY <1>0, <1>3
<1>4. \/ UNCHANGED resolved
      \/ \E w \in Workers : PersistResolution(w) \/ PersistPackageResults(w)
  BY DEF Next, User, Create, Retry, Insert, Delete, Cancel, CancelReadStatus,
         CancelReadyBuildJob, CancelMissesJob, CancelRunning, Claim, ClaimNext,
         TerminalizeExhausted, Forward, ClaimSubject, Check, CancelBuild, AdvanceBuild,
         Reject, PublishObject, PublishArtifactTerminal, CommitRows, Compensate, Settle,
         Heartbeat, Fault, CommitUnacknowledged, Raise, Tick, dbVars, vars
<1> QED BY <1>1, <1>2, <1>3, <1>4

\* The resolution audit moves forward only.
THEOREM AuditNeverFallsBack == Spec => AuditMovesForward
<1>1. QueueInv /\ [Next]_vars =>
        [\A t \in Tasks : resolved'[t].exec >= resolved[t].exec]_vars
  BY AuditStep
<1> QED BY <1>1, QueueInvariant, PTL DEF Spec, AuditMovesForward
-----------------------------------------------------------------------------
(***************************************************************************)
(* The file behind an artifact row.  A compensation deletes by task and    *)
(* execution, so it must be shown that no two workers ever carry the same  *)
(* execution of a task, and that an execution which has not tried its      *)
(* commit has no artifact row.                                             *)
(***************************************************************************)
\* The worker has not come to the end of its commit, or was told that it
\* failed: what it published is nobody's artifact.
Unrecorded(w) ==
    /\ ~Idle(w)
    /\ \/ pc[w] \in 0 .. 16
       \/ pc[w] = CompensateAt /\ exit[w] # "retry"

LeaseInv(w) ==
    ~Idle(w) => /\ job[Subject(w)].status # "ABSENT"
                /\ Exec(w) <= job[Subject(w)].attempts

ExecutionsDiffer(v, w) ==
    v # w /\ ~Idle(v) /\ ~Idle(w) /\ Subject(v) = Subject(w) => Exec(v) # Exec(w)

ExecutionInv ==
    \A w \in Workers :
        /\ LeaseInv(w)
        /\ \A v \in Workers : ExecutionsDiffer(v, w)
        /\ Unrecorded(w) => <<Subject(w), Exec(w)>> \notin artifacts

\* The worker keeps the lease it has, or gives it up, and does not get back
\* into the pipeline.
KeepsLease(v) ==
    \/ lease'[v].subject = 0
    \/ lease'[v] = lease[v] /\ (Unrecorded(v)' => Unrecorded(v))

\* No row goes away and no attempt is taken back.
CountsOn(t) ==
    job[t].status # "ABSENT" => /\ job'[t].status # "ABSENT"
                                /\ job'[t].attempts >= job[t].attempts

\* A step that hands out no lease and records no artifact preserves the
\* invariant.
LEMMA OrdinaryStep ==
    ASSUME TypeOK, TypeOK', ExecutionInv, UNCHANGED artifacts,
           \A v \in Workers : KeepsLease(v), \A t \in Tasks : CountsOn(t)
    PROVE  ExecutionInv'
<1>1. ASSUME NEW w \in Workers, ~Idle(w)'
      PROVE  /\ ~Idle(w) /\ Subject(w)' = Subject(w) /\ Exec(w)' = Exec(w)
             /\ Subject(w) \in Tasks
  BY <1>1 DEF KeepsLease, Idle, Subject, Exec, TypeOK, WorkerTypeOK, LeaseRecord, Tasks, Subjects
<1>2. ASSUME NEW w \in Workers PROVE LeaseInv(w)'
  <2> SUFFICES ASSUME ~Idle(w)'
               PROVE  /\ job'[Subject(w)].status # "ABSENT"
                      /\ Exec(w) <= job'[Subject(w)].attempts
    BY <1>1 DEF LeaseInv
  <2>1. LeaseInv(w) /\ CountsOn(Subject(w)) /\ ~Idle(w)
    BY <1>1 DEF ExecutionInv
  <2>2. /\ Exec(w) \in Nat /\ job[Subject(w)].attempts \in Nat
        /\ job'[Subject(w)].attempts \in Nat
    BY <1>1 DEF TypeOK, WorkerTypeOK, LeaseRecord, JobRow, Exec, Execs, Tasks
  <2> QED BY <2>1, <2>2 DEF LeaseInv, CountsOn
<1>3. ASSUME NEW w \in Workers, NEW v \in Workers PROVE ExecutionsDiffer(v, w)'
  BY <1>1 DEF ExecutionInv, ExecutionsDiffer
<1>4. ASSUME NEW w \in Workers, Unrecorded(w)'
      PROVE  <<Subject(w)', Exec(w)'>> \notin artifacts'
  BY <1>1, <1>4 DEF ExecutionInv, Unrecorded, KeepsLease, Idle
<1> QED BY <1>2, <1>3, <1>4 DEF ExecutionInv

\* Every move of a pipeline keeps the lease or gives it up.
LEMMA MovesKeepLease ==
    ASSUME TypeOK, NEW w \in Workers, ~Idle(w)
    PROVE  /\ Drop(w) \/ AfterCompensation(w) => \A v \in Workers : KeepsLease(v)
           /\ \A e : GoTo(w, SettleAt, e) => \A v \in Workers : KeepsLease(v)
           /\ pc[w] \in 0 .. 16 =>
                \A p, e : Leave(w, e) \/ GoTo(w, p, e) \/ Step(w) \/ StepPublished(w)
                          => \A v \in Workers : KeepsLease(v)
<1> USE DEF CompensateAt, SettleAt
<1>1. /\ w \in DOMAIN lease /\ w \in DOMAIN pc /\ w \in DOMAIN exit
      /\ pc[w] \in 0 .. 18
  BY DEF TypeOK, WorkerTypeOK, Points
<1>2. ASSUME NEW v \in Workers, lease'[v] = lease[v], pc'[v] = pc[v], exit'[v] = exit[v]
      PROVE  KeepsLease(v)
  BY <1>2 DEF KeepsLease, Unrecorded, Idle
<1>3. ASSUME lease'[w] = lease[w], pc'[w] = 18 \/ pc[w] \in 0 .. 16 PROVE KeepsLease(w)
  BY <1>3 DEF KeepsLease, Unrecorded, Idle
<1>4. Drop(w) => \A v \in Workers : KeepsLease(v)
  <2>1. Drop(w) => KeepsLease(w)
    BY <1>1 DEF Drop, NoLease, KeepsLease
  <2> QED BY <1>2, <2>1 DEF Drop, TypeOK, WorkerTypeOK
<1>5. AfterCompensation(w) => \A v \in Workers : KeepsLease(v)
  <2> SUFFICES ASSUME pc' = [pc EXCEPT ![w] = SettleAt], UNCHANGED <<lease, exit>>
               PROVE  \A v \in Workers : KeepsLease(v)
    BY <1>4 DEF AfterCompensation
  <2>1. pc'[w] = 18 /\ \A v \in Workers \ {w} : pc'[v] = pc[v]
    BY <1>1 DEF TypeOK, WorkerTypeOK
  <2> QED BY <1>2, <1>3, <2>1
<1>6. ASSUME NEW p, NEW e, GoTo(w, p, e), p = 18 \/ pc[w] \in 0 .. 16
      PROVE  \A v \in Workers : KeepsLease(v)
  <2>1. /\ pc'[w] = p /\ lease' = lease
        /\ \A v \in Workers \ {w} : pc'[v] = pc[v] /\ exit'[v] = exit[v]
    BY <1>1, <1>6 DEF GoTo, TypeOK, WorkerTypeOK
  <2> QED BY <1>2, <1>3, <1>6, <2>1
<1>7. ASSUME StepPublished(w), pc[w] \in 0 .. 16 PROVE \A v \in Workers : KeepsLease(v)
  <2>1. UNCHANGED <<lease, exit>> /\ \A v \in Workers \ {w} : pc'[v] = pc[v]
    BY <1>7 DEF StepPublished, TypeOK, WorkerTypeOK
  <2> QED BY <1>2, <1>3, <1>7, <2>1
<1> QED BY <1>4, <1>5, <1>6, <1>7 DEF Leave, Step

\* No step drops a job row or takes back an attempt.
LEMMA RowsCountOn ==
    ASSUME TypeOK, Next, NEW t \in Tasks, JobTaskAgree
    PROVE  CountsOn(t)
<1>1. job \in [Tasks -> JobRow] /\ job[t].attempts \in Nat
  BY DEF TypeOK, WorkerTypeOK, JobRow, Tasks
<1>2. ASSUME NEW s \in Tasks, NEW row, job' = [job EXCEPT ![s] = row],
             row.status # "ABSENT", row.attempts \in {job[s].attempts, job[s].attempts + 1}
      PROVE  CountsOn(t)
  <2>1. CASE s = t
    BY <1>1, <1>2, <2>1 DEF CountsOn
  <2>2. CASE s # t
    BY <1>1, <1>2, <2>2 DEF CountsOn
  <2> QED BY <2>1, <2>2
<1>3. UNCHANGED job => CountsOn(t)
  BY <1>1 DEF CountsOn
<1>c. ASSUME NEW s \in Tasks, NEW st \in {"COMPLETED", "FAILED", "CANCELLED"},
             job' = [job EXCEPT ![s] = ClosedJob(job[s], st)]
      PROVE  CountsOn(t)
  <2>1. ClosedJob(job[s], st).status = st /\ ClosedJob(job[s], st).attempts = job[s].attempts
    BY DEF ClosedJob
  <2> QED BY <1>2, <1>c, <2>1
<1>r. ASSUME NEW s \in Tasks, NEW w \in Workers, job[s].status = "RUNNING",
             job' = [job EXCEPT ![s] = RenewedJob(job[s], w)]
      PROVE  CountsOn(t)
  <2>1. /\ RenewedJob(job[s], w).status = "RUNNING"
        /\ RenewedJob(job[s], w).attempts = job[s].attempts
    BY <1>r DEF RenewedJob
  <2> QED BY <1>2, <1>r, <2>1
<1>m. ASSUME NEW s \in Tasks, NEW w \in Workers,
             job' = [job EXCEPT ![s] = ClaimedJob(job[s], w)]
      PROVE  CountsOn(t)
  <2>1. /\ ClaimedJob(job[s], w).status = "RUNNING"
        /\ ClaimedJob(job[s], w).attempts = job[s].attempts + 1
    BY DEF ClaimedJob
  <2> QED BY <1>2, <1>m, <2>1
<1>4. ASSUME NEW w \in Workers, ~Idle(w) PROVE Subject(w) \in Tasks
  BY <1>4 DEF TypeOK, WorkerTypeOK, LeaseRecord, Subject, Idle, Tasks, Subjects
<1>5. ASSUME NEW s \in Tasks, Insert(s) PROVE CountsOn(t)
  <2>1. job[s].status = "ABSENT"
    BY <1>5 DEF Insert, NextId, JobTaskAgree
  <2> QED BY <1>1, <1>5, <2>1 DEF Insert, CountsOn, EnqueuedJob
<1>6. ASSUME NEW s \in Tasks, Cancel(s) PROVE CountsOn(t)
  BY <1>1, <1>2, <1>3, <1>6
     DEF Cancel, CancelReadStatus, CancelReadyBuildJob, CancelMissesJob, CancelRunning,
         dbVars, ClosedJob
<1>7. ASSUME NEW w \in Workers, NEW s \in Tasks, ClaimNext(w, s) \/ TerminalizeExhausted(w, s)
      PROVE  CountsOn(t)
  BY <1>c, <1>m, <1>7 DEF ClaimNext, TakeJob, TerminalizeExhausted, CloseExhausted
<1>8. ASSUME NEW w \in Workers, Forward(w) PROVE CountsOn(t)
  <2>1. CASE Settle(w)
    <3> DEFINE row == job'[Subject(w)]
    <3>1. Subject(w) \in Tasks
      BY <1>4, <2>1 DEF Settle, SettleJob, At
    <3>2. CASE Owns(w)
      <4>1. /\ row.status # "ABSENT"
            /\ row.attempts = job[Subject(w)].attempts
            /\ job' = [job EXCEPT ![Subject(w)] = row]
        BY <1>1, <2>1, <3>1, <3>2 DEF Settle, SettleJob, RequeuedJob, ClosedJob
      <4> QED BY <1>2, <3>1, <4>1
    <3>3. CASE ~Owns(w)
      BY <1>1, <1>3, <2>1, <3>1, <3>3 DEF Settle, SettleJob
    <3> QED BY <3>2, <3>3
  <2>2. CASE ClaimSubject(w) \/ CancelBuild(w) \/ Reject(w) \/ PublishArtifactTerminal(w)
    BY <1>c, <1>3, <1>4, <2>2
       DEF ClaimSubject, CancelBuild, Reject, PublishArtifactTerminal, CommitRows, At, dbVars
  <2>3. CASE AdvanceBuild(w)
    <3>1. CASE UNCHANGED job
      BY <1>3, <3>1
    <3>2. CASE OwnsTask(w) /\ job' = [job EXCEPT ![Subject(w)] = RenewedJob(job[Subject(w)], w)]
      BY <1>r, <1>4, <2>3, <3>2 DEF AdvanceBuild, At, OwnsTask, Owns, Owned
    <3> QED BY <2>3, <3>1, <3>2 DEF AdvanceBuild
  <2>4. CASE UNCHANGED job
    BY <1>3, <2>4
  <2> QED BY <1>8, <2>1, <2>2, <2>3, <2>4
          DEF Forward, Check, PersistResolution, PersistPackageResults, PublishObject,
              Compensate, dbVars
<1>9. ASSUME NEW w \in Workers, Heartbeat(w) PROVE CountsOn(t)
  BY <1>r, <1>4, <1>9 DEF Heartbeat, At, Owns, Owned
<1>10. ASSUME NEW w \in Workers, Fault(w) PROVE CountsOn(t)
  BY <1>c, <1>3, <1>4, <1>10
     DEF Fault, CommitUnacknowledged, CommitRows, Raise, SettleRaises, Crash, At, dbVars
<1>11. CASE Tick
  BY <1>1, <1>11 DEF Tick, AdvanceClocks, TickedJob, CountsOn, Tasks
<1>12. ASSUME NEW s \in Tasks, Delete(s) PROVE CountsOn(t)
  BY <1>3, <1>12 DEF Delete
<1> QED BY <1>5, <1>6, <1>7, <1>8, <1>9, <1>10, <1>11, <1>12
        DEF Next, User, Create, Retry, Claim

\* Handing out a lease preserves the invariant: the execution is one more
\* than any before, and a job that is queued or running has no artifact.
LEMMA NewLeaseStep ==
    ASSUME QueueInv, TypeOK', ExecutionInv, Next, NEW w \in Workers, NEW t \in Tasks,
           ClaimNext(w, t)
    PROVE  ExecutionInv'
<1>0. TypeOK /\ JobTaskAgree /\ ArtifactMatchesAudit
  BY DEF QueueInv
<1>1. /\ Subject(w)' = t /\ Exec(w)' = job[t].attempts + 1
      /\ job'[t].attempts = job[t].attempts + 1 /\ job'[t].status = "RUNNING"
      /\ job[t].attempts + 1 \in Execs /\ job[t].attempts \in Nat
  BY <1>0 DEF ClaimNext, TakeJob, LeaseOf, ClaimedJob, Subject, Exec, TypeOK, WorkerTypeOK,
              JobRow, Execs, Tasks
<1>2. ASSUME NEW v \in Workers \ {w}
      PROVE  /\ Subject(v)' = Subject(v) /\ Exec(v)' = Exec(v) /\ Idle(v)' = Idle(v)
             /\ Unrecorded(v)' = Unrecorded(v)
  BY <1>0 DEF ClaimNext, TakeJob, Subject, Exec, Idle, Unrecorded, TypeOK, WorkerTypeOK
<1>3. ASSUME NEW v \in Workers \ {w}, ~Idle(v), Subject(v) = t PROVE Exec(v) # job[t].attempts + 1
  <2>1. Exec(v) <= job[t].attempts
    BY <1>3 DEF ExecutionInv, LeaseInv
  <2>2. Exec(v) \in Nat
    BY <1>0 DEF TypeOK, WorkerTypeOK, LeaseRecord, Exec, Execs
  <2> QED BY <1>1, <2>1, <2>2
<1>4. <<t, job[t].attempts + 1>> \notin artifacts
  BY <1>0, <1>1, CandidateFacts DEF JobTaskAgree, ArtifactMatchesAudit, ClaimNext, TakeJob
<1>5. ASSUME NEW v \in Workers PROVE LeaseInv(v)'
  <2>1. CASE v = w
    BY <1>1, <2>1 DEF LeaseInv
  <2>2. CASE v # w
    <3>1. ASSUME ~Idle(v)
          PROVE  /\ Subject(v) \in Tasks /\ Exec(v) \in Nat
                 /\ job[Subject(v)].attempts \in Nat /\ job'[Subject(v)].attempts \in Nat
      <4>1. Subject(v) \in Tasks /\ Exec(v) \in Nat
        BY <1>0, <3>1 DEF TypeOK, WorkerTypeOK, LeaseRecord, Subject, Exec, Idle, Execs, Tasks,
                          Subjects
      <4> QED BY <1>0, <4>1 DEF TypeOK, WorkerTypeOK, JobRow, Tasks
    <3>2. ~Idle(v) => CountsOn(Subject(v)) /\ LeaseInv(v)
      BY <1>0, <3>1, RowsCountOn DEF ExecutionInv
    <3> QED BY <1>2, <2>2, <3>1, <3>2 DEF LeaseInv, CountsOn
  <2> QED BY <2>1, <2>2
<1>6. ASSUME NEW u \in Workers, NEW v \in Workers PROVE ExecutionsDiffer(v, u)'
  BY <1>1, <1>2, <1>3 DEF ExecutionInv, ExecutionsDiffer
<1>7. ASSUME NEW v \in Workers, Unrecorded(v)'
      PROVE  <<Subject(v)', Exec(v)'>> \notin artifacts'
  BY <1>1, <1>2, <1>4, <1>7 DEF ExecutionInv, ClaimNext
<1> QED BY <1>5, <1>6, <1>7 DEF ExecutionInv

\* The worker's commit takes effect, acknowledged or not.
Records(w) ==
    /\ At(w, {CommitAt})
    /\ artifacts' = artifacts \cup {<<Subject(w), Exec(w)>>}
    /\ Drop(w) \/ Leave(w, "retry")

\* Recording the artifact preserves the invariant: the worker has tried its
\* commit, and nobody else carries its execution.
LEMMA RecordingStep ==
    ASSUME QueueInv, TypeOK', ExecutionInv, Next, NEW w \in Workers, Records(w)
    PROVE  ExecutionInv'
<1>0. /\ TypeOK /\ JobTaskAgree /\ ~Idle(w) /\ pc[w] \in 0 .. 16
      /\ artifacts' = artifacts \cup {<<Subject(w), Exec(w)>>}
      /\ Drop(w) \/ Leave(w, "retry")
  BY DEF QueueInv, Records, At, CommitAt
<1>1. \A v \in Workers : KeepsLease(v)
  BY <1>0, MovesKeepLease
<1>2. \A t \in Tasks : CountsOn(t)
  BY <1>0, RowsCountOn
<1>3. ASSUME NEW v \in Workers, ~Idle(v)'
      PROVE  /\ ~Idle(v) /\ Subject(v)' = Subject(v) /\ Exec(v)' = Exec(v)
             /\ Subject(v) \in Tasks
  BY <1>0, <1>1, <1>3 DEF KeepsLease, Idle, Subject, Exec, TypeOK, WorkerTypeOK, LeaseRecord,
                          Tasks, Subjects
<1>4. ~Unrecorded(w)'
  <2>1. CASE Drop(w)
    BY <1>0, <2>1 DEF Drop, NoLease, Unrecorded, Idle, TypeOK, WorkerTypeOK
  <2>2. ASSUME NEW p \in {17, 18}, GoTo(w, p, "retry") PROVE ~Unrecorded(w)'
    BY <1>0, <2>2 DEF GoTo, Unrecorded, TypeOK, WorkerTypeOK
  <2> QED BY <1>0, <2>1, <2>2 DEF Leave, CompensateAt, SettleAt
<1>5. ASSUME NEW v \in Workers PROVE LeaseInv(v)'
  <2> SUFFICES ASSUME ~Idle(v)'
               PROVE  /\ job'[Subject(v)].status # "ABSENT"
                      /\ Exec(v) <= job'[Subject(v)].attempts
    BY <1>3 DEF LeaseInv
  <2>1. LeaseInv(v) /\ CountsOn(Subject(v)) /\ ~Idle(v)
    BY <1>2, <1>3 DEF ExecutionInv
  <2>2. /\ Exec(v) \in Nat /\ job[Subject(v)].attempts \in Nat
        /\ job'[Subject(v)].attempts \in Nat
    BY <1>0, <1>3 DEF TypeOK, WorkerTypeOK, LeaseRecord, JobRow, Exec, Execs, Tasks
  <2> QED BY <2>1, <2>2 DEF LeaseInv, CountsOn
<1>6. ASSUME NEW u \in Workers, NEW v \in Workers PROVE ExecutionsDiffer(v, u)'
  BY <1>3 DEF ExecutionInv, ExecutionsDiffer
<1>7. ASSUME NEW v \in Workers, Unrecorded(v)'
      PROVE  <<Subject(v)', Exec(v)'>> \notin artifacts'
  <2>1. v # w /\ ~Idle(v) /\ Subject(v)' = Subject(v) /\ Exec(v)' = Exec(v)
    BY <1>3, <1>4, <1>7 DEF Unrecorded
  <2>2. <<Subject(v), Exec(v)>> \notin artifacts
    BY <1>1, <1>7, <2>1 DEF ExecutionInv, KeepsLease, Unrecorded, Idle
  <2>3. <<Subject(v), Exec(v)>> # <<Subject(w), Exec(w)>>
    BY <1>0, <2>1 DEF ExecutionInv, ExecutionsDiffer
  <2> QED BY <1>0, <2>1, <2>2, <2>3
<1> QED BY <1>5, <1>6, <1>7 DEF ExecutionInv

\* Every other step keeps the leases and the artifacts.
LEMMA OtherStepsKeepLeases ==
    ASSUME TypeOK, Next, \A w \in Workers : \A t \in Tasks : ~ClaimNext(w, t),
           \A w \in Workers : ~Records(w)
    PROVE  UNCHANGED artifacts /\ \A v \in Workers : KeepsLease(v)
<1> DEFINE Goal == UNCHANGED artifacts /\ \A v \in Workers : KeepsLease(v)
<1> SUFFICES Goal
  OBVIOUS
<1>1. UNCHANGED workerVars => \A v \in Workers : KeepsLease(v)
  BY DEF workerVars, KeepsLease, Unrecorded, Idle
<1>2. ASSUME NEW w \in Workers, At(w, 0 .. 16), UNCHANGED artifacts,
             \/ Drop(w) \/ Step(w) \/ StepPublished(w)
             \/ \E p, e : Leave(w, e) \/ GoTo(w, p, e)
      PROVE  Goal
  BY <1>2, MovesKeepLease DEF At
<1>3. ASSUME NEW w \in Workers, Forward(w) PROVE Goal
  <2>1. CASE ClaimSubject(w)
    <3>1. At(w, 0 .. 16) /\ UNCHANGED artifacts /\ (Drop(w) \/ Step(w))
      BY <2>1 DEF ClaimSubject, At, ClaimSubjectAt
    <3> QED BY <1>2, <3>1
  <2>2. CASE Check(w)
    <3>1. /\ At(w, 0 .. 16) /\ UNCHANGED artifacts
          /\ Leave(w, "lost") \/ GoTo(w, CancelAt, "none") \/ Step(w)
      BY <2>2 DEF Check, At, CheckAt, dbVars
    <3> QED BY <1>2, <3>1
  <2>3. CASE CancelBuild(w)
    <3>1. /\ At(w, 0 .. 16) /\ UNCHANGED artifacts
          /\ Leave(w, "lost") \/ Leave(w, "done")
      BY <2>3 DEF CancelBuild, At, CancelAt
    <3> QED BY <1>2, <3>1
  <2>4. CASE AdvanceBuild(w)
    <3>1. At(w, 0 .. 16) /\ UNCHANGED artifacts /\ (Leave(w, "lost") \/ Step(w))
      BY <2>4 DEF AdvanceBuild, At, AdvanceAt
    <3> QED BY <1>2, <3>1
  <2>5. CASE PersistResolution(w) \/ PersistPackageResults(w)
    <3>1. At(w, 0 .. 16) /\ UNCHANGED artifacts /\ (Leave(w, "lost") \/ Step(w))
      BY <2>5 DEF PersistResolution, PersistPackageResults, At, PersistResolutionAt,
                  PersistResultsAt
    <3> QED BY <1>2, <3>1
  <2>6. CASE Reject(w)
    <3>1. At(w, 0 .. 16) /\ UNCHANGED artifacts /\ Drop(w)
      BY <2>6 DEF Reject, At, VerdictAt
    <3> QED BY <1>2, <3>1
  <2>7. CASE PublishObject(w)
    <3>1. /\ At(w, 0 .. 16) /\ UNCHANGED artifacts
          /\ StepPublished(w) \/ \E e : Leave(w, e)
      BY <2>7 DEF PublishObject, At, PublishAt, dbVars
    <3> QED BY <1>2, <3>1
  <2>8. CASE PublishArtifactTerminal(w)
    <3>1. At(w, 0 .. 16) /\ UNCHANGED artifacts /\ Leave(w, "lost")
      BY <2>8 DEF PublishArtifactTerminal, CommitRows, Records, At, CommitAt, dbVars
    <3> QED BY <1>2, <3>1
  <2>9. CASE Compensate(w)
    BY <2>9, MovesKeepLease DEF Compensate, At, dbVars
  <2>10. CASE Settle(w)
    BY <2>10, MovesKeepLease DEF Settle, SettleJob, At
  <2> QED BY <1>3, <2>1, <2>2, <2>3, <2>4, <2>5, <2>6, <2>7, <2>8, <2>9, <2>10 DEF Forward
<1>4. ASSUME NEW w \in Workers, Fault(w) PROVE Goal
  <2>1. ASSUME NEW e \in Exits, Raise(w, e) PROVE Goal
    <3>1. At(w, 0 .. 16) /\ UNCHANGED artifacts /\ Leave(w, e)
      BY <2>1 DEF Raise, At, RaiseAt, dbVars
    <3> QED BY <1>2, <3>1
  <2>2. ASSUME SettleRaises(w), UNCHANGED artifacts PROVE Goal
    BY <2>2, MovesKeepLease DEF SettleRaises, At
  <2>3. ASSUME Crash(w), UNCHANGED artifacts PROVE Goal
    BY <2>3, MovesKeepLease DEF Crash
  <2> QED BY <1>4, <2>1, <2>2, <2>3 
          DEF Fault, CommitUnacknowledged, CommitRows, Records
<1>5. ASSUME User \/ Tick \/ \E w \in Workers : Heartbeat(w) PROVE Goal
  BY <1>1, <1>5 DEF User, Create, Retry, Insert, Delete, Cancel, CancelReadStatus,
     CancelReadyBuildJob, CancelMissesJob, CancelRunning, Tick, AdvanceClocks, Heartbeat, dbVars
<1>6. ASSUME NEW w \in Workers, NEW t \in Tasks, TerminalizeExhausted(w, t) PROVE Goal
  BY <1>1, <1>6 DEF TerminalizeExhausted, CloseExhausted
<1> HIDE DEF Goal
<1> QED BY <1>3, <1>4, <1>5, <1>6 DEF Next, Claim

\* One step preserves the invariant of executions.
LEMMA NextExecutionInv == QueueInv /\ TypeOK' /\ ExecutionInv /\ [Next]_vars => ExecutionInv'
<1> SUFFICES ASSUME QueueInv, TypeOK', ExecutionInv, [Next]_vars PROVE ExecutionInv'
  OBVIOUS
<1>0. TypeOK /\ JobTaskAgree
  BY DEF QueueInv
<1>1. ASSUME NEW w \in Workers, NEW t \in Tasks, ClaimNext(w, t) PROVE ExecutionInv'
  BY <1>1, NewLeaseStep DEF Next, Claim
<1>2. ASSUME NEW w \in Workers, Records(w), Next PROVE ExecutionInv'
  BY <1>2, RecordingStep
<1>3. ASSUME Next, \A w \in Workers : \A t \in Tasks : ~ClaimNext(w, t),
             \A w \in Workers : ~Records(w)
      PROVE  ExecutionInv'
  BY <1>0, <1>3, OtherStepsKeepLeases, RowsCountOn, OrdinaryStep
<1>4. CASE UNCHANGED vars
  BY <1>4 DEF vars, ExecutionInv, LeaseInv, ExecutionsDiffer, Unrecorded, Idle, Subject, Exec
<1> QED BY <1>1, <1>2, <1>3, <1>4

\* No two workers carry the same execution of a task, and what an execution
\* published is not recorded before its commit.
LEMMA ExecutionInvariant == Spec => []ExecutionInv
<1>1. Init => ExecutionInv
  <2>1. ASSUME Init, NEW w \in Workers PROVE Idle(w)
    BY <2>1 DEF Init, WorkerInit, NoLease, Idle
  <2> QED BY <2>1 DEF ExecutionInv, LeaseInv, ExecutionsDiffer, Unrecorded
<1>2. QueueInv => TypeOK
  BY DEF QueueInv
<1> QED BY <1>1, <1>2, NextExecutionInv, QueueInvariant, PTL DEF Spec

\* A step that takes away the file of an artifact row is the compensation of
\* the execution that recorded it.
LEMMA RecordedFileStep ==
    ASSUME QueueInv, ExecutionInv, Next, NEW a \in artifacts \cap objects, a \notin objects'
    PROVE  \E w \in Workers : /\ a = <<Subject(w), Exec(w)>>
                              /\ pc[w] = CompensateAt
                              /\ exit[w] = "retry"
<1>1. PICK w \in Workers : Compensate(w)
  BY DEF Next, User, Create, Retry, Insert, Delete, Cancel, CancelReadStatus,
         CancelReadyBuildJob, CancelMissesJob, CancelRunning, Claim, ClaimNext,
         TerminalizeExhausted, Forward, ClaimSubject, Check, CancelBuild, AdvanceBuild,
         PersistResolution, PersistPackageResults, Reject, PublishObject,
         PublishArtifactTerminal, CommitRows, Settle, Heartbeat, Fault,
         CommitUnacknowledged, Raise, Tick
<1>2. a = <<Subject(w), Exec(w)>> /\ ~Idle(w) /\ pc[w] = CompensateAt
  BY <1>1 DEF Compensate, At
<1>3. ~Unrecorded(w)
  BY <1>2 DEF ExecutionInv
<1> QED BY <1>2, <1>3 DEF Unrecorded

\* The file behind an artifact row goes only when the execution that recorded
\* it compensates after a commit whose answer was lost; no other execution of
\* the task, however late, removes it.
THEOREM RecordedFilesAreKept == Spec => RecordedFileKept
<1>1. QueueInv /\ ExecutionInv /\ [Next]_vars =>
        [\A a \in artifacts \cap objects :
            a \in objects' \/ \E w \in Workers : /\ a = <<Subject(w), Exec(w)>>
                                               /\ pc[w] = CompensateAt
                                               /\ exit[w] = "retry"]_vars
  BY RecordedFileStep
<1> QED BY <1>1, QueueInvariant, ExecutionInvariant, PTL DEF Spec, RecordedFileKept
-----------------------------------------------------------------------------
(***************************************************************************)
(* BuildQueue implements BuildLifecycle: under the refinement mapping of   *)
(* BuildQueue every step of the API, of a worker or of the environment is  *)
(* one step of the lifecycle of one task, or changes nothing a user sees.  *)
(***************************************************************************)
IsOpen(row) == row.status \notin Terminal \cup {"ABSENT"}

\* The changes of a task row that BuildLifecycle allows, by its actions.
LegalMove(a, b) ==
    \/ a.status = "ABSENT" /\ b.status = "QUEUED" /\ b.cancel = a.cancel
    \/ IsOpen(a) /\ IsOpen(b) /\ (b.cancel = a.cancel \/ b.cancel = TRUE)
    \/ IsOpen(a) /\ b.status \in Successes /\ a.cancel = FALSE /\ b.cancel = FALSE
    \/ IsOpen(a) /\ b.status = "FAILED" /\ b.cancel = a.cancel
    \/ IsOpen(a) /\ b.status = "CANCELLED" /\ b.cancel = TRUE
    \/ b.status = a.status /\ b.cancel = a.cancel

\* A step that changes the row of task t, legally, and no other.
MovesOnly(t) ==
    /\ LegalMove(task[t], task'[t])
    /\ \A s \in Tasks \ {t} : task'[s] = task[s]

\* A cancel call is in flight only for a task that exists.
CancelsExisting ==
    \A t \in Tasks : cancelling[t] # "none" => task[t].status # "ABSENT"
-----------------------------------------------------------------------------
\* Every step moves at most one task, and legally.
LEMMA StepIsLegal ==
    ASSUME QueueInv, CancelsExisting, [Next]_vars
    PROVE  UNCHANGED task \/ \E t \in Tasks : MovesOnly(t)
<1>0. task \in [Tasks -> TaskRow]
  BY DEF QueueInv, TypeOK
<1>b. \A t \in Tasks : task[t].cancel \in BOOLEAN
  BY <1>0 DEF TaskRow
\* Only the row of the task at hand is written.
<1>e. ASSUME NEW t \in Tasks, NEW row, task' = [task EXCEPT ![t] = row],
             LegalMove(task[t], row)
      PROVE  MovesOnly(t)
  BY <1>0, <1>e DEF MovesOnly
\* A worker's write is for the task it owns, which is open.
<1>o. ASSUME NEW w \in Workers, ~Idle(w), Owns(w)
      PROVE  Subject(w) \in Tasks /\ IsOpen(task[Subject(w)])
  BY <1>o, OwnerFacts DEF IsOpen
<1>f. ASSUME NEW t \in Tasks, IsOpen(task[t]), NEW c
      PROVE  LegalMove(task[t], FailedTask(task[t], c))
  <2>1. /\ FailedTask(task[t], c).status = "FAILED"
        /\ FailedTask(task[t], c).cancel = task[t].cancel
    BY <1>f DEF FailedTask, IsOpen
  <2> QED BY <1>f, <2>1 DEF LegalMove
<1>1. ASSUME NEW t \in Tasks, Insert(t) PROVE MovesOnly(t)
  <2>1. LegalMove(task[t], WithStatus(task[t], "QUEUED"))
    BY <1>1 DEF Insert, NextId, WithStatus, LegalMove
  <2> QED BY <1>1, <1>e, <2>1 DEF Insert
<1>2. ASSUME NEW t \in Tasks, Delete(t) PROVE MovesOnly(t)
  <2>1. LegalMove(task[t], DeletedTask(task[t]))
    BY DEF DeletedTask, LegalMove
  <2> QED BY <1>2, <1>e, <2>1 DEF Delete
<1>3. ASSUME NEW t \in Tasks, Cancel(t) PROVE UNCHANGED task \/ MovesOnly(t)
  <2>1. ASSUME NEW b, task[t].status # "ABSENT", task[t].status \notin Terminal
        PROVE  LegalMove(task[t], WithCancel(task[t], b))
    <3>1. /\ WithCancel(task[t], b).status \in {"CANCELLED", task[t].status}
          /\ WithCancel(task[t], b).cancel = TRUE
      BY DEF WithCancel
    <3> QED BY <2>1, <3>1 DEF LegalMove, IsOpen
  <2>2. ASSUME NEW b, CancelLocksTask(t, b), task[t].status # "ABSENT"
        PROVE  UNCHANGED task \/ MovesOnly(t)
    BY <1>e, <2>1, <2>2 DEF CancelLocksTask
  <2>3. TaskInv(t)
    BY Rearranged
  <2>4. CASE CancelReadyBuildJob(t)
    <3>1. task[t].status # "ABSENT"
      BY <2>3, <2>4 DEF CancelReadyBuildJob, TaskInv
    <3> QED BY <2>2, <2>4, <3>1 DEF CancelReadyBuildJob
  <2>5. CASE CancelRunning(t)
    BY <2>2, <2>5 DEF CancelRunning, CancelsExisting
  <2> QED BY <1>3, <2>4, <2>5 DEF Cancel, CancelReadStatus, CancelMissesJob, dbVars
<1>4. ASSUME NEW w \in Workers, NEW t \in Tasks, TerminalizeExhausted(w, t)
      PROVE  MovesOnly(t)
  <2>1. IsOpen(task[t])
    BY <1>4, CandidateFacts DEF TerminalizeExhausted, CloseExhausted, IsOpen
  <2> QED BY <1>4, <1>e, <1>f, <2>1 DEF TerminalizeExhausted
<1>5. ASSUME NEW w \in Workers, ClaimSubject(w)
      PROVE  UNCHANGED task \/ \E t \in Tasks : MovesOnly(t)
  <2>1. ~Idle(w)
    BY <1>5 DEF ClaimSubject, At
  <2>2. ASSUME IsOpen(task[Subject(w)])
        PROVE  LegalMove(task[Subject(w)], ClaimedTask(task[Subject(w)], Exec(w)))
    <3>1. /\ ClaimedTask(task[Subject(w)], Exec(w)).status = "RESOLVING"
          /\ ClaimedTask(task[Subject(w)], Exec(w)).cancel = task[Subject(w)].cancel
      BY DEF ClaimedTask
    <3> QED BY <2>2, <3>1 DEF LegalMove, IsOpen, Terminal, Successes
  <2>3. CASE Owns(w)
    <3>1. Subject(w) \in Tasks /\ IsOpen(task[Subject(w)])
      BY <1>o, <2>1, <2>3
    <3> QED BY <1>5, <1>e, <1>f, <2>2, <2>3, <3>1 DEF ClaimSubject
  <2>4. CASE ~Owns(w)
    BY <1>5, <2>4 DEF ClaimSubject
  <2> QED BY <2>3, <2>4
<1>6. ASSUME NEW w \in Workers, CancelBuild(w)
      PROVE  UNCHANGED task \/ \E t \in Tasks : MovesOnly(t)
  <2>1. CASE OwnsTask(w) /\ task[Subject(w)].cancel
    <3>1. Subject(w) \in Tasks /\ IsOpen(task[Subject(w)])
      BY <1>6, <1>o, <2>1 DEF OwnsTask, CancelBuild, At
    <3>2. task[Subject(w)].cancel = TRUE
      BY <1>b, <2>1, <3>1
    <3>3. LegalMove(task[Subject(w)], WithStatus(task[Subject(w)], "CANCELLED"))
      BY <3>1, <3>2 DEF LegalMove, WithStatus
    <3> QED BY <1>6, <1>e, <2>1, <3>1, <3>3 DEF CancelBuild
  <2> QED BY <1>6, <2>1 DEF CancelBuild
<1>7. ASSUME NEW w \in Workers, AdvanceBuild(w)
      PROVE  UNCHANGED task \/ \E t \in Tasks : MovesOnly(t)
  <2>1. CASE OwnsTask(w) /\ task[Subject(w)].status \notin Terminal
    <3>1. Subject(w) \in Tasks /\ IsOpen(task[Subject(w)])
      BY <1>7, <1>o, <2>1 DEF OwnsTask, AdvanceBuild, At
    <3>2. StageAt(pc[w]) \notin Terminal \cup {"ABSENT"}
      BY DEF StageAt, Terminal, Successes
    <3>3. LegalMove(task[Subject(w)], WithStatus(task[Subject(w)], StageAt(pc[w])))
      BY <3>1, <3>2 DEF LegalMove, WithStatus, IsOpen
    <3> QED BY <1>7, <1>e, <2>1, <3>1, <3>3 DEF AdvanceBuild
  <2> QED BY <1>7, <2>1 DEF AdvanceBuild
<1>8. ASSUME NEW w \in Workers, Reject(w)
      PROVE  UNCHANGED task \/ \E t \in Tasks : MovesOnly(t)
  <2>1. CASE Owns(w)
    <3>1. Subject(w) \in Tasks /\ IsOpen(task[Subject(w)])
      BY <1>8, <1>o, <2>1 DEF Reject, At
    <3> QED BY <1>8, <1>e, <1>f, <2>1, <3>1 DEF Reject
  <2> QED BY <1>8, <2>1 DEF Reject
<1>9. ASSUME NEW w \in Workers, PublishArtifactTerminal(w) \/ CommitUnacknowledged(w)
      PROVE  UNCHANGED task \/ \E t \in Tasks : MovesOnly(t)
  <2>1. CASE CanCommit(w)
    <3>1. Subject(w) \in Tasks /\ IsOpen(task[Subject(w)])
      BY <1>9, <1>o, <2>1
         DEF CanCommit, OwnsTask, PublishArtifactTerminal, CommitUnacknowledged, At
    <3>2. task[Subject(w)].cancel = FALSE
      BY <1>b, <2>1, <3>1 DEF CanCommit
    <3>3. \A s \in Successes : LegalMove(task[Subject(w)], WithStatus(task[Subject(w)], s))
      BY <3>1, <3>2 DEF LegalMove, WithStatus
    <3>4. ASSUME NEW s \in Successes, CommitRows(w, s) PROVE MovesOnly(Subject(w))
      <4>1. task' = [task EXCEPT ![Subject(w)] = WithStatus(task[Subject(w)], s)]
        BY <3>4 DEF CommitRows
      <4> QED BY <1>e, <3>1, <3>3, <4>1
    <3> QED BY <1>9, <2>1, <3>1, <3>4 DEF PublishArtifactTerminal, CommitUnacknowledged
  <2>2. CASE ~CanCommit(w)
    BY <1>9, <2>2 DEF PublishArtifactTerminal, CommitUnacknowledged, dbVars
  <2> QED BY <2>1, <2>2
<1>10. ASSUME NEW w \in Workers, Settle(w)
       PROVE  UNCHANGED task \/ \E t \in Tasks : MovesOnly(t)
  <2>1. PICK t \in Tasks : t = Subject(w)
    BY <1>10 DEF QueueInv, TypeOK, WorkerTypeOK, LeaseRecord, Settle, SettleJob, At,
                 Subject, Idle, Tasks, Subjects
  <2>2. CASE ~Owns(w)
    <3>1. task' = [task EXCEPT ![t] = task[t]]
      BY <1>10, <2>1, <2>2 DEF Settle
    <3> QED BY <1>0, <3>1
  <2>3. CASE Owns(w)
    <3>1. IsOpen(task[t])
      BY <1>10, <1>o, <2>1, <2>3 DEF Settle, SettleJob, At
    <3>2. LegalMove(task[t], ResetTask(task[t], Exec(w)))
      <4>1. /\ ResetTask(task[t], Exec(w)).status \in {"QUEUED", task[t].status}
            /\ ResetTask(task[t], Exec(w)).cancel = task[t].cancel
        BY DEF ResetTask
      <4> QED BY <3>1, <4>1 DEF LegalMove, IsOpen, Terminal, Successes
    <3>3. \/ task' = [task EXCEPT ![t] = ResetTask(task[t], Exec(w))]
          \/ task' = [task EXCEPT ![t] = FailedTask(task[t], SettleCode(exit[w]))]
      BY <1>10, <2>1, <2>3 DEF Settle
    <3> QED BY <1>e, <1>f, <3>1, <3>2, <3>3
  <2> QED BY <2>2, <2>3
<1>11. ASSUME NEW w \in Workers,
              \/ Check(w) \/ PersistResolution(w) \/ PersistPackageResults(w)
              \/ PublishObject(w) \/ Compensate(w) \/ Heartbeat(w)
              \/ \E e \in Exits : Raise(w, e)
       PROVE  UNCHANGED task
  BY <1>11 DEF Check, PersistResolution, PersistPackageResults, PublishObject,
               Compensate, Heartbeat, Raise, dbVars
<1> QED
  BY <1>1, <1>2, <1>3, <1>4, <1>5, <1>6, <1>7, <1>8, <1>9, <1>10, <1>11
     DEF Next, User, Create, Retry, Claim, ClaimNext, Forward, Fault, Tick, vars

\* A cancel call in flight keeps naming a task that exists.
LEMMA CancelsExistingStep ==
    ASSUME QueueInv, CancelsExisting, [Next]_vars
    PROVE  CancelsExisting'
<1> SUFFICES ASSUME NEW t \in Tasks, cancelling'[t] # "none"
             PROVE  task'[t].status # "ABSENT"
  BY DEF CancelsExisting
<1>1. task[t].status # "ABSENT"
  <2>1. \/ UNCHANGED cancelling
        \/ \E s \in Tasks : Cancel(s)
    BY DEF Next, User, Create, Retry, Insert, Delete, Claim, ClaimNext,
           TerminalizeExhausted, Forward, ClaimSubject, Check, CancelBuild, AdvanceBuild,
           PersistResolution, PersistPackageResults, Reject, PublishObject,
           PublishArtifactTerminal, CommitRows, Compensate, Settle,
           Heartbeat, Fault, CommitUnacknowledged, Raise, Tick, dbVars, vars
  <2>2. CASE UNCHANGED cancelling
    BY <2>2 DEF CancelsExisting
  <2>3. ASSUME NEW s \in Tasks, Cancel(s) PROVE task[t].status # "ABSENT"
    BY <2>3 DEF Cancel, CancelReadStatus, CancelReadyBuildJob, CancelMissesJob,
               CancelRunning, CancelsExisting, QueueInv, TypeOK
  <2> QED BY <2>1, <2>2, <2>3
<1>2. CASE UNCHANGED task
  BY <1>1, <1>2
<1>3. ASSUME NEW s \in Tasks, MovesOnly(s) PROVE task'[t].status # "ABSENT"
  BY <1>1, <1>3 DEF MovesOnly, LegalMove, IsOpen, Successes
<1> QED BY <1>2, <1>3, StepIsLegal
-----------------------------------------------------------------------------
(***************************************************************************)
(* The refinement mapping.                                                 *)
(***************************************************************************)
Outcome == [t \in Tasks |-> OutcomeOf(task[t].status)]
Asked == {t \in Tasks : task[t].cancel}
Delivered == {t \in Tasks : \E e \in Execs : <<t, e>> \in artifacts}

\* The tasks with an artifact are the successful ones.
LEMMA DeliveredIsSuccess ==
    ASSUME QueueInv
    PROVE  Delivered = {t \in Tasks : task[t].status \in Successes}
<1>1. \A t \in Tasks : task[t].exec \in Execs
  BY DEF QueueInv, TypeOK, TaskRow
<1> QED BY <1>1 DEF Delivered, QueueInv, ArtifactMatchesAudit

\* What OutcomeOf makes of each kind of row.
LEMMA Outcomes ==
    ASSUME NEW s
    PROVE  /\ s = "ABSENT" => OutcomeOf(s) = "absent"
           /\ s \in Successes => OutcomeOf(s) = "succeeded"
           /\ s = "FAILED" => OutcomeOf(s) = "failed"
           /\ s = "CANCELLED" => OutcomeOf(s) = "cancelled"
           /\ s \notin Terminal \cup {"ABSENT"} => OutcomeOf(s) = "open"
BY DEF OutcomeOf, Successes, Terminal

\* A step that moves one task legally is a step of its lifecycle.
LEMMA MoveIsLifecycleStep ==
    ASSUME QueueInv, QueueInv', NEW t \in Tasks, MovesOnly(t)
    PROVE  \/ Lifecycle!Next
           \/ UNCHANGED <<Outcome, Asked, Delivered>>
<1>1. /\ Delivered = {s \in Tasks : task[s].status \in Successes}
      /\ Delivered' = {s \in Tasks : task'[s].status \in Successes}
  <2>1. Delivered = {s \in Tasks : task[s].status \in Successes}
    BY DeliveredIsSuccess
  <2>2. \A s \in Tasks : task'[s].exec \in Execs
    BY DEF QueueInv, TypeOK, TaskRow
  <2> QED BY <2>1, <2>2 DEF Delivered, QueueInv, ArtifactMatchesAudit
<1>2. ASSUME NEW o, OutcomeOf(task'[t].status) = o
      PROVE  Outcome' = [Outcome EXCEPT ![t] = o]
  BY <1>2 DEF MovesOnly, Outcome
<1>3. Outcome[t] = OutcomeOf(task[t].status)
  BY DEF Outcome
<1>b. task[t].cancel \in BOOLEAN /\ task'[t].cancel \in BOOLEAN
  BY DEF QueueInv, TypeOK, TaskRow
<1>4. /\ task'[t].cancel = task[t].cancel => Asked' = Asked
      /\ task'[t].cancel = TRUE => Asked' = Asked \cup {t}
  BY DEF MovesOnly, Asked
<1>5. /\ (task'[t].status \in Successes <=> task[t].status \in Successes)
         => Delivered' = Delivered
      /\ task'[t].status \in Successes => Delivered' = Delivered \cup {t}
  BY <1>1 DEF MovesOnly
<1>6. CASE task[t].status = "ABSENT" /\ task'[t].status = "QUEUED"
           /\ task'[t].cancel = task[t].cancel
  <2>1. OutcomeOf(task[t].status) = "absent" /\ OutcomeOf(task'[t].status) = "open"
    BY <1>6 DEF OutcomeOf, Successes
  <2>2. Delivered' = Delivered /\ Asked' = Asked
    BY <1>4, <1>5, <1>6 DEF Successes
  <2>3. Lifecycle!Open(t)
    BY <1>2, <1>3, <2>1, <2>2 DEF Lifecycle!Open, Outcome, Asked, Delivered
  <2> QED BY <2>3 DEF Lifecycle!Next
<1>7. CASE IsOpen(task[t]) /\ IsOpen(task'[t])
           /\ (task'[t].cancel = task[t].cancel \/ task'[t].cancel = TRUE)
  <2>1. OutcomeOf(task[t].status) = "open" /\ OutcomeOf(task'[t].status) = "open"
    BY <1>7, Outcomes DEF IsOpen
  <2>2. Delivered' = Delivered /\ Outcome' = Outcome
    BY <1>2, <1>3, <1>5, <1>7, <2>1 DEF IsOpen, Terminal, Outcome
  <2>3. CASE task'[t].cancel = task[t].cancel
    BY <1>4, <2>2, <2>3
  <2>4. CASE task'[t].cancel = TRUE
    <3>1. Lifecycle!AskToCancel(t)
      BY <1>3, <1>4, <2>1, <2>2, <2>4 DEF Lifecycle!AskToCancel, Outcome, Asked, Delivered
    <3> QED BY <3>1 DEF Lifecycle!Next
  <2> QED BY <1>7, <2>3, <2>4
<1>8. CASE IsOpen(task[t]) /\ task'[t].status \in Successes
           /\ task[t].cancel = FALSE /\ task'[t].cancel = FALSE
  <2>1. OutcomeOf(task[t].status) = "open" /\ OutcomeOf(task'[t].status) = "succeeded"
    BY <1>8, Outcomes DEF IsOpen
  <2>2. Asked' = Asked /\ t \notin Asked /\ Delivered' = Delivered \cup {t}
    BY <1>4, <1>5, <1>8 DEF Asked
  <2>3. Lifecycle!Succeed(t)
    BY <1>2, <1>3, <2>1, <2>2 DEF Lifecycle!Succeed, Outcome, Asked, Delivered
  <2> QED BY <2>3 DEF Lifecycle!Next
<1>9. CASE IsOpen(task[t]) /\ task'[t].status = "FAILED"
           /\ task'[t].cancel = task[t].cancel
  <2>1. OutcomeOf(task[t].status) = "open" /\ OutcomeOf(task'[t].status) = "failed"
    BY <1>9, Outcomes DEF IsOpen
  <2>2. Asked' = Asked /\ Delivered' = Delivered
    BY <1>4, <1>5, <1>9 DEF IsOpen, Terminal, Successes
  <2>3. Lifecycle!Fail(t)
    BY <1>2, <1>3, <2>1, <2>2 DEF Lifecycle!Fail, Outcome, Asked, Delivered
  <2> QED BY <2>3 DEF Lifecycle!Next
<1>10. CASE IsOpen(task[t]) /\ task'[t].status = "CANCELLED" /\ task'[t].cancel = TRUE
  <2>1. OutcomeOf(task[t].status) = "open" /\ OutcomeOf(task'[t].status) = "cancelled"
    BY <1>10, Outcomes DEF IsOpen
  <2>2. Asked' = Asked \cup {t} /\ Delivered' = Delivered
    BY <1>4, <1>5, <1>10 DEF IsOpen, Terminal, Successes
  <2>3. Lifecycle!EndCancelled(t)
    BY <1>2, <1>3, <2>1, <2>2 DEF Lifecycle!EndCancelled, Outcome, Asked, Delivered
  <2> QED BY <2>3 DEF Lifecycle!Next
<1>11. CASE task'[t].status = task[t].status /\ task'[t].cancel = task[t].cancel
  BY <1>2, <1>3, <1>4, <1>5, <1>11 DEF Outcome
<1> QED BY <1>6, <1>7, <1>8, <1>9, <1>10, <1>11 DEF MovesOnly, LegalMove
-----------------------------------------------------------------------------
\* The queue, its workers and the API implement the lifecycle promised to
\* the user, for any number of tasks, workers and attempts.
THEOREM QueueRefinesLifecycle == Spec => RefinesLifecycle
<1> DEFINE Inv == QueueInv /\ CancelsExisting
<1>1. Init => Lifecycle!Init
  <2> SUFFICES ASSUME Init PROVE Lifecycle!Init
    OBVIOUS
  <2>1. \A t \in Tasks : task[t] = AbsentTask
    BY DEF Init
  <2>2. \A t \in Tasks : task[t].status = "ABSENT" /\ task[t].cancel = FALSE
    BY <2>1 DEF AbsentTask
  <2>3. \A t \in Tasks : OutcomeOf(task[t].status) = "absent"
    BY <2>2 DEF OutcomeOf
  <2> QED BY <2>2, <2>3 DEF Init, Lifecycle!Init
<1>2. Init => Inv
  BY InitQueueInv DEF Init, CancelsExisting
<1>3. Inv /\ [Next]_vars => Inv'
  BY NextQueueInv, CancelsExistingStep
<1>4. Inv /\ Inv' /\ [Next]_vars => [Lifecycle!Next]_(Lifecycle!vars)
  <2> SUFFICES ASSUME Inv, Inv', [Next]_vars PROVE [Lifecycle!Next]_(Lifecycle!vars)
    OBVIOUS
  <2>1. CASE UNCHANGED task
    <3>1. Delivered' = Delivered
      <4>1. Delivered = {s \in Tasks : task[s].status \in Successes}
        BY DeliveredIsSuccess
      <4>2. \A s \in Tasks : task'[s].exec \in Execs
        BY DEF QueueInv, TypeOK, TaskRow
      <4> QED BY <2>1, <4>1, <4>2 DEF Delivered, QueueInv, ArtifactMatchesAudit
    <3> QED BY <2>1, <3>1 DEF Lifecycle!vars, Delivered
  <2>2. CASE \E t \in Tasks : MovesOnly(t)
    BY <2>2, MoveIsLifecycleStep DEF Lifecycle!vars, Outcome, Asked, Delivered
  <2> QED BY <2>1, <2>2, StepIsLegal
<1> QED BY <1>1, <1>2, <1>3, <1>4, PTL DEF Spec, RefinesLifecycle, Lifecycle!Spec
=============================================================================
