----------------------------- MODULE JobWorker ------------------------------
(***************************************************************************)
(* The worker process as far as every job type shares it: JobConsumer's    *)
(* loop, JobRepository.claim_next and the ways a pipeline is left.         *)
(* BuildQueue and ParseQueue extend it with their subject rows and their   *)
(* pipelines.                                                              *)
(***************************************************************************)
EXTENDS JobLease

CONSTANT NumSubjects   \* how many subjects, with one job each (a bound)

ASSUME SubjectsAssumption == NumSubjects \in Nat \ {0}

VARIABLES
    job,          \* build_jobs, the row of each subject's job
    lease,        \* the JobLease each worker carries
    pc,           \* where its pipeline stands
    published,    \* the pipeline's local variable: a file not yet recorded
    exit          \* how the pipeline is being left

workerVars == <<lease, pc, published, exit>>

(***************************************************************************)
(* Subject ids grow in the order of creation, so id order is the queue's   *)
(* priority_no, created_at, id order (every job has the same priority).    *)
(***************************************************************************)
Subjects == 1 .. NumSubjects
Execs == 0 .. MaxAttempts

LeaseRecord == [subject : 0 .. NumSubjects, exec : Execs, reclaimed : BOOLEAN,
                prev : Execs]

\* The points of a pipeline every job type has; its own lie between.
ClaimSubjectAt == 0     \* claim_next has returned
CompensateAt   == 17    \* delete_if_owned(orphan)
SettleAt       == 18    \* retry_or_fail, fail_terminal
Points         == 0 .. 18

(***************************************************************************)
(* How a pipeline is left.  "done": the job reached its end.  "lost":      *)
(* LostLeaseError, nothing more is written.  "retry", "reject": the last   *)
(* handler calls retry_or_fail with retryable true, false.  "fail":        *)
(* fail_terminal.  "last": the error escaped the pipeline and JobConsumer  *)
(* calls retry_or_fail(retryable=True).                                    *)
(***************************************************************************)
Exits == {"none", "done", "lost", "retry", "reject", "fail", "last"}

WorkerTypeOK ==
    /\ job \in [Subjects -> JobRow]
    /\ lease \in [Workers -> LeaseRecord]
    /\ pc \in [Workers -> Points]
    /\ published \in [Workers -> BOOLEAN]
    /\ exit \in [Workers -> Exits]

WorkerInit ==
    /\ job = [t \in Subjects |-> AbsentJob]
    /\ lease = [w \in Workers |-> NoLease]
    /\ pc = [w \in Workers |-> ClaimSubjectAt]
    /\ published = [w \in Workers |-> FALSE]
    /\ exit = [w \in Workers |-> "none"]
-----------------------------------------------------------------------------
Idle(w) == lease[w].subject = 0
Subject(w) == lease[w].subject
Exec(w) == lease[w].exec

At(w, points) == ~Idle(w) /\ pc[w] \in points

Owns(w) == Owned(job[Subject(w)], w, Exec(w))

ReadyFor(w) == {t \in Subjects : IsReady(job[t], w)}
ExpiredFor(w) == {t \in Subjects : IsExpired(job[t], w)}

\* The first available READY row, else the RUNNING row that expired first.
\* SKIP LOCKED passes over rows another transaction holds; transactions are
\* atomic here, so none is held.
IsCandidate(t, w) ==
    \/ /\ t \in ReadyFor(w)
       /\ \A s \in ReadyFor(w) : t <= s
    \/ /\ ReadyFor(w) = {}
       /\ t \in ExpiredFor(w)
       /\ \A s \in ExpiredFor(w) :
            job[t].ttl < job[s].ttl \/ (job[t].ttl = job[s].ttl /\ t <= s)

\* Mutant: attempts are counted but not limited.
TakeJobUnlimited(w, t) ==
    /\ Idle(w)
    /\ IsCandidate(t, w)
    /\ job' = [job EXCEPT ![t] = ClaimedJob(job[t], w)]
    /\ lease' = [lease EXCEPT ![w] = LeaseOf(t, job[t])]
    /\ pc' = [pc EXCEPT ![w] = ClaimSubjectAt]
    /\ UNCHANGED <<published, exit>>

\* claim_next hands out a lease.
TakeJob(w, t) ==
    /\ Idle(w)
    /\ IsCandidate(t, w)
    /\ job[t].attempts < MaxAttempts
    /\ job' = [job EXCEPT ![t] = ClaimedJob(job[t], w)]
    /\ lease' = [lease EXCEPT ![w] = LeaseOf(t, job[t])]
    /\ pc' = [pc EXCEPT ![w] = ClaimSubjectAt]
    /\ UNCHANGED <<published, exit>>

\* Mutant: an exhausted row is skipped and left as it is.
CloseExhaustedSkips(w, t) == FALSE

\* claim_next meets a row whose attempts are used up (_terminalize_exhausted)
\* and then looks for another candidate.
CloseExhausted(w, t) ==
    /\ Idle(w)
    /\ IsCandidate(t, w)
    /\ job[t].attempts >= MaxAttempts
    /\ job' = [job EXCEPT ![t] = ClosedJob(job[t], "FAILED")]
    /\ UNCHANGED workerVars

(***************************************************************************)
(* Leaving the pipeline.  An object that is published but not recorded is  *)
(* deleted first.                                                          *)
(***************************************************************************)
Drop(w) ==
    /\ lease' = [lease EXCEPT ![w] = NoLease]
    /\ pc' = [pc EXCEPT ![w] = ClaimSubjectAt]
    /\ published' = [published EXCEPT ![w] = FALSE]
    /\ exit' = [exit EXCEPT ![w] = "none"]

GoTo(w, p, e) ==
    /\ pc' = [pc EXCEPT ![w] = p]
    /\ exit' = [exit EXCEPT ![w] = e]
    /\ UNCHANGED <<lease, published>>

Leave(w, e) ==
    \/ published[w] /\ GoTo(w, CompensateAt, e)
    \/ ~published[w] /\ e \in {"done", "lost"} /\ Drop(w)
    \/ ~published[w] /\ e \notin {"done", "lost"} /\ GoTo(w, SettleAt, e)

Step(w) == GoTo(w, pc[w] + 1, "none")

\* The pipeline now holds a published object.
StepPublished(w) ==
    /\ pc' = [pc EXCEPT ![w] = @ + 1]
    /\ published' = [published EXCEPT ![w] = TRUE]
    /\ UNCHANGED <<lease, exit>>

\* After the compensation: the lost and the done are finished.
AfterCompensation(w) ==
    \/ exit[w] \in {"done", "lost"} /\ Drop(w)
    \/ /\ exit[w] \notin {"done", "lost"}
       /\ pc' = [pc EXCEPT ![w] = SettleAt]
       /\ published' = [published EXCEPT ![w] = FALSE]
       /\ UNCHANGED <<lease, exit>>

\* retry_or_fail puts the job back rather than failing it.
Requeues(w) == exit[w] \in {"retry", "last"} /\ Exec(w) < MaxAttempts

\* Mutant: the job is settled by id alone.
SettleJobUnfenced(w) ==
    /\ At(w, {SettleAt})
    /\ job' = [job EXCEPT ![Subject(w)] =
                 IF Requeues(w) THEN RequeuedJob(@, w) ELSE ClosedJob(@, "FAILED")]
    /\ Drop(w)

\* retry_or_fail and fail_terminal change the job row only for its owner.
SettleJob(w) ==
    /\ At(w, {SettleAt})
    /\ job' = [job EXCEPT ![Subject(w)] =
                 IF ~Owns(w) THEN @
                 ELSE IF Requeues(w) THEN RequeuedJob(@, w)
                 ELSE ClosedJob(@, "FAILED")]
    /\ Drop(w)

\* retry_or_fail itself raises: the consumer tries once more.  Its own
\* failure ends the process, which is Crash.
SettleRaises(w) ==
    /\ At(w, {SettleAt})
    /\ exit[w] # "last"
    /\ GoTo(w, SettleAt, "last")
    /\ UNCHANGED job

\* The process dies, or is stopped, and a new one takes its place.
Crash(w) ==
    /\ ~Idle(w)
    /\ Drop(w)
    /\ UNCHANGED job

AdvanceClocks ==
    /\ job' = [t \in Subjects |-> TickedJob(job[t])]
    /\ job' # job
    /\ UNCHANGED workerVars
=============================================================================
