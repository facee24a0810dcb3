-------------------------- MODULE JobWorkerProofs ---------------------------
(***************************************************************************)
(* Lemmas about the job row and the worker process that the proofs of both *)
(* queues rest on, for any number of workers, subjects and attempts, any   *)
(* lease length and any clock skew.                                        *)
(***************************************************************************)
EXTENDS JobWorker, TLAPS

USE WorkersAssumption, AttemptsAssumption, TicksAssumption, SkewAssumption,
    SubjectsAssumption

\* Every update of a job row yields a job row.
LEMMA JobRowUpdates ==
    ASSUME NEW row \in JobRow, NEW w \in Workers
    PROVE  /\ row.attempts < MaxAttempts => ClaimedJob(row, w) \in JobRow
           /\ RenewedJob(row, w) \in JobRow
           /\ RequeuedJob(row, w) \in JobRow
           /\ \A s \in JobStatus : ClosedJob(row, s) \in JobRow
           /\ TickedJob(row) \in JobRow
           /\ EnqueuedJob \in JobRow
           /\ AbsentJob \in JobRow
<1>1. AbsentJob \in JobRow /\ EnqueuedJob \in JobRow
  BY DEF AbsentJob, EnqueuedJob, JobRow, JobStatus
<1>2. row.attempts < MaxAttempts => ClaimedJob(row, w) \in JobRow
  BY DEF ClaimedJob, JobRow, JobStatus
<1>3. RenewedJob(row, w) \in JobRow
  BY DEF RenewedJob, JobRow
<1>4. RequeuedJob(row, w) \in JobRow
  BY DEF RequeuedJob, JobRow, JobStatus
<1>5. \A s \in JobStatus : ClosedJob(row, s) \in JobRow
  BY DEF ClosedJob, JobRow
<1>7. TickedJob(row) \in JobRow
  BY DEF TickedJob, Sooner, JobRow
<1> QED
  BY <1>1, <1>2, <1>3, <1>4, <1>5, <1>7

\* The four worker variables are well typed after a step.
WorkerTyped ==
    /\ lease' \in [Workers -> LeaseRecord]
    /\ pc' \in [Workers -> Points]
    /\ published' \in [Workers -> BOOLEAN]
    /\ exit' \in [Workers -> Exits]

\* Leaving the pipeline, or moving on in it, keeps the worker's variables
\* well typed.
LEMMA WorkerMoves ==
    ASSUME WorkerTypeOK, NEW w \in Workers
    PROVE  /\ Drop(w) => WorkerTyped
           /\ \A p \in Points, e \in Exits : GoTo(w, p, e) => WorkerTyped
           /\ \A e \in Exits : Leave(w, e) => WorkerTyped
           /\ AfterCompensation(w) => WorkerTyped
           /\ pc[w] < 18 /\ (Step(w) \/ StepPublished(w)) => WorkerTyped
           /\ UNCHANGED workerVars => WorkerTyped
<1>0. NoLease \in LeaseRecord
  BY DEF NoLease, LeaseRecord, Execs
<1> USE DEF WorkerTypeOK, WorkerTyped, Points, ClaimSubjectAt, CompensateAt, SettleAt
<1>1. Drop(w) => WorkerTyped
  BY <1>0 DEF Drop, Exits
<1>2. \A p \in Points, e \in Exits : GoTo(w, p, e) => WorkerTyped
  BY DEF GoTo
<1>3. \A e \in Exits : Leave(w, e) => WorkerTyped
  BY <1>1, <1>2 DEF Leave
<1>4. AfterCompensation(w) => WorkerTyped
  <2>1. ASSUME pc' = [pc EXCEPT ![w] = SettleAt],
               published' = [published EXCEPT ![w] = FALSE], UNCHANGED <<lease, exit>>
        PROVE  WorkerTyped
    BY <2>1
  <2> QED BY <1>1, <2>1 DEF AfterCompensation
<1>5. ASSUME pc[w] < 18, Step(w) \/ StepPublished(w)
      PROVE  WorkerTyped
  <2>1. pc[w] + 1 \in Points /\ "none" \in Exits
    BY <1>5 DEF Exits
  <2>2. CASE Step(w)
    BY <2>1, <2>2, <1>2 DEF Step
  <2>3. CASE StepPublished(w)
    BY <2>1, <2>3 DEF StepPublished
  <2> QED BY <1>5, <2>2, <2>3
<1>6. UNCHANGED workerVars => WorkerTyped
  BY DEF workerVars
<1> QED
  BY <1>1, <1>2, <1>3, <1>4, <1>5, <1>6

\* Worker v does not move.
Stays(v) == lease'[v] = lease[v] /\ pc'[v] = pc[v]

\* Where the pipeline's moves lead, and that they move no other worker.
LEMMA Moves ==
    ASSUME WorkerTypeOK, NEW w \in Workers
    PROVE  /\ Drop(w) => lease'[w].subject = 0
           /\ \A e : Leave(w, e) => lease'[w].subject = 0 \/ pc'[w] \in {17, 18}
           /\ AfterCompensation(w) => lease'[w].subject = 0 \/ pc'[w] \in {17, 18}
           /\ \A p, e : GoTo(w, p, e) => lease' = lease /\ pc'[w] = p
           /\ Step(w) \/ StepPublished(w) => lease' = lease /\ pc'[w] = pc[w] + 1
           /\ \A e, p : Drop(w) \/ Leave(w, e) \/ AfterCompensation(w) \/ GoTo(w, p, e)
                           \/ Step(w) \/ StepPublished(w)
                        => \A v \in Workers \ {w} : Stays(v)
<1>1. w \in DOMAIN lease /\ w \in DOMAIN pc
  BY DEF WorkerTypeOK
<1>2. Drop(w) => lease'[w].subject = 0
  BY <1>1 DEF Drop, NoLease
<1>3. \A p, e : GoTo(w, p, e) => lease' = lease /\ pc'[w] = p
  BY <1>1 DEF GoTo
<1>4. \A e : Leave(w, e) => lease'[w].subject = 0 \/ pc'[w] \in {17, 18}
  BY <1>2, <1>3 DEF Leave, CompensateAt, SettleAt
<1>5. AfterCompensation(w) => lease'[w].subject = 0 \/ pc'[w] \in {17, 18}
  BY <1>1, <1>2 DEF AfterCompensation, SettleAt
<1>6. Step(w) \/ StepPublished(w) => lease' = lease /\ pc'[w] = pc[w] + 1
  BY <1>1, <1>3 DEF Step, StepPublished
<1>7. Drop(w) => \A v \in Workers \ {w} : Stays(v)
  BY DEF WorkerTypeOK, Drop, Stays
<1>8. \A p, e : GoTo(w, p, e) => \A v \in Workers \ {w} : Stays(v)
  BY DEF WorkerTypeOK, GoTo, Stays
<1>9. AfterCompensation(w) \/ StepPublished(w) => \A v \in Workers \ {w} : Stays(v)
  BY <1>7 DEF WorkerTypeOK, AfterCompensation, StepPublished, Stays
<1>10. \A e : Leave(w, e) => \A v \in Workers \ {w} : Stays(v)
  BY <1>7, <1>8 DEF Leave
<1>11. Step(w) => \A v \in Workers \ {w} : Stays(v)
  BY <1>8 DEF Step
<1> QED
  BY <1>2, <1>3, <1>4, <1>5, <1>6, <1>7, <1>8, <1>9, <1>10, <1>11
=============================================================================
