------------------------------ MODULE JobLease ------------------------------
(***************************************************************************)
(* The row of table build_jobs and the updates JobRepository applies to    *)
(* it.  Both consumers of the queue, the build pipeline (BuildQueue) and   *)
(* the requirement parser (ParseQueue), lease their jobs with these.       *)
(*                                                                         *)
(* Time is relative.  ttl is lease_expires_at minus the slowest clock of   *)
(* the system, delay is available_at minus that clock, both cut at zero;   *)
(* one tick takes one from each.  Every worker compares a row's times with *)
(* its own datetime.utcnow(), which runs Skew[w] ticks ahead of the        *)
(* slowest clock; the API host's clock runs ApiSkew ticks ahead.           *)
(*                                                                         *)
(* execution_id is a fresh UUID drawn by every claim, and every claim adds *)
(* one to attempts, so the number of the attempt stands for the UUID.      *)
(* Zero stands for NULL.                                                   *)
(***************************************************************************)
EXTENDS Naturals

CONSTANTS
    Workers,       \* worker processes, each with its own worker_id
    NoWorker,      \* lease_owner IS NULL
    MaxAttempts,   \* build_jobs.max_attempts (3 in BuildJobEntity)
    LeaseTicks,    \* WF_JOB_LEASE_SECONDS
    RetryTicks,    \* retry_delay_seconds
    Skew,          \* [Workers -> Nat], how far each worker's clock is ahead
    ApiSkew        \* how far the API's clock is ahead

ASSUME WorkersAssumption == NoWorker \notin Workers
ASSUME AttemptsAssumption == MaxAttempts \in Nat \ {0}
ASSUME TicksAssumption == LeaseTicks \in Nat \ {0} /\ RetryTicks \in Nat
ASSUME SkewAssumption == Skew \in [Workers -> Nat] /\ ApiSkew \in Nat

JobStatus == {"ABSENT", "READY", "RUNNING", "COMPLETED", "FAILED", "CANCELLED"}

JobRow == [status   : JobStatus,
           delay    : Nat,
           attempts : 0 .. MaxAttempts,
           owner    : Workers \cup {NoWorker},
           exec     : 0 .. MaxAttempts,
           ttl      : Nat]

AbsentJob == [status |-> "ABSENT", delay |-> 0, attempts |-> 0,
              owner |-> NoWorker, exec |-> 0, ttl |-> 0]

\* BuildJobService.enqueue: a READY row, available at the API's present.
EnqueuedJob == [status |-> "READY", delay |-> ApiSkew, attempts |-> 0,
                owner |-> NoWorker, exec |-> 0, ttl |-> 0]

(***************************************************************************)
(* What a claim may take: READY and available, or RUNNING and expired, on  *)
(* the clock of the claiming worker.                                       *)
(***************************************************************************)
IsReady(row, w) == row.status = "READY" /\ row.delay <= Skew[w]

IsExpired(row, w) == row.status = "RUNNING" /\ row.ttl <= Skew[w]

\* _ownership: the row still carries this execution and the lease has not
\* run out on the worker's own clock.
Owned(row, w, e) ==
    /\ row.status = "RUNNING"
    /\ row.owner = w
    /\ row.exec = e
    /\ row.ttl > Skew[w]

(***************************************************************************)
(* Row updates.  available_at is read only while the row is READY, so     *)
(* delay is cleared everywhere else.                                       *)
(***************************************************************************)
ClaimedJob(row, w) ==
    [status |-> "RUNNING", delay |-> 0, attempts |-> row.attempts + 1,
     owner |-> w, exec |-> row.attempts + 1, ttl |-> LeaseTicks + Skew[w]]

RenewedJob(row, w) ==
    [status |-> row.status, delay |-> row.delay, attempts |-> row.attempts,
     owner |-> row.owner, exec |-> row.exec, ttl |-> LeaseTicks + Skew[w]]

RequeuedJob(row, w) ==
    [status |-> "READY", delay |-> RetryTicks + Skew[w], attempts |-> row.attempts,
     owner |-> NoWorker, exec |-> 0, ttl |-> 0]

\* COMPLETED, FAILED and CANCELLED all clear the lease columns; a READY row
\* that cancelReadyBuildJob closes has none to clear.
ClosedJob(row, s) ==
    [status |-> s, delay |-> 0, attempts |-> row.attempts,
     owner |-> NoWorker, exec |-> 0, ttl |-> 0]

\* One tick of every clock.
Sooner(n) == IF n = 0 THEN 0 ELSE n - 1

TickedJob(row) ==
    [status |-> row.status, delay |-> Sooner(row.delay), attempts |-> row.attempts,
     owner |-> row.owner, exec |-> row.exec, ttl |-> Sooner(row.ttl)]

(***************************************************************************)
(* The lease a worker carries through its pipeline (JobLease); subject 0   *)
(* means that the worker holds none.                                       *)
(***************************************************************************)
NoLease == [subject |-> 0, exec |-> 0, reclaimed |-> FALSE, prev |-> 0]

LeaseOf(s, row) ==
    [subject   |-> s,
     exec      |-> row.attempts + 1,
     reclaimed |-> row.status = "RUNNING",
     prev      |-> IF row.status = "RUNNING" THEN row.exec ELSE 0]
=============================================================================
