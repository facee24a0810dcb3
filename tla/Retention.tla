------------------------------ MODULE Retention ------------------------------
(***************************************************************************)
(* Downloads of finished artifacts (ArtifactService) against the retention *)
(* job that deletes expired ones (ArtifactRetentionJob).  A download runs  *)
(* in two transactions with the HTTP response between them: the first      *)
(* locks the artifact row and writes a download record, the second opens   *)
(* the object and completes the record.  The retention job locks a batch   *)
(* of rows, deletes their objects one by one and commits cleaned_at at the *)
(* end, so a rollback leaves rows behind whose objects are gone.           *)
(*                                                                         *)
(* The data source sets no isolation level, so a transaction runs under    *)
(* MySQL's REPEATABLE READ: the job's first plain read, of the switch,     *)
(* fixes its snapshot.  claimExpired locks the current artifact rows, but  *)
(* its subquery on download_records carries no locking clause of its own   *)
(* and reads the snapshot.                                                 *)
(*                                                                         *)
(* Time is relative: ttl is expires_at minus the present, left is what     *)
(* remains of a download lease, both cut at zero.  The job reads its clock *)
(* just before it claims; a slightly older present only shrinks the claim, *)
(* so both are one step.                                                   *)
(***************************************************************************)
EXTENDS Naturals, FiniteSets

CONSTANTS
    NumArtifacts,   \* rows of artifacts, numbered by expires_at, id
    Expiry,         \* ticks until each of them expires
    NumDownloads,   \* download calls (a bound)
    Instances,      \* API processes, each with its own scheduler
    BatchSize,      \* wheelforge.retention.batch-size
    LeaseTicks,     \* wheelforge.retention.active-download-lease-seconds
    Broken,         \* artifacts whose object cannot be deleted
    MaxFaults       \* transient faults of the job (a bound)

Artifacts == 1 .. NumArtifacts
Downloads == 1 .. NumDownloads

ASSUME CountsAssumption ==
    NumArtifacts \in Nat /\ NumDownloads \in Nat /\ MaxFaults \in Nat
ASSUME ExpiryAssumption ==
    /\ Expiry \in [Artifacts -> Nat]
    /\ \A a, b \in Artifacts : a <= b => Expiry[a] <= Expiry[b]
ASSUME LimitsAssumption == BatchSize \in Nat \ {0} /\ LeaseTicks \in Nat \ {0}
ASSUME BrokenAssumption == Broken \subseteq Artifacts

VARIABLES
    ttl,          \* artifacts.expires_at, relative
    cleaned,      \* the artifacts with cleaned_at set
    files,        \* the artifacts whose object is in storage
    record,       \* download_records
    stream,       \* how far each download call has come
    sweep,        \* each instance's transaction: whether it has begun, the
                  \* unfinished downloads in its snapshot, the rows it locked,
                  \* those still to do and those marked
    enabled,      \* system_configs.retentionEnabled
    faults        \* transient faults so far

vars == <<ttl, cleaned, files, record, stream, sweep, enabled, faults>>
dbVars == <<ttl, cleaned, record, enabled>>

\* artifact 0: the record is not written yet.
DownloadRecord == [artifact : 0 .. NumArtifacts, left : 0 .. LeaseTicks,
                   completed : BOOLEAN]
Sweep == [begun : BOOLEAN, seen : SUBSET Downloads, rows : SUBSET Artifacts,
          todo : SUBSET Artifacts, marked : SUBSET Artifacts]
NoSweep == [begun |-> FALSE, seen |-> {}, rows |-> {}, todo |-> {}, marked |-> {}]

TypeOK ==
    /\ ttl \in [Artifacts -> Nat]
    /\ cleaned \subseteq Artifacts
    /\ files \subseteq Artifacts
    /\ record \in [Downloads -> DownloadRecord]
    /\ stream \in [Downloads -> {"none", "ticket", "open", "ended"}]
    /\ sweep \in [Instances -> Sweep]
    /\ enabled \in BOOLEAN
    /\ faults \in 0 .. MaxFaults

Init ==
    /\ ttl = Expiry
    /\ cleaned = {}
    /\ files = Artifacts
    /\ record = [d \in Downloads |-> [artifact |-> 0, left |-> 0, completed |-> FALSE]]
    /\ stream = [d \in Downloads |-> "none"]
    /\ sweep = [i \in Instances |-> NoSweep]
    /\ enabled = TRUE
    /\ faults = 0
-----------------------------------------------------------------------------
(***************************************************************************)
(* A download.                                                             *)
(***************************************************************************)
Locked(a) == \E i \in Instances : a \in sweep[i].rows

Available(a) == ttl[a] > 0 /\ a \notin cleaned

\* Mutant: the lease runs one tick too long.
NewRecordOverlong(a) == [artifact |-> a, left |-> LeaseTicks + 1, completed |-> FALSE]

NewRecord(a) == [artifact |-> a, left |-> LeaseTicks, completed |-> FALSE]

\* prepareDownload; it waits for the row's lock.  download_count counts the
\* records and is written by nothing else.
PrepareDownload(d, a) ==
    /\ stream[d] = "none"
    /\ ~Locked(a)
    /\ Available(a)
    /\ record' = [record EXCEPT ![d] = NewRecord(a)]
    /\ stream' = [stream EXCEPT ![d] = "ticket"]
    /\ UNCHANGED <<ttl, cleaned, files, sweep, enabled, faults>>

\* stream begins: the object is opened, without a look at the row.  Once
\* open, deleting the name does not disturb the reader.
OpenObject(d) ==
    /\ stream[d] = "ticket"
    /\ stream' = [stream EXCEPT ![d] =
                    IF record[d].artifact \in files THEN "open" ELSE "ended"]
    /\ UNCHANGED <<dbVars, files, sweep, faults>>

CompletedRecord(r) ==
    [artifact |-> r.artifact, left |-> r.left, completed |-> TRUE]

\* The verified copy is out: markCompleted.
CompleteStream(d) ==
    /\ stream[d] = "open"
    /\ stream' = [stream EXCEPT ![d] = "ended"]
    /\ record' = [record EXCEPT ![d] = CompletedRecord(@)]
    /\ UNCHANGED <<ttl, cleaned, files, sweep, enabled, faults>>

\* The client goes away or the copy fails: the record stays incomplete.
AbandonStream(d) ==
    /\ stream[d] \in {"ticket", "open"}
    /\ stream' = [stream EXCEPT ![d] = "ended"]
    /\ UNCHANGED <<dbVars, files, sweep, faults>>
-----------------------------------------------------------------------------
(***************************************************************************)
(* The retention job.                                                      *)
(***************************************************************************)
\* The record of a download under way whose lease has not run out.
Leased(d) == record[d].artifact # 0 /\ ~record[d].completed /\ record[d].left > 0

\* scheduledCleanup begins: the switch is read and the snapshot fixed.
ReadSwitch(i) ==
    /\ ~sweep[i].begun
    /\ enabled
    /\ sweep' = [sweep EXCEPT ![i] =
                   [begun |-> TRUE,
                    seen |-> {d \in Downloads : record[d].artifact # 0
                                                   /\ ~record[d].completed},
                    rows |-> {}, todo |-> {}, marked |-> {}]]
    /\ UNCHANGED <<dbVars, files, stream, faults>>

\* The "not exists" of claimExpired fails.
ActiveDownload(i, a) ==
    \E d \in sweep[i].seen : record[d].artifact = a /\ record[d].left > 0

\* Mutant: downloads under way are not looked at.
EligibleIgnoringDownloads(i) ==
    {a \in Artifacts : ttl[a] = 0 /\ a \notin cleaned /\ ~Locked(a)}

\* Mutant: cleaned rows are claimed again.
EligibleAgain(i) ==
    {a \in Artifacts : ttl[a] = 0 /\ ~ActiveDownload(i, a) /\ ~Locked(a)}

\* Mutant: the cutoff is off by one.
EligibleEarly(i) ==
    {a \in Artifacts : /\ ttl[a] <= 1 /\ a \notin cleaned
                       /\ ~ActiveDownload(i, a) /\ ~Locked(a)}

\* The rows claimExpired selects before its limit; SKIP LOCKED.
Eligible(i) ==
    {a \in Artifacts : /\ ttl[a] = 0 /\ a \notin cleaned
                       /\ ~ActiveDownload(i, a) /\ ~Locked(a)}

\* order by expires_at, id limit :batchSize.
Batch(i) ==
    {a \in Eligible(i) : Cardinality({b \in Eligible(i) : b < a}) < BatchSize}

ClaimedSweep(i) ==
    [begun |-> TRUE, seen |-> sweep[i].seen, rows |-> Batch(i), todo |-> Batch(i),
     marked |-> {}]

\* The batch is locked; an empty one ends the transaction.
ClaimExpired(i) ==
    /\ sweep[i].begun /\ sweep[i].rows = {}
    /\ sweep' = [sweep EXCEPT ![i] =
                   IF Batch(i) = {} THEN NoSweep ELSE ClaimedSweep(i)]
    /\ UNCHANGED <<dbVars, files, stream, faults>>

\* The loop takes the rows in the query's order.
IsNextRow(i, a) == a \in sweep[i].todo /\ \A b \in sweep[i].todo : a <= b

\* The loop goes on to the next row with these rows marked.
LoopOn(i, a, marked) ==
    sweep' = [sweep EXCEPT ![i] =
                [begun |-> TRUE, seen |-> @.seen, rows |-> @.rows,
                 todo |-> @.todo \ {a}, marked |-> marked]]

\* deleteIfExists returns, object or not, and the row is marked.
DeleteObject(i, a) ==
    /\ IsNextRow(i, a)
    /\ a \notin Broken
    /\ files' = files \ {a}
    /\ LoopOn(i, a, sweep[i].marked \cup {a})
    /\ UNCHANGED <<dbVars, stream, faults>>

\* Mutant: markCleaned in a finally block.
MarkedAnyway(i, a) == sweep[i].marked \cup {a}

\* The row of a delete that threw stays unmarked.
MarkedAfterThrow(i, a) == sweep[i].marked

\* deleteIfExists throws: always for a broken key, now and then for others,
\* and then before or after the object itself is gone (the directories above
\* it are pruned in the same call).  The loop catches it.
DeleteThrows(i, a) ==
    /\ IsNextRow(i, a)
    /\ \/ /\ a \in Broken
          /\ UNCHANGED <<files, faults>>
       \/ /\ a \notin Broken
          /\ faults < MaxFaults
          /\ faults' = faults + 1
          /\ files' \in {files, files \ {a}}
    /\ LoopOn(i, a, MarkedAfterThrow(i, a))
    /\ UNCHANGED <<dbVars, stream>>

CommitSweep(i) ==
    /\ sweep[i].rows # {} /\ sweep[i].todo = {}
    /\ cleaned' = cleaned \cup sweep[i].marked
    /\ sweep' = [sweep EXCEPT ![i] = NoSweep]
    /\ UNCHANGED <<ttl, files, record, stream, enabled, faults>>

\* The process dies, or the transaction fails: nothing is marked.
RollBackSweep(i) ==
    /\ faults < MaxFaults
    /\ sweep[i].begun
    /\ sweep' = [sweep EXCEPT ![i] = NoSweep]
    /\ faults' = faults + 1
    /\ UNCHANGED <<dbVars, files, stream>>
-----------------------------------------------------------------------------
\* An administrator turns retention on or off.
SwitchRetention ==
    /\ enabled' = ~enabled
    /\ UNCHANGED <<ttl, cleaned, files, record, stream, sweep, faults>>

Less(n) == IF n = 0 THEN 0 ELSE n - 1

Tick ==
    /\ ttl' = [a \in Artifacts |-> Less(ttl[a])]
    /\ record' = [d \in Downloads |->
                    [artifact |-> record[d].artifact, left |-> Less(record[d].left),
                     completed |-> record[d].completed]]
    /\ <<ttl, record>>' # <<ttl, record>>
    /\ UNCHANGED <<cleaned, files, stream, sweep, enabled, faults>>

Download(d) ==
    \/ \E a \in Artifacts : PrepareDownload(d, a)
    \/ OpenObject(d) \/ CompleteStream(d) \/ AbandonStream(d)

CleanUp(i) ==
    \/ ReadSwitch(i) \/ ClaimExpired(i) \/ CommitSweep(i)
    \/ \E a \in Artifacts : DeleteObject(i, a) \/ DeleteThrows(i, a)

Next ==
    \/ \E d \in Downloads : Download(d)
    \/ \E i \in Instances : CleanUp(i) \/ RollBackSweep(i)
    \/ SwitchRetention
    \/ Tick

Spec == Init /\ [][Next]_vars

(***************************************************************************)
(* The scheduler fires again after every sweep, and clocks run.  Nothing   *)
(* obliges anybody to download.                                            *)
(***************************************************************************)
Fairness == (\A i \in Instances : WF_vars(CleanUp(i))) /\ WF_vars(Tick)

FairSpec == Spec /\ Fairness
-----------------------------------------------------------------------------
(***************************************************************************)
(* Properties.                                                             *)
(***************************************************************************)
\* As long as the lease of an unfinished download runs, its object is there.
LeaseKeepsObject == \A d \in Downloads : Leased(d) => record[d].artifact \in files

\* An object under lease is deleted only by a sweep that had begun before the
\* ticket was handed out: a download the sweep could know of is never cut off,
\* even if the artifact expired meanwhile and other downloads of it ended.
KnownLeaseKept ==
    [][\A d \in Downloads :
          Leased(d) /\ record[d].artifact \in files \ files' =>
             \E i \in Instances : /\ record[d].artifact \in sweep[i].rows
                                  /\ d \notin sweep[i].seen]_vars

\* A ticket can be had only for an object that is there, also after sweeps
\* that deleted objects and were rolled back.
AvailableHasObject == \A a \in Artifacts : Available(a) => a \in files

\* A row is recorded as cleaned only when its object is gone for good.
CleanedIsGone == cleaned \cap files = {}

\* From the claim to the commit a locked row stays expired and no download of
\* the snapshot is active on it; a row is marked only when its turn is over
\* and its object is gone.
SweepIsSafe ==
    \A i \in Instances :
        /\ \A a \in sweep[i].rows : ttl[a] = 0 /\ ~ActiveDownload(i, a)
        /\ sweep[i].todo \subseteq sweep[i].rows
        /\ sweep[i].marked \subseteq sweep[i].rows \ files

\* If retention stays switched on and fewer objects than a batch takes cannot
\* be deleted, every other expired artifact is cleaned: the failed rows, which
\* claimExpired takes first each time, leave room for later ones.  With as many
\* of them as the batch holds the later rows wait for ever.
ExpiredCleaned ==
    Cardinality(Broken) < BatchSize /\ <>[]enabled =>
        \A a \in Artifacts \ Broken : ttl[a] = 0 ~> a \in cleaned
=============================================================================
