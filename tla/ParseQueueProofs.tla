-------------------------- MODULE ParseQueueProofs --------------------------
(***************************************************************************)
(* The safety of ParseQueue for any number of workers, files and attempts, *)
(* any lease length and any clock skew.                                    *)
(*                                                                         *)
(* The file row carries no execution id, so that the rows agree and that   *)
(* the holder of a lease finds its file PARSING are inductive only         *)
(* together, and with the order of the upload: the rows of a file do not   *)
(* exist before its commit (RowsFollowUpload), which therefore overwrites  *)
(* nothing a worker has written.                                           *)
(***************************************************************************)
EXTENDS ParseQueue, JobWorkerProofs

USE WorkersAssumption, AttemptsAssumption, TicksAssumption, SkewAssumption,
    SubjectsAssumption, CommitAssumption

Uncommitted(f) == upload[f] \in {"none", "stored"}

RowsFollowUpload == \A f \in Files : Uncommitted(f) => job[f].status = "ABSENT"

ParseInv ==
    /\ TypeOK
    /\ JobFileAgree
    /\ OwnerHoldsFile
    /\ RowsFollowUpload

(***************************************************************************)
(* The same, arranged by the file or the worker it is about.               *)
(***************************************************************************)
FileInv(f) ==
    /\ job[f].status = "ABSENT" <=> file[f] = "ABSENT"
    /\ job[f].status = "COMPLETED" <=> file[f] = "PARSED"
    /\ job[f].status = "FAILED" <=> file[f] = "FAILED"
    /\ Uncommitted(f) => job[f].status = "ABSENT"

HolderInv(w) == At(w, 1 .. 4) /\ Owns(w) => file[Subject(w)] = "PARSING"

\* The two arrangements say the same.
LEMMA Rearranged ==
    ParseInv <=> /\ TypeOK
                 /\ \A f \in Files : FileInv(f)
                 /\ \A w \in Workers : HolderInv(w)
BY DEF ParseInv, JobFileAgree, OwnerHoldsFile, RowsFollowUpload, FileInv, HolderInv

\* And in the next state.
LEMMA RearrangedNext ==
    ASSUME TypeOK', \A f \in Files : FileInv(f)', \A w \in Workers : HolderInv(w)'
    PROVE  ParseInv'
BY DEF ParseInv, JobFileAgree, OwnerHoldsFile, RowsFollowUpload, FileInv, HolderInv

\* Before the first upload the invariant holds.
LEMMA InitParseInv == Init => ParseInv
<1> SUFFICES ASSUME Init PROVE ParseInv
  OBVIOUS
<1>1. TypeOK
  <2>1. AbsentJob \in JobRow /\ NoLease \in LeaseRecord
    BY DEF AbsentJob, JobRow, JobStatus, NoLease, LeaseRecord, Execs
  <2>2. WorkerTypeOK
    BY <2>1 DEF Init, WorkerInit, WorkerTypeOK, Points, ClaimSubjectAt, Exits
  <2> QED BY <2>2 DEF Init, TypeOK, FileStatus
<1>2. ASSUME NEW f \in Files PROVE FileInv(f)
  BY DEF Init, WorkerInit, FileInv, AbsentJob, Files
<1>3. ASSUME NEW w \in Workers PROVE HolderInv(w)
  <2>1. Idle(w)
    BY DEF Init, WorkerInit, Idle, NoLease
  <2> QED BY <2>1 DEF HolderInv, At
<1> QED BY <1>1, <1>2, <1>3, Rearranged
-----------------------------------------------------------------------------
(***************************************************************************)
(* Type correctness.                                                       *)
(***************************************************************************)
\* A worker that is not idle works on a file, and settles rows as rows.
LEMMA Typed ==
    ASSUME TypeOK
    PROVE  /\ WorkerTypeOK
           /\ \A f \in Files : job[f] \in JobRow /\ file[f] \in FileStatus
           /\ \A w \in Workers : ~Idle(w) => Subject(w) \in Files /\ Exec(w) \in Execs
           /\ \A s \in FileStatus : FailedFile(s) \in FileStatus /\ ResetFile(s) \in FileStatus
<1>1. WorkerTypeOK
  BY DEF TypeOK
<1>2. \A f \in Files : job[f] \in JobRow /\ file[f] \in FileStatus
  BY DEF TypeOK, WorkerTypeOK, Files
<1>3. \A w \in Workers : ~Idle(w) => Subject(w) \in Files /\ Exec(w) \in Execs
  BY <1>1 DEF WorkerTypeOK, LeaseRecord, Idle, Subject, Exec, Files, Subjects
<1>4. \A s \in FileStatus : FailedFile(s) \in FileStatus /\ ResetFile(s) \in FileStatus
  BY DEF FailedFile, ResetFile, FileStatus, Parsed
<1> QED BY <1>1, <1>2, <1>3, <1>4

\* One step keeps the types.
LEMMA NextTypeOK == TypeOK /\ [Next]_vars => TypeOK'
<1> SUFFICES ASSUME TypeOK, [Next]_vars PROVE TypeOK'
  OBVIOUS
<1> DEFINE Rest == /\ job' \in [Files -> JobRow]
                   /\ file' \in [Files -> FileStatus]
                   /\ upload' \in [Files -> {"none", "stored", "unknown", "ended"}]
                   /\ original' \subseteq Files
                   /\ normalized' \subseteq Files
<1>q. WorkerTyped /\ Rest => TypeOK'
  BY DEF WorkerTyped, TypeOK, WorkerTypeOK, Files
<1>t. /\ job \in [Files -> JobRow]
      /\ file \in [Files -> FileStatus]
      /\ upload \in [Files -> {"none", "stored", "unknown", "ended"}]
      /\ original \subseteq Files
      /\ normalized \subseteq Files
  BY DEF TypeOK, WorkerTypeOK, Files
<1>w. WorkerTypeOK
  BY Typed
<1>x. {"none", "done", "lost", "retry", "last"} \subseteq Exits
  BY DEF Exits
<1>c. \A f \in Files, s \in {"COMPLETED", "FAILED"} : ClosedJob(job[f], s) \in JobRow
  BY Typed DEF ClosedJob, JobRow, JobStatus
<1>1. ASSUME NEW f \in Files, Upload(f) PROVE TypeOK'
  <2>1. EnqueuedJob \in JobRow
    BY DEF EnqueuedJob, JobRow, JobStatus
  <2>2. Rest /\ UNCHANGED workerVars
    BY <1>1, <1>t, <2>1
       DEF Upload, PutOriginal, CommitUpload, CleanUpUpload, CrashUpload, FileStatus
  <2> QED BY <1>q, <1>w, <2>2 DEF WorkerTyped, WorkerTypeOK, workerVars
<1>2. ASSUME NEW w \in Workers, NEW f \in Files, ClaimNext(w, f) PROVE TypeOK'
  <2>1. ClaimedJob(job[f], w) \in JobRow
    BY <1>2, Typed, JobRowUpdates DEF ClaimNext, TakeJob
  <2>2. LeaseOf(f, job[f]) \in LeaseRecord
    BY <1>2, Typed DEF ClaimNext, TakeJob, LeaseOf, LeaseRecord, JobRow, Execs, Files, Subjects
  <2>3. Rest
    BY <1>2, <1>t, <2>1 DEF ClaimNext, TakeJob
  <2>4. WorkerTyped
    BY <1>2, <1>w, <2>2 DEF ClaimNext, TakeJob, WorkerTyped, WorkerTypeOK, Points, ClaimSubjectAt
  <2> QED BY <1>q, <2>3, <2>4
<1>3. ASSUME NEW w \in Workers, NEW f \in Files, TerminalizeExhausted(w, f) PROVE TypeOK'
  <2>1. Rest
    BY <1>3, <1>t, <1>c, Typed DEF TerminalizeExhausted, CloseExhausted
  <2> QED BY <1>3, <1>q, <1>w, <2>1, WorkerMoves DEF TerminalizeExhausted, CloseExhausted
<1>4. ASSUME NEW w \in Workers, ClaimSubject(w) PROVE TypeOK'
  <2>1. Subject(w) \in Files /\ pc[w] < 18 /\ (Drop(w) \/ Step(w))
    BY <1>4, Typed DEF ClaimSubject, At, ClaimSubjectAt
  <2>2. "PARSING" \in FileStatus
    BY DEF FileStatus
  <2>3. Rest
    BY <1>4, <1>t, <1>c, <2>1, <2>2, Typed DEF ClaimSubject
  <2> QED BY <1>q, <1>w, <2>1, <2>3, WorkerMoves
<1>5. ASSUME NEW w \in Workers, ReadOriginal(w) \/ ReuseNormalized(w) PROVE TypeOK'
  <2>1. pc[w] < 18 /\ (Step(w) \/ StepPublished(w) \/ Leave(w, "retry"))
    BY <1>5 DEF ReadOriginal, ReuseNormalized, At, ReadAt, ReuseAt
  <2>2. Rest
    BY <1>5, <1>t DEF ReadOriginal, ReuseNormalized
  <2> QED BY <1>q, <1>w, <1>x, <2>1, <2>2, WorkerMoves
<1>6. ASSUME NEW w \in Workers, PublishNormalized(w) PROVE TypeOK'
  <2>1. Subject(w) \in Files
    BY <1>6, Typed DEF PublishNormalized, At
  <2>2. Rest
    BY <1>6, <1>t, <2>1 DEF PublishNormalized
  <2>3. CASE Step(w)
    <3>1. pc[w] < 18
      BY <1>6 DEF PublishNormalized, At, PublishAt
    <3> QED BY <1>q, <1>w, <2>2, <2>3, <3>1, WorkerMoves
  <2>4. CASE /\ pc' = [pc EXCEPT ![w] = CompleteAt]
             /\ published' = [published EXCEPT ![w] = TRUE]
             /\ UNCHANGED <<lease, exit>>
    <3>1. WorkerTyped
      BY <1>w, <2>4 DEF WorkerTyped, WorkerTypeOK, CompleteAt, Points
    <3> QED BY <1>q, <2>2, <3>1
  <2> QED BY <1>6, <2>3, <2>4 DEF PublishNormalized
<1>7. ASSUME NEW w \in Workers, CompleteParse(w) \/ CompleteUnacknowledged(w) PROVE TypeOK'
  <2>1. /\ Subject(w) \in Files /\ "PARSED" \in FileStatus
        /\ Drop(w) \/ Leave(w, "lost") \/ Leave(w, "retry")
    BY <1>7, Typed DEF CompleteParse, CompleteUnacknowledged, At, FileStatus, Parsed
  <2>2. Rest
    BY <1>7, <1>t, <1>c, <2>1 DEF CompleteParse, CompleteUnacknowledged, CompleteRows
  <2> QED BY <1>q, <1>w, <1>x, <2>1, <2>2, WorkerMoves
<1>8. ASSUME NEW w \in Workers, NEW e \in Exits, Raise(w, e) PROVE TypeOK'
  <2>1. Rest /\ Leave(w, e)
    BY <1>8, <1>t DEF Raise
  <2> QED BY <1>q, <1>w, <2>1, WorkerMoves
<1>9. ASSUME NEW w \in Workers, Compensate(w) PROVE TypeOK'
  <2>1. Rest /\ AfterCompensation(w)
    BY <1>9, <1>t DEF Compensate
  <2> QED BY <1>q, <1>w, <2>1, WorkerMoves
<1>10. ASSUME NEW w \in Workers, Settle(w) PROVE TypeOK'
  <2>1. Subject(w) \in Files /\ Drop(w)
    BY <1>10, Typed DEF Settle, SettleJob, At
  <2>2. RequeuedJob(job[Subject(w)], w) \in JobRow
    BY <2>1, Typed, JobRowUpdates
  <2>3. SettledFile(w) \in FileStatus
    BY <2>1, Typed DEF SettledFile
  <2>4. Rest
    BY <1>10, <1>t, <1>c, <2>1, <2>2, <2>3 DEF Settle, SettleJob
  <2> QED BY <1>q, <1>w, <2>1, <2>4, WorkerMoves
<1>11. ASSUME NEW w \in Workers, SettleRaises(w) \/ Crash(w),
              UNCHANGED <<file, upload, original, normalized>>
       PROVE  TypeOK'
  <2>1. Rest /\ (Drop(w) \/ GoTo(w, SettleAt, "last"))
    BY <1>11, <1>t DEF SettleRaises, Crash
  <2>2. SettleAt \in Points
    BY DEF SettleAt, Points
  <2> QED BY <1>q, <1>w, <1>x, <2>1, <2>2, WorkerMoves
<1>12. CASE Tick
  <2>1. \A f \in Files : TickedJob(job[f]) \in JobRow
    BY Typed DEF TickedJob, Sooner, JobRow
  <2>2. Rest
    BY <1>12, <1>t, <2>1 DEF Tick, AdvanceClocks, Files
  <2> QED BY <1>12, <1>q, <1>w, <2>2 DEF Tick, AdvanceClocks, WorkerTyped, WorkerTypeOK, workerVars
<1>13. CASE UNCHANGED vars
  BY <1>13, <1>q, <1>t, <1>w DEF vars, WorkerTyped, WorkerTypeOK
<1> QED BY <1>1, <1>2, <1>3, <1>4, <1>5, <1>6, <1>7, <1>8, <1>9, <1>10, <1>11, <1>12, <1>13
        DEF Next, Claim, Forward, Fault
-----------------------------------------------------------------------------
(***************************************************************************)
(* Frames.                                                                 *)
(***************************************************************************)
\* The rows of file g are the same after the step, and its upload does not
\* go back.
RowsKept(g) ==
    /\ job'[g] = job[g]
    /\ file'[g] = file[g]
    /\ Uncommitted(g)' => Uncommitted(g)

\* A step that changes the rows of one file and takes its lease from
\* everybody whose part of the invariant is not shown otherwise.
LEMMA OneFileStep ==
    ASSUME ParseInv, TypeOK', NEW f \in Files,
           \A g \in Files \ {f} : RowsKept(g),
           FileInv(f)',
           \A v \in Workers :
              \/ HolderInv(v)'
              \/ Stays(v) /\ ~(job'[f].status = "RUNNING" /\ job'[f].owner = v)
    PROVE  ParseInv'
<1>1. TypeOK /\ (\A g \in Files : FileInv(g)) /\ (\A v \in Workers : HolderInv(v))
  BY Rearranged
<1>2. ASSUME NEW g \in Files PROVE FileInv(g)'
  BY <1>1 DEF RowsKept, FileInv
<1>3. ASSUME NEW v \in Workers PROVE HolderInv(v)'
  <2> SUFFICES ASSUME Stays(v), ~(job'[f].status = "RUNNING" /\ job'[f].owner = v),
                      At(v, 1 .. 4)', Owns(v)'
               PROVE  file'[Subject(v)'] = "PARSING"
    BY DEF HolderInv
  <2>1. Subject(v)' = Subject(v) /\ Exec(v)' = Exec(v) /\ At(v, 1 .. 4)
    BY DEF Stays, Subject, Exec, At, Idle
  <2>2. Subject(v) \in Files \ {f}
    BY <1>1, <2>1, Typed DEF At, Owns, Owned
  <2>3. RowsKept(Subject(v)) /\ Owns(v)
    BY <2>1, <2>2 DEF RowsKept, Owns, Owned
  <2> QED BY <1>1, <2>1, <2>3 DEF HolderInv, RowsKept
<1> QED BY <1>2, <1>3, RearrangedNext

\* A step of one worker that writes no row.
LEMMA QuietStep ==
    ASSUME ParseInv, TypeOK', NEW w \in Workers, UNCHANGED <<job, file, upload>>,
           \A v \in Workers \ {w} : Stays(v),
           HolderInv(w)'
    PROVE  ParseInv'
<1>1. (\A g \in Files : FileInv(g)) /\ (\A v \in Workers : HolderInv(v))
  BY Rearranged
<1>2. ASSUME NEW g \in Files PROVE FileInv(g)'
  BY <1>1 DEF FileInv, Uncommitted
<1>3. ASSUME NEW v \in Workers PROVE HolderInv(v)'
  BY <1>1 DEF HolderInv, Stays, At, Idle, Owns, Subject, Exec
<1> QED BY <1>2, <1>3, RearrangedNext

\* A worker that is idle, or out of the parse, holds nothing.
LEMMA HolderGone ==
    ASSUME NEW w \in Workers, lease'[w].subject = 0 \/ pc'[w] \in {0, 17, 18}
    PROVE  HolderInv(w)'
BY DEF HolderInv, At, Idle

\* The file of a job that is handed out, or held, has been uploaded and is
\* not settled.
LEMMA OpenFile ==
    ASSUME ParseInv, NEW f \in Files, job[f].status \in {"READY", "RUNNING"}
    PROVE  file[f] \in {"PENDING", "PARSING"} /\ ~Uncommitted(f)
<1>1. FileInv(f) /\ file[f] \in FileStatus
  BY Rearranged, Typed
<1> QED BY <1>1 DEF FileInv, FileStatus, Parsed

\* What the holder of a lease may rely on.
LEMMA OwnerFacts ==
    ASSUME ParseInv, NEW w \in Workers, ~Idle(w), Owns(w)
    PROVE  /\ Subject(w) \in Files
           /\ job[Subject(w)].status = "RUNNING" /\ job[Subject(w)].owner = w
           /\ file[Subject(w)] \in {"PENDING", "PARSING"}
           /\ ~Uncommitted(Subject(w))
<1>1. Subject(w) \in Files
  BY Typed DEF ParseInv
<1> QED BY <1>1, OpenFile DEF Owns, Owned

\* A worker that gives up its lease, or leaves the parse, and changes nothing
\* else but the rows of its own file.
LEMMA LastStep ==
    ASSUME ParseInv, TypeOK', NEW w \in Workers, NEW f \in Files, UNCHANGED upload,
           lease'[w].subject = 0 \/ pc'[w] \in {0, 17, 18},
           \A v \in Workers \ {w} : Stays(v),
           NEW row, NEW s,
           job' = [job EXCEPT ![f] = row], file' = [file EXCEPT ![f] = s],
           row.owner = NoWorker,
           FileInv(f)'
    PROVE  ParseInv'
<1>1. job \in [Files -> JobRow] /\ file \in [Files -> FileStatus]
  BY DEF ParseInv, TypeOK, WorkerTypeOK, Files
<1>2. \A g \in Files \ {f} : RowsKept(g)
  BY <1>1 DEF RowsKept, Uncommitted
<1>3. job'[f].owner = NoWorker
  BY <1>1
<1>4. HolderInv(w)'
  BY HolderGone
<1> QED BY <1>2, <1>3, <1>4, OneFileStep DEF WorkersAssumption
-----------------------------------------------------------------------------
(***************************************************************************)
(* The steps.                                                              *)
(***************************************************************************)
\* An upload, its clean-up and a crash of the API preserve the invariant: the
\* commit writes rows no worker has seen.
LEMMA UploadStep ==
    ASSUME ParseInv, TypeOK', NEW f \in Files, Upload(f)
    PROVE  ParseInv'
<1>0. /\ job \in [Files -> JobRow] /\ file \in [Files -> FileStatus]
      /\ upload \in [Files -> {"none", "stored", "unknown", "ended"}]
      /\ FileInv(f)
  BY Rearranged DEF ParseInv, TypeOK, WorkerTypeOK, Files
<1>1. \A v \in Workers : Stays(v)
  BY DEF Upload, PutOriginal, CommitUpload, CleanUpUpload, CrashUpload, Stays, workerVars
<1>2. CASE CommitUpload(f)
  <2>1. job'[f] = EnqueuedJob /\ file'[f] = "PENDING" /\ upload'[f] \in {"ended", "unknown"}
    BY <1>0, <1>2 DEF CommitUpload
  <2>2. FileInv(f)'
    BY <2>1 DEF FileInv, Uncommitted, EnqueuedJob
  <2>3. \A g \in Files \ {f} : RowsKept(g)
    BY <1>0, <1>2 DEF CommitUpload, RowsKept, Uncommitted
  <2> QED BY <1>1, <2>1, <2>2, <2>3, OneFileStep DEF EnqueuedJob
<1>3. CASE PutOriginal(f) \/ CleanUpUpload(f) \/ CrashUpload(f)
  <2>1. UNCHANGED <<job, file>> /\ \A g \in Files : Uncommitted(g)' => Uncommitted(g)
    BY <1>0, <1>3 DEF PutOriginal, CleanUpUpload, CrashUpload, Uncommitted
  <2>2. \A g \in Files : FileInv(g)'
    BY <2>1, Rearranged DEF FileInv
  <2>3. \A v \in Workers : HolderInv(v)'
    BY <1>1, <2>1, Rearranged DEF HolderInv, Stays, At, Idle, Owns, Subject, Exec
  <2> QED BY <2>2, <2>3, RearrangedNext
<1> QED BY <1>2, <1>3 DEF Upload

\* claim_next hands out a READY or an expired job; the worker it displaces
\* loses the lease with it.
LEMMA ClaimStep ==
    ASSUME ParseInv, TypeOK', NEW w \in Workers, Claim(w)
    PROVE  ParseInv'
<1>0. job \in [Files -> JobRow] /\ file \in [Files -> FileStatus]
  BY DEF ParseInv, TypeOK, WorkerTypeOK, Files
<1>1. PICK f \in Files : ClaimNext(w, f) \/ TerminalizeExhausted(w, f)
  BY DEF Claim
<1>2. job[f].status \in {"READY", "RUNNING"}
  BY <1>1 DEF ClaimNext, TakeJob, TerminalizeExhausted, CloseExhausted, IsCandidate, ReadyFor,
              ExpiredFor, IsReady, IsExpired
<1>3. file[f] \in {"PENDING", "PARSING"} /\ ~Uncommitted(f)
  BY <1>2, OpenFile
<1>4. CASE ClaimNext(w, f)
  <2>1. job'[f].status = "RUNNING" /\ job'[f].owner = w /\ pc'[w] = 0
    BY <1>0, <1>4 DEF ClaimNext, TakeJob, ClaimedJob, ClaimSubjectAt, ParseInv, TypeOK,
                      WorkerTypeOK
  <2>2. \A g \in Files \ {f} : RowsKept(g)
    BY <1>0, <1>4 DEF ClaimNext, TakeJob, RowsKept, Uncommitted
  <2>3. FileInv(f)'
    BY <1>3, <1>4, <2>1 DEF ClaimNext, FileInv, Uncommitted
  <2>4. \A v \in Workers \ {w} : Stays(v)
    BY <1>4 DEF ClaimNext, TakeJob, Stays, ParseInv, TypeOK, WorkerTypeOK
  <2> QED BY <2>1, <2>2, <2>3, <2>4, HolderGone, OneFileStep
<1>5. CASE TerminalizeExhausted(w, f)
  <2>1. job'[f].status = "FAILED" /\ file'[f] = "FAILED"
    BY <1>0, <1>3, <1>5 DEF TerminalizeExhausted, CloseExhausted, ClosedJob, FailedFile, Parsed
  <2>2. \A g \in Files \ {f} : RowsKept(g)
    BY <1>0, <1>5 DEF TerminalizeExhausted, CloseExhausted, RowsKept, Uncommitted
  <2>3. FileInv(f)'
    BY <1>3, <1>5, <2>1 DEF TerminalizeExhausted, FileInv, Uncommitted
  <2>4. \A v \in Workers : Stays(v)
    BY <1>5 DEF TerminalizeExhausted, CloseExhausted, Stays, workerVars
  <2> QED BY <2>1, <2>2, <2>3, <2>4, OneFileStep
<1> QED BY <1>1, <1>4, <1>5

\* claim_parse_subject: the file becomes PARSING for the holder of the lease,
\* or ends with the job.
LEMMA ClaimSubjectStep ==
    ASSUME ParseInv, TypeOK', NEW w \in Workers, ClaimSubject(w)
    PROVE  ParseInv'
<1>0. /\ job \in [Files -> JobRow] /\ file \in [Files -> FileStatus] /\ WorkerTypeOK
      /\ ~Idle(w) /\ pc[w] = 0
  BY DEF ParseInv, TypeOK, WorkerTypeOK, Files, ClaimSubject, At, ClaimSubjectAt
<1>f. PICK f \in Files : f = Subject(w)
  BY <1>0, Typed DEF ParseInv
<1>1. CASE ~Owns(w) /\ Drop(w) /\ UNCHANGED <<job, file>>
  BY <1>0, <1>1, Moves, HolderGone, QuietStep DEF ClaimSubject
<1>2. CASE Owns(w) /\ file' = [file EXCEPT ![f] = "PARSING"] /\ Step(w) /\ UNCHANGED job
  <2>1. /\ f \in Files /\ file'[f] = "PARSING" /\ lease' = lease /\ ~Uncommitted(f)
        /\ job[f].status = "RUNNING" /\ job[f].owner = w
    BY <1>0, <1>f, <1>2, OwnerFacts, Moves
  <2>2. \A g \in Files \ {f} : RowsKept(g)
    BY <1>0, <1>2 DEF RowsKept, Uncommitted, ClaimSubject
  <2>3. FileInv(f)'
    BY <1>2, <2>1 DEF FileInv, Uncommitted, ClaimSubject
  <2>4. HolderInv(w)'
    BY <1>f, <2>1 DEF HolderInv, Subject
  <2>5. \A v \in Workers \ {w} : Stays(v) /\ job'[f].owner # v
    BY <1>0, <1>2, <2>1, Moves
  <2> QED BY <2>1, <2>2, <2>3, <2>4, <2>5, OneFileStep
<1>3. CASE /\ Owns(w) /\ Drop(w)
           /\ file' = [file EXCEPT ![f] = FailedFile(@)]
           /\ job' = [job EXCEPT ![f] = ClosedJob(@, "FAILED")]
  <2>1. f \in Files /\ ~Uncommitted(f) /\ file[f] \in {"PENDING", "PARSING"}
    BY <1>0, <1>f, <1>3, OwnerFacts
  <2>2. job'[f] = ClosedJob(job[f], "FAILED") /\ file'[f] = "FAILED"
    BY <1>0, <1>3, <2>1 DEF FailedFile, Parsed
  <2>3. FileInv(f)'
    BY <2>1, <2>2 DEF FileInv, Uncommitted, ClaimSubject, ClosedJob
  <2>4. ClosedJob(job[f], "FAILED").owner = NoWorker
    BY DEF ClosedJob
  <2> QED BY <1>0, <1>3, <2>1, <2>3, <2>4, Moves, LastStep DEF ClaimSubject
<1> QED BY <1>f, <1>1, <1>2, <1>3 DEF ClaimSubject

\* Reading, publishing, reusing and compensating write no row; a worker that
\* goes on in the parse was in it before.
LEMMA ParseStep ==
    ASSUME ParseInv, TypeOK', NEW w \in Workers,
           \/ ReadOriginal(w) \/ PublishNormalized(w) \/ ReuseNormalized(w)
           \/ Compensate(w) \/ \E e \in Exits : Raise(w, e)
    PROVE  ParseInv'
<1>0. WorkerTypeOK /\ HolderInv(w)
  BY Rearranged, Typed DEF ParseInv
<1>1. UNCHANGED <<job, file, upload>>
  BY DEF ReadOriginal, PublishNormalized, ReuseNormalized, Compensate, Raise
<1>2. CASE Compensate(w)
  BY <1>0, <1>1, <1>2, Moves, HolderGone, QuietStep DEF Compensate
<1>3. ASSUME NEW e, Leave(w, e) PROVE ParseInv'
  BY <1>0, <1>1, <1>3, Moves, HolderGone, QuietStep
<1>4. ASSUME At(w, 1 .. 4), lease' = lease, \A v \in Workers \ {w} : Stays(v) PROVE ParseInv'
  <2>1. HolderInv(w)'
    BY <1>0, <1>1, <1>4 DEF HolderInv, At, Idle, Owns, Subject, Exec
  <2> QED BY <1>1, <1>4, <2>1, QuietStep
<1>5. CASE At(w, 1 .. 4) /\ (Step(w) \/ StepPublished(w))
  BY <1>0, <1>4, <1>5, Moves
<1>6. CASE /\ At(w, 1 .. 4) /\ pc' = [pc EXCEPT ![w] = CompleteAt]
           /\ UNCHANGED <<lease, exit>>
  <2>1. \A v \in Workers \ {w} : Stays(v)
    BY <1>0, <1>6 DEF Stays, WorkerTypeOK
  <2> QED BY <1>4, <1>6, <2>1
<1>7. CASE ReadOriginal(w) \/ PublishNormalized(w) \/ ReuseNormalized(w)
  <2>1. At(w, 1 .. 4)
    BY <1>7 DEF ReadOriginal, PublishNormalized, ReuseNormalized, At, ReadAt, PublishAt, ReuseAt
  <2> QED BY <1>3, <1>5, <1>6, <1>7, <2>1 DEF ReadOriginal, PublishNormalized, ReuseNormalized
<1>8. CASE \E e \in Exits : Raise(w, e)
  BY <1>3, <1>8 DEF Raise
<1> QED BY <1>2, <1>7, <1>8

\* complete_parse ends both rows for the holder of the lease and changes
\* nothing for anybody else, whether its answer arrives or not.
LEMMA CompleteStep ==
    ASSUME ParseInv, TypeOK', NEW w \in Workers,
           CompleteParse(w) \/ CompleteUnacknowledged(w)
    PROVE  ParseInv'
<1>0. /\ job \in [Files -> JobRow] /\ file \in [Files -> FileStatus] /\ WorkerTypeOK
      /\ ~Idle(w) /\ UNCHANGED upload
  BY DEF ParseInv, TypeOK, WorkerTypeOK, Files, CompleteParse, CompleteUnacknowledged, At
<1>f. PICK f \in Files : f = Subject(w)
  BY <1>0, Typed DEF ParseInv
<1>1. CASE Leave(w, "lost") /\ UNCHANGED <<file, job>>
  BY <1>0, <1>1, Moves, HolderGone, QuietStep
<1>2. CASE CanComplete(w) /\ CompleteRows(w) /\ (Drop(w) \/ Leave(w, "retry"))
  <2>1. ~Uncommitted(f)
    BY <1>0, <1>f, <1>2, OwnerFacts DEF CanComplete
  <2>2. /\ job' = [job EXCEPT ![f] = ClosedJob(job[f], "COMPLETED")]
        /\ file' = [file EXCEPT ![f] = "PARSED"]
    BY <1>0, <1>f, <1>2 DEF CompleteRows
  <2>3. job'[f] = ClosedJob(job[f], "COMPLETED") /\ file'[f] = "PARSED"
    BY <1>0, <2>2
  <2>4. FileInv(f)'
    BY <1>0, <2>1, <2>3 DEF FileInv, Uncommitted, ClosedJob
  <2>5. ClosedJob(job[f], "COMPLETED").owner = NoWorker
    BY DEF ClosedJob
  <2> QED BY <1>0, <1>2, <2>2, <2>4, <2>5, Moves, LastStep
<1> QED BY <1>1, <1>2 DEF CompleteParse, CompleteUnacknowledged

\* retry_or_fail and fail_terminal move both rows together, and only for the
\* holder of the lease.
LEMMA SettleStep ==
    ASSUME ParseInv, TypeOK', NEW w \in Workers, Settle(w)
    PROVE  ParseInv'
<1>0. /\ job \in [Files -> JobRow] /\ file \in [Files -> FileStatus] /\ WorkerTypeOK
      /\ ~Idle(w) /\ UNCHANGED upload /\ Drop(w)
  BY DEF ParseInv, TypeOK, WorkerTypeOK, Files, Settle, SettleJob, At
<1>f. PICK f \in Files : f = Subject(w)
  BY <1>0, Typed DEF ParseInv
<1>1. CASE ~Owns(w)
  <2>1. UNCHANGED <<job, file>>
    BY <1>0, <1>f, <1>1 DEF Settle, SettleJob, SettledFile
  <2> QED BY <1>0, <2>1, Moves, HolderGone, QuietStep
<1>2. CASE Owns(w)
  <2>1. ~Uncommitted(f) /\ file[f] \in {"PENDING", "PARSING"}
    BY <1>0, <1>f, <1>2, OwnerFacts
  <2>2. ASSUME Requeues(w) PROVE ParseInv'
    <3>1. /\ job' = [job EXCEPT ![f] = RequeuedJob(job[f], w)]
          /\ file' = [file EXCEPT ![f] = ResetFile(file[f])]
      BY <1>0, <1>f, <1>2, <2>2 DEF Settle, SettleJob, SettledFile
    <3>2. job'[f] = RequeuedJob(job[f], w) /\ file'[f] = "PENDING"
      BY <1>0, <2>1, <3>1 DEF ResetFile
    <3>3. FileInv(f)'
      BY <1>0, <2>1, <3>2 DEF FileInv, Uncommitted, RequeuedJob
    <3>4. RequeuedJob(job[f], w).owner = NoWorker
      BY DEF RequeuedJob
    <3> QED BY <1>0, <3>1, <3>3, <3>4, Moves, LastStep
  <2>3. ASSUME ~Requeues(w) PROVE ParseInv'
    <3>1. /\ job' = [job EXCEPT ![f] = ClosedJob(job[f], "FAILED")]
          /\ file' = [file EXCEPT ![f] = FailedFile(file[f])]
      BY <1>0, <1>f, <1>2, <2>3 DEF Settle, SettleJob, SettledFile
    <3>2. job'[f] = ClosedJob(job[f], "FAILED") /\ file'[f] = "FAILED"
      BY <1>0, <2>1, <3>1 DEF FailedFile, Parsed
    <3>3. FileInv(f)'
      BY <1>0, <2>1, <3>2 DEF FileInv, Uncommitted, ClosedJob
    <3>4. ClosedJob(job[f], "FAILED").owner = NoWorker
      BY DEF ClosedJob
    <3> QED BY <1>0, <3>1, <3>3, <3>4, Moves, LastStep
  <2> QED BY <2>2, <2>3
<1> QED BY <1>1, <1>2

\* Time makes leases run out and gives none.
LEMMA TickStep ==
    ASSUME ParseInv, TypeOK', Tick
    PROVE  ParseInv'
<1>0. TypeOK /\ (\A f \in Files : FileInv(f)) /\ (\A w \in Workers : HolderInv(w))
  BY Rearranged
<1>1. UNCHANGED <<file, upload, workerVars>>
  BY DEF Tick, AdvanceClocks
<1>2. ASSUME NEW f \in Files
      PROVE  /\ job'[f].status = job[f].status /\ job'[f].owner = job[f].owner
             /\ job'[f].exec = job[f].exec
             /\ \A n \in Nat : job'[f].ttl > n => job[f].ttl > n
  <2>1. job'[f] = TickedJob(job[f]) /\ job[f].ttl \in Nat
    BY <1>0, Typed DEF Tick, AdvanceClocks, Files, JobRow
  <2>2. \A n \in Nat : Sooner(job[f].ttl) > n => job[f].ttl > n
    BY <2>1 DEF Sooner
  <2> QED BY <2>1, <2>2 DEF TickedJob
<1>3. \A f \in Files : FileInv(f)'
  BY <1>0, <1>1, <1>2 DEF FileInv, Uncommitted
<1>4. ASSUME NEW w \in Workers PROVE HolderInv(w)'
  <2> SUFFICES ASSUME At(w, 1 .. 4)', Owns(w)' PROVE file'[Subject(w)'] = "PARSING"
    BY DEF HolderInv
  <2>1. Subject(w)' = Subject(w) /\ Exec(w)' = Exec(w) /\ At(w, 1 .. 4)
    BY <1>1 DEF workerVars, Subject, Exec, At, Idle
  <2>2. Subject(w) \in Files /\ Skew[w] \in Nat
    BY <1>0, <2>1, Typed DEF At, SkewAssumption
  <2>3. Owns(w)
    BY <1>2, <2>1, <2>2 DEF Owns, Owned
  <2> QED BY <1>0, <1>1, <2>1, <2>3 DEF HolderInv
<1> QED BY <1>3, <1>4, RearrangedNext

\* One step preserves the invariant.
LEMMA NextParseInv == ParseInv /\ [Next]_vars => ParseInv'
<1> SUFFICES ASSUME ParseInv, [Next]_vars PROVE ParseInv'
  OBVIOUS
<1>0. TypeOK' /\ WorkerTypeOK
  BY NextTypeOK, Typed DEF ParseInv
<1>1. ASSUME NEW w \in Workers, SettleRaises(w) \/ Crash(w),
             UNCHANGED <<file, upload, original, normalized>>
      PROVE  ParseInv'
  <2>1. UNCHANGED job /\ (Drop(w) \/ GoTo(w, SettleAt, "last"))
    BY <1>1 DEF SettleRaises, Crash
  <2> QED BY <1>0, <1>1, <2>1, Moves, HolderGone, QuietStep DEF SettleAt
<1>2. CASE UNCHANGED vars
  <2>1. UNCHANGED <<job, file, upload, workerVars>>
    BY <1>2 DEF vars, workerVars
  <2>2. \A f \in Files : FileInv(f)'
    BY <2>1, Rearranged DEF FileInv, Uncommitted
  <2>3. \A w \in Workers : HolderInv(w)'
    BY <2>1, Rearranged DEF HolderInv, workerVars, At, Idle, Owns, Subject, Exec
  <2> QED BY <1>0, <2>2, <2>3, RearrangedNext
<1>3. ASSUME NEW w \in Workers, Forward(w) \/ Fault(w) PROVE ParseInv'
  BY <1>0, <1>1, <1>3, ClaimSubjectStep, ParseStep, CompleteStep, SettleStep DEF Forward, Fault
<1> QED BY <1>0, <1>2, <1>3, UploadStep, ClaimStep, TickStep DEF Next
-----------------------------------------------------------------------------
(***************************************************************************)
(* The theorems.                                                           *)
(***************************************************************************)
\* The inductive invariant holds in every reachable state.
THEOREM ParseInvariant == Spec => []ParseInv
<1> QED BY InitParseInv, NextParseInv, PTL DEF Spec

\* The rows, the uploads and the workers' state are well typed: in particular
\* no file is tried more often than max_attempts.
THEOREM ParseTypes == Spec => []TypeOK
<1>1. ParseInv => TypeOK
  BY DEF ParseInv
<1> QED BY <1>1, ParseInvariant, PTL

\* The job row and the file row end together, although they are written by
\* executions that may have been displaced.
THEOREM JobAndFileAgree == Spec => []JobFileAgree
<1>1. ParseInv => JobFileAgree
  BY DEF ParseInv
<1> QED BY <1>1, ParseInvariant, PTL

\* Whoever holds the lease of a claimed file finds it PARSING.
THEOREM OwnersHoldTheirFile == Spec => []OwnerHoldsFile
<1>1. ParseInv => OwnerHoldsFile
  BY DEF ParseInv
<1> QED BY <1>1, ParseInvariant, PTL

\* No step changes a file that is parsed or failed.
LEMMA SettledFileStep ==
    ASSUME ParseInv, [Next]_vars, NEW f \in Files, file[f] \in Parsed
    PROVE  file'[f] = file[f]
<1>0. file \in [Files -> FileStatus] /\ FileInv(f)
  BY Rearranged DEF ParseInv, TypeOK
\* Nobody holds its job, and its upload is over.
<1>1. ASSUME NEW w \in Workers, ~Idle(w), Owns(w) PROVE Subject(w) # f
  BY <1>1, OwnerFacts DEF Parsed
<1>2. job[f].status \notin {"READY", "RUNNING", "ABSENT"}
  BY <1>0 DEF FileInv, Parsed
<1>3. ASSUME NEW g \in Files, Upload(g) PROVE file'[f] = file[f]
  <2>1. CASE CommitUpload(g)
    <3>1. g # f
      BY <1>0, <1>2, <2>1 DEF CommitUpload, FileInv, Uncommitted
    <3> QED BY <1>0, <2>1, <3>1 DEF CommitUpload
  <2>2. CASE UNCHANGED file
    BY <2>2
  <2> QED BY <1>3, <2>1, <2>2 DEF Upload, PutOriginal, CleanUpUpload, CrashUpload
<1>4. ASSUME NEW w \in Workers, NEW g \in Files, ClaimNext(w, g) \/ TerminalizeExhausted(w, g)
      PROVE  file'[f] = file[f]
  <2>1. TerminalizeExhausted(w, g) => g # f
    BY <1>2 DEF TerminalizeExhausted, CloseExhausted, IsCandidate, ReadyFor, ExpiredFor,
                IsReady, IsExpired
  <2> QED BY <1>0, <1>4, <2>1 DEF ClaimNext, TerminalizeExhausted
<1>5. ASSUME NEW w \in Workers, Forward(w) \/ Fault(w) PROVE file'[f] = file[f]
  <2>1. CASE ClaimSubject(w)
    BY <1>0, <1>1, <2>1 DEF ClaimSubject, At
  <2>2. CASE CompleteParse(w) \/ CompleteUnacknowledged(w)
    BY <1>0, <1>1, <2>2
       DEF CompleteParse, CompleteUnacknowledged, CanComplete, CompleteRows, At
  <2>3. CASE Settle(w)
    BY <1>0, <1>1, <2>3 DEF Settle, SettleJob, SettledFile, At
  <2>4. CASE UNCHANGED file
    BY <2>4
  <2> QED BY <1>5, <2>1, <2>2, <2>3, <2>4
          DEF Forward, Fault, ReadOriginal, PublishNormalized, ReuseNormalized, Compensate, Raise
<1> QED BY <1>3, <1>4, <1>5 DEF Next, Claim, Tick, vars

\* A parsed or failed file stays so, whatever a late worker does.
THEOREM SettledFilesStay == Spec => FileSettled
<1>1. ParseInv /\ [Next]_vars =>
        [\A f \in Files : file[f] \in Parsed => file'[f] = file[f]]_vars
  BY SettledFileStep
<1> QED BY <1>1, ParseInvariant, PTL DEF Spec, FileSettled
=============================================================================
