----------------------------- MODULE ParseQueue -----------------------------
(***************************************************************************)
(* Requirement files from their upload (RequirementFileService) to PARSED  *)
(* or FAILED (JobPipeline._run_parse and the parse half of JobRepository). *)
(* Unlike a build artifact the normalized object has one key per file, not *)
(* one per execution, a parse runs without heartbeat, and the file row     *)
(* carries no execution id: only the job row fences a displaced worker.    *)
(***************************************************************************)
EXTENDS JobWorker

CONSTANT CommitAckLost    \* may the answer to a commit be lost?

ASSUME CommitAssumption == CommitAckLost \in BOOLEAN

VARIABLES
    file,         \* requirement_files.parse_status
    upload,       \* how far each upload call has come
    original,     \* the files whose original.txt is in object storage
    normalized    \* the files whose normalized.txt is

vars == <<job, file, upload, original, normalized, lease, pc, published, exit>>

Files == Subjects

Parsed == {"PARSED", "FAILED"}
FileStatus == {"ABSENT", "PENDING", "PARSING"} \cup Parsed

\* The points of JobPipeline._run_parse.
ReadAt     == 1     \* read_bytes(original), parse_requirements
PublishAt  == 2     \* publish_or_reuse_bytes: publish_bytes
ReuseAt    == 3     \* ... FileExistsError: read and compare
CompleteAt == 4     \* complete_parse

TypeOK ==
    /\ WorkerTypeOK
    /\ file \in [Files -> FileStatus]
    /\ upload \in [Files -> {"none", "stored", "unknown", "ended"}]
    /\ original \subseteq Files
    /\ normalized \subseteq Files

Init ==
    /\ WorkerInit
    /\ file = [f \in Files |-> "ABSENT"]
    /\ upload = [f \in Files |-> "none"]
    /\ original = {}
    /\ normalized = {}
-----------------------------------------------------------------------------
(***************************************************************************)
(* The upload: the object first, then both rows in one commit.             *)
(***************************************************************************)
PutOriginal(f) ==
    /\ upload[f] = "none"
    /\ \A g \in Files : g < f => upload[g] # "none"
    /\ original' = original \cup {f}
    /\ upload' = [upload EXCEPT ![f] = "stored"]
    /\ UNCHANGED <<job, file, normalized, workerVars>>

\* The commit takes effect.  If its answer is lost, afterCompletion is called
\* with STATUS_UNKNOWN, which is not STATUS_COMMITTED either.
CommitUpload(f) ==
    /\ upload[f] = "stored"
    /\ file' = [file EXCEPT ![f] = "PENDING"]
    /\ job' = [job EXCEPT ![f] = EnqueuedJob]
    /\ \E s \in {"ended"} \cup (IF CommitAckLost THEN {"unknown"} ELSE {}) :
          upload' = [upload EXCEPT ![f] = s]
    /\ UNCHANGED <<original, normalized, workerVars>>

\* afterCompletion of a rollback, or of a commit whose outcome is unknown.
CleanUpUpload(f) ==
    /\ upload[f] \in {"stored", "unknown"}
    /\ original' = original \ {f}
    /\ upload' = [upload EXCEPT ![f] = "ended"]
    /\ UNCHANGED <<job, file, normalized, workerVars>>

\* The API process dies; MySQL rolls back and the object stays behind.
CrashUpload(f) ==
    /\ upload[f] \in {"stored", "unknown"}
    /\ upload' = [upload EXCEPT ![f] = "ended"]
    /\ UNCHANGED <<job, file, original, normalized, workerVars>>
-----------------------------------------------------------------------------
(***************************************************************************)
(* The queue.                                                              *)
(***************************************************************************)
\* _terminalize_subject.
FailedFile(s) == IF s \in Parsed THEN s ELSE "FAILED"

ClaimNext(w, f) ==
    /\ TakeJob(w, f)
    /\ UNCHANGED <<file, upload, original, normalized>>

TerminalizeExhausted(w, f) ==
    /\ CloseExhausted(w, f)
    /\ file' = [file EXCEPT ![f] = FailedFile(@)]
    /\ UNCHANGED <<upload, original, normalized>>

\* A first claim expects PENDING, a takeover expects PARSING.
CanClaimSubject(s, l) ==
    /\ s = IF l.reclaimed THEN "PARSING" ELSE "PENDING"
    /\ l.reclaimed => l.prev # 0

ClaimSubject(w) ==
    LET f == Subject(w) IN
    /\ At(w, {ClaimSubjectAt})
    /\ \/ /\ ~Owns(w)
          /\ Drop(w)
          /\ UNCHANGED <<job, file>>
       \/ /\ Owns(w) /\ CanClaimSubject(file[f], lease[w])
          /\ file' = [file EXCEPT ![f] = "PARSING"]
          /\ Step(w)
          /\ UNCHANGED job
       \/ /\ Owns(w) /\ ~CanClaimSubject(file[f], lease[w])
          /\ file' = [file EXCEPT ![f] = FailedFile(@)]
          /\ job' = [job EXCEPT ![f] = ClosedJob(@, "FAILED")]
          /\ Drop(w)
    /\ UNCHANGED <<upload, original, normalized>>
-----------------------------------------------------------------------------
(***************************************************************************)
(* The parse pipeline.                                                     *)
(***************************************************************************)
ReadOriginal(w) ==
    /\ At(w, {ReadAt})
    /\ \/ Subject(w) \in original /\ Step(w)
       \/ Subject(w) \notin original /\ Leave(w, "retry")
    /\ UNCHANGED <<job, file, upload, original, normalized>>

\* Parsing is a function of the original, so every execution publishes the
\* same bytes.
PublishNormalized(w) ==
    /\ At(w, {PublishAt})
    /\ \/ /\ Subject(w) \notin normalized
          /\ normalized' = normalized \cup {Subject(w)}
          /\ pc' = [pc EXCEPT ![w] = CompleteAt]
          /\ published' = [published EXCEPT ![w] = TRUE]
          /\ UNCHANGED <<lease, exit>>
       \/ /\ Subject(w) \in normalized
          /\ Step(w)
          /\ UNCHANGED normalized
    /\ UNCHANGED <<job, file, upload, original>>

\* The object that was in the way is read back and taken for this
\* execution's own; it may be gone by now.
ReuseNormalized(w) ==
    /\ At(w, {ReuseAt})
    /\ \/ Subject(w) \in normalized /\ StepPublished(w)
       \/ Subject(w) \notin normalized /\ Leave(w, "retry")
    /\ UNCHANGED <<job, file, upload, original, normalized>>

CanComplete(w) == Owns(w) /\ file[Subject(w)] = "PARSING"

CompleteRows(w) ==
    LET f == Subject(w) IN
    /\ file' = [file EXCEPT ![f] = "PARSED"]
    /\ job' = [job EXCEPT ![f] = ClosedJob(@, "COMPLETED")]

CompleteParse(w) ==
    /\ At(w, {CompleteAt})
    /\ \/ CanComplete(w) /\ CompleteRows(w) /\ Drop(w)
       \/ ~CanComplete(w) /\ Leave(w, "lost") /\ UNCHANGED <<file, job>>
    /\ UNCHANGED <<upload, original, normalized>>

\* The commit takes effect but the driver raises.
CompleteUnacknowledged(w) ==
    /\ CommitAckLost
    /\ At(w, {CompleteAt})
    /\ CanComplete(w) /\ CompleteRows(w) /\ Leave(w, "retry")
    /\ UNCHANGED <<upload, original, normalized>>
-----------------------------------------------------------------------------
(***************************************************************************)
(* Errors.                                                                 *)
(***************************************************************************)
\* Invalid requirements, and an object that is not what the row says, are
\* permanent; before the subject is claimed a malformed payload is.
Raise(w, e) ==
    /\ At(w, 0 .. 4)
    /\ \/ pc[w] = ClaimSubjectAt /\ e \in {"last", "fail"}
       \/ pc[w] # ClaimSubjectAt /\ e \in {"retry", "reject"}
       \/ pc[w] \in {ReadAt, ReuseAt} /\ e = "fail"
    /\ Leave(w, e)
    /\ UNCHANGED <<job, file, upload, original, normalized>>

\* delete_if_owned(key, sha256), best effort: whoever wrote the object, its
\* bytes are the ones this execution would have written.
Compensate(w) ==
    /\ At(w, {CompensateAt})
    /\ normalized' \in {normalized, normalized \ {Subject(w)}}
    /\ AfterCompensation(w)
    /\ UNCHANGED <<job, file, upload, original>>

\* _reset_subject_for_retry: PARSING goes back to PENDING.
ResetFile(s) == IF s = "PARSING" THEN "PENDING" ELSE s

\* Mutant: the row is settled by id alone.
SettledFileById(w) == IF Requeues(w) THEN "PENDING" ELSE "FAILED"

SettledFile(w) ==
    IF ~Owns(w) THEN file[Subject(w)]
    ELSE IF Requeues(w) THEN ResetFile(file[Subject(w)])
    ELSE FailedFile(file[Subject(w)])

Settle(w) ==
    /\ SettleJob(w)
    /\ file' = [file EXCEPT ![Subject(w)] = SettledFile(w)]
    /\ UNCHANGED <<upload, original, normalized>>

Tick == AdvanceClocks /\ UNCHANGED <<file, upload, original, normalized>>
-----------------------------------------------------------------------------
Upload(f) == PutOriginal(f) \/ CommitUpload(f) \/ CleanUpUpload(f) \/ CrashUpload(f)

Claim(w) == \E f \in Files : ClaimNext(w, f) \/ TerminalizeExhausted(w, f)

Forward(w) ==
    \/ ClaimSubject(w) \/ ReadOriginal(w) \/ PublishNormalized(w)
    \/ ReuseNormalized(w) \/ CompleteParse(w) \/ Compensate(w) \/ Settle(w)

Fault(w) ==
    \/ CompleteUnacknowledged(w)
    \/ \E e \in Exits : Raise(w, e)
    \/ /\ SettleRaises(w) \/ Crash(w)
       /\ UNCHANGED <<file, upload, original, normalized>>

Next ==
    \/ \E f \in Files : Upload(f)
    \/ \E w \in Workers : Claim(w) \/ Forward(w) \/ Fault(w)
    \/ Tick

Spec == Init /\ [][Next]_vars

\* Workers loop, clocks run; nothing obliges anyone to upload.
Fairness ==
    /\ \A w \in Workers : WF_vars(Claim(w)) /\ WF_vars(Forward(w))
    /\ WF_vars(Tick)

FairSpec == Spec /\ Fairness
-----------------------------------------------------------------------------
(***************************************************************************)
(* Properties.                                                             *)
(***************************************************************************)
\* A worker that passed claim_parse_subject and still holds the lease finds
\* the file PARSING: no displaced worker has reset or finished it, although
\* the file row itself carries no execution id.
OwnerHoldsFile ==
    \A w \in Workers : At(w, 1 .. 4) /\ Owns(w) => file[Subject(w)] = "PARSING"

\* The job row and the file row end together.
JobFileAgree ==
    \A f \in Files :
        /\ job[f].status = "ABSENT" <=> file[f] = "ABSENT"
        /\ job[f].status = "COMPLETED" <=> file[f] = "PARSED"
        /\ job[f].status = "FAILED" <=> file[f] = "FAILED"

\* A parsed or failed file stays so, whatever a late worker does.
FileSettled ==
    [][\A f \in Files : file[f] \in Parsed => file'[f] = file[f]]_vars

\* Every uploaded file is eventually parsed or failed.
ParseEnds == \A f \in Files : file[f] = "PENDING" ~> file[f] \in Parsed

\* A parsed file has its normalized object, which every build reads.
ParsedHasNormalized == \A f \in Files : file[f] = "PARSED" => f \in normalized
=============================================================================
