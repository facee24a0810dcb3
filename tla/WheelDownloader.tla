---------------------------- MODULE WheelDownloader ----------------------------
(***************************************************************************)
(* The download stage: DefaultBuildStages.download of jobs/pipeline.py over  *)
(* WheelDownloader.download_one of download/wheels.py.  Each package is a    *)
(* transaction in the work directory of the execution: a publication         *)
(* directory, one attempt directory per package source asked, a copy of the   *)
(* wheel into the publication, and a rename of it to the package's own        *)
(* directory.  An error unwinds through the finally clauses; removing a       *)
(* directory is best effort.  The work directory belongs to one execution,    *)
(* so the transaction lock is free; it can still fail to open.                *)
(***************************************************************************)
EXTENDS PackageSources, FiniteSets, FiniteSetsExt

CONSTANTS
    MaxPackages,    \* BuildResourceLimits.max_packages
    MaxWheelBytes,  \* BuildResourceLimits.max_wheel_bytes
    MaxTotalBytes,  \* BuildResourceLimits.max_total_bytes
    MaxBytes,       \* bound: size of a file pip leaves
    NoWheel

ASSUME DownloaderAssumption ==
    {MaxPackages, MaxWheelBytes, MaxTotalBytes, MaxBytes} \subseteq Nat \ {0}

VARIABLES
    step,       \* where the stage is
    packages,   \* number of resolved packages
    package,    \* index of the package being downloaded
    asked,      \* index in SourceOrder of the source being asked
    error,      \* the exception that unwinds, "none" otherwise
    staged,     \* publication and attempt directories that exist
    stuck,      \* directories whose removal failed
    output,     \* what pip left in the attempt directory
    copied,     \* the wheel in the publication directory
    stored,     \* package -> the wheel in its own directory
    wheels,     \* BuildDownload.wheels, as package indexes
    failures,   \* BuildDownload.failures, as package indexes
    total,      \* total_bytes
    cancelled,  \* the user has asked for cancellation
    outcome     \* how the stage ended, "none" before

downloadVars == <<step, packages, package, asked, error, staged, stuck, output,
                  copied, stored, wheels, failures, total, cancelled, outcome>>

Packages == 1 .. MaxPackages
Names == ({"publication"} \X Packages \X {0})
             \cup ({"attempt"} \X Packages \X (1 .. Len(SourceOrder)))
Publication == <<"publication", package, 0>>
Attempt == <<"attempt", package, asked>>

\* A file pip leaves: valid when it is one regular wheel of the package and
\* version that fits the target.
Output == [valid : BOOLEAN, size : 1 .. MaxBytes]
Wheel == [source : 1 .. Len(SourceOrder), size : 1 .. MaxBytes]

ASSUME NoWheelAssumption == NoWheel \notin Output \cup Wheel

DownloadInit ==
    /\ step = "waiting" /\ packages = 0 /\ package = 1 /\ asked = 1
    /\ error = "none" /\ staged = {} /\ stuck = {}
    /\ output = NoWheel /\ copied = NoWheel
    /\ stored = [p \in Packages |-> NoWheel]
    /\ wheels = {} /\ failures = {} /\ total = 0
    /\ cancelled = FALSE /\ outcome = "none"

-----------------------------------------------------------------------------
(* Transactions.                                                            *)

\* Best-effort removal of a directory (_remove_attempt).
Remove(name) ==
    \/ staged' = staged \ {name} /\ UNCHANGED stuck
    \/ stuck' = stuck \cup ({name} \cap staged) /\ UNCHANGED staged

\* The stage returns, or raises what is no WheelDownloadError.
End(how) == step' = "ended" /\ outcome' = how

\* An exception in the transaction, with or without an attempt open.
Unwind(how) == error' = how /\ step' = "unwind"
UnwindAttempt(how) == error' = how /\ step' = "drop"

\* The package's directory does not exist yet (_prepare_destination).
DestinationFree == stored[package] = NoWheel

BeginTransaction ==
    /\ step = "package" /\ package <= packages /\ DestinationFree
    /\ staged' = staged \cup {Publication}
    /\ step' = "source" /\ asked' = 1 /\ copied' = NoWheel
    /\ UNCHANGED <<packages, package, error, stuck, output, stored, wheels,
                   failures, total, cancelled, outcome>>

\* The work directory, the lock or the publication directory cannot be had,
\* as a failure of the package or as a raw OSError.
BeginFails ==
    /\ step = "package" /\ package <= packages
    /\ \E rest \in SUBSET {Publication} :
          staged' = staged \cup rest /\ stuck' = stuck \cup rest
    /\ \/ /\ failures' = failures \cup {package} /\ package' = package + 1
          /\ UNCHANGED <<step, outcome>>
       \/ End("raised") /\ UNCHANGED <<failures, package>>
    /\ UNCHANGED <<packages, asked, error, output, copied, stored, wheels, total, cancelled>>

\* At the top of the loop over the sources, with a source left to ask.
Asking == step = "source" /\ asked <= Len(SourceOrder)

\* Every _raise_if_cancelled of the transaction.
CancelSeen ==
    /\ cancelled
    /\ \/ (Asking \/ step = "commit") /\ Unwind("cancelled")
       \/ step \in {"inspect", "publish"} /\ UnwindAttempt("cancelled")
    /\ UNCHANGED <<packages, package, asked, staged, stuck, output, copied, stored,
                   wheels, failures, total, cancelled, outcome>>

\* No source is left to ask.
NoSourceLeft ==
    /\ step = "source" /\ asked > Len(SourceOrder)
    /\ Unwind("failed")
    /\ UNCHANGED <<packages, package, asked, staged, stuck, output, copied, stored,
                   wheels, failures, total, cancelled, outcome>>

CreateAttempt ==
    /\ Asking /\ ~cancelled
    /\ staged' = staged \cup {Attempt}
    /\ step' = "pip" /\ output' = NoWheel
    /\ UNCHANGED <<packages, package, asked, error, stuck, copied, stored, wheels,
                   failures, total, cancelled, outcome>>

\* The attempt directory cannot be made, or not be bound (which may raise a
\* raw OSError) and then perhaps not be removed either.
CreateAttemptFails ==
    /\ Asking /\ ~cancelled
    /\ \E rest \in SUBSET {Attempt} :
          staged' = staged \cup rest /\ stuck' = stuck \cup rest
    /\ \E how \in {"failed", "raised"} : Unwind(how)
    /\ UNCHANGED <<packages, package, asked, output, copied, stored, wheels,
                   failures, total, cancelled, outcome>>

\* pip download: it exits with zero and leaves something, or it fails, times
\* out or exits with another code and the next source is asked.
PipDownloads ==
    /\ step = "pip"
    /\ \E file \in Output : output' = file
    /\ step' = "inspect"
    /\ UNCHANGED <<packages, package, asked, error, staged, stuck, copied, stored,
                   wheels, failures, total, cancelled, outcome>>

PipFails ==
    /\ step = "pip"
    /\ step' = "drop"
    /\ UNCHANGED <<packages, package, asked, error, staged, stuck, output, copied,
                   stored, wheels, failures, total, cancelled, outcome>>

\* min(max_wheel_bytes, remaining_total), where download_one has nothing
\* downloaded before its one package.
maximum_bytes == IF MaxWheelBytes < MaxTotalBytes THEN MaxWheelBytes ELSE MaxTotalBytes

\* The file is read to its end, within the limit (_hash_regular_file).
WithinBytes(file) == file.size <= maximum_bytes

_inspect_attempt_output ==
    /\ step = "inspect" /\ ~cancelled
    /\ IF output.valid /\ WithinBytes(output)
         THEN step' = "publish" /\ UNCHANGED error
         ELSE UnwindAttempt("failed")
    /\ UNCHANGED <<packages, package, asked, staged, stuck, output, copied, stored,
                   wheels, failures, total, cancelled, outcome>>

_publish_wheel ==
    /\ step = "publish" /\ ~cancelled
    /\ copied' = [source |-> asked, size |-> output.size]
    /\ step' = "drop"
    /\ UNCHANGED <<packages, package, asked, error, staged, stuck, output, stored,
                   wheels, failures, total, cancelled, outcome>>

\* The publication has a file of that name, or the file changed since it was
\* inspected (_reject_publication_collision, _copy_verified).
PublishFails ==
    /\ step = "publish" /\ ~cancelled
    /\ UnwindAttempt("failed")
    /\ UNCHANGED <<packages, package, asked, staged, stuck, output, copied, stored,
                   wheels, failures, total, cancelled, outcome>>

\* Mutant: the attempt is removed only when it raised.
DropAttemptOnError ==
    /\ step = "drop"
    /\ IF error = "none" THEN UNCHANGED <<staged, stuck>> ELSE Remove(Attempt)
    /\ IF error # "none" THEN step' = "unwind" /\ UNCHANGED asked
       ELSE IF copied # NoWheel THEN step' = "commit" /\ UNCHANGED asked
       ELSE step' = "source" /\ asked' = asked + 1
    /\ UNCHANGED <<packages, package, error, output, copied, stored, wheels,
                   failures, total, cancelled, outcome>>

\* The finally clause of an attempt, and where it goes on.
DropAttempt ==
    /\ step = "drop"
    /\ Remove(Attempt)
    /\ IF error # "none" THEN step' = "unwind" /\ UNCHANGED asked
       ELSE IF copied # NoWheel THEN step' = "commit" /\ UNCHANGED asked
       ELSE step' = "source" /\ asked' = asked + 1
    /\ UNCHANGED <<packages, package, error, output, copied, stored, wheels,
                   failures, total, cancelled, outcome>>

\* The publication is renamed to the package's directory.
Commit ==
    /\ step = "commit" /\ ~cancelled /\ DestinationFree
    /\ staged' = staged \ {Publication}
    /\ stored' = [stored EXCEPT ![package] = copied]
    /\ step' = "report"
    /\ UNCHANGED <<packages, package, asked, error, stuck, output, copied, wheels,
                   failures, total, cancelled, outcome>>

\* download_one has returned: the stage adds the wheel to its own, or gives up
\* because of its size or the total.
AddWheel ==
    /\ step = "report"
    /\ total' = total + copied.size
    /\ IF copied.size > MaxWheelBytes \/ total' > MaxTotalBytes
         THEN End("over_limit") /\ UNCHANGED <<wheels, package>>
         ELSE /\ wheels' = wheels \cup {package}
              /\ package' = package + 1 /\ step' = "package" /\ UNCHANGED outcome
    /\ UNCHANGED <<packages, asked, error, staged, stuck, output, copied, stored,
                   failures, cancelled>>

\* A directory is not the one that was bound (DownloadValidationError), or the
\* cancel query or the process runner raises something else.
TransactionRaises ==
    /\ \E how \in {"failed", "raised"} :
          \/ (Asking \/ step = "commit") /\ Unwind(how)
          \/ step \in {"pip", "inspect", "publish"} /\ UnwindAttempt(how)
    /\ UNCHANGED <<packages, package, asked, staged, stuck, output, copied, stored,
                   wheels, failures, total, cancelled, outcome>>

\* The finally clause of the transaction, and the except clauses of the
\* stage: a package that could not be downloaded is a failure of its own,
\* anything else leaves the stage.
UnwindTransaction ==
    /\ step = "unwind"
    /\ Remove(Publication)
    /\ error' = "none"
    /\ IF error = "failed"
         THEN /\ failures' = failures \cup {package}
              /\ package' = package + 1 /\ step' = "package" /\ UNCHANGED outcome
         ELSE End(error) /\ UNCHANGED <<failures, package>>
    /\ UNCHANGED <<packages, asked, output, copied, stored, wheels, total, cancelled>>

-----------------------------------------------------------------------------
\* The stage starts with the packages of the resolution, more than
\* max_packages being refused before anything is downloaded.
StartDownload(count) ==
    /\ step = "waiting"
    /\ packages' = count
    /\ IF count > MaxPackages
         THEN End("over_limit")
         ELSE step' = "package" /\ UNCHANGED outcome
    /\ UNCHANGED <<package, asked, error, staged, stuck, output, copied, stored,
                   wheels, failures, total, cancelled>>

ReturnDownload ==
    /\ step = "package" /\ package > packages
    /\ End("returned")
    /\ UNCHANGED <<packages, package, asked, error, staged, stuck, output, copied,
                   stored, wheels, failures, total, cancelled>>

RequestCancel ==
    /\ step \notin {"waiting", "ended"} /\ ~cancelled
    /\ cancelled' = TRUE
    /\ UNCHANGED <<step, packages, package, asked, error, staged, stuck, output,
                   copied, stored, wheels, failures, total, outcome>>

DownloadStep ==
    \/ BeginTransaction \/ BeginFails \/ NoSourceLeft \/ CreateAttempt \/ CreateAttemptFails
    \/ PipDownloads \/ PipFails \/ _inspect_attempt_output \/ _publish_wheel
    \/ PublishFails \/ DropAttempt \/ Commit \/ AddWheel \/ CancelSeen \/ TransactionRaises
    \/ UnwindTransaction \/ ReturnDownload

-----------------------------------------------------------------------------
DownloadTypeOK ==
    /\ step \in {"waiting", "package", "source", "pip", "inspect", "publish",
                 "drop", "commit", "report", "unwind", "ended"}
    /\ packages \in 0 .. MaxPackages + 1
    /\ package \in 1 .. MaxPackages + 1
    /\ asked \in 1 .. Len(SourceOrder) + 1
    /\ error \in {"none", "cancelled", "failed", "raised"}
    /\ staged \subseteq Names /\ stuck \subseteq Names
    /\ output \in Output \cup {NoWheel} /\ copied \in Wheel \cup {NoWheel}
    /\ stored \in [Packages -> Wheel \cup {NoWheel}]
    /\ wheels \subseteq Packages /\ failures \subseteq Packages
    /\ total \in 0 .. MaxTotalBytes + MaxWheelBytes
    /\ cancelled \in BOOLEAN
    /\ outcome \in {"none", "returned", "cancelled", "raised", "over_limit"}

\* The sizes of the reported wheels, added up package by package.
RunningTotals(sum) ==
    /\ sum[0] = 0
    /\ \A p \in Packages :
          sum[p] = sum[p - 1] + IF p \in wheels THEN stored[p].size ELSE 0

\* The work directory and the report of the download stage agree however the
\* packages went, and whatever was cancelled, raised or failed to be removed:
\* outside a transaction every directory left over is one whose removal
\* failed; a reported wheel lies complete in its package's directory and a
\* reported failure left none; a stage that returns accounts for every
\* package once, within the total limit.
DownloadAccounts ==
    /\ step \in {"package", "ended"} => staged \subseteq stuck
    /\ wheels \cap failures = {}
    /\ \A p \in wheels : stored[p] # NoWheel
    /\ \A p \in failures : stored[p] = NoWheel
    /\ \E sum \in [0 .. MaxPackages -> 0 .. MaxTotalBytes] : RunningTotals(sum)
    /\ outcome = "returned" => wheels \cup failures = 1 .. packages
=============================================================================
