-------------------------- MODULE BuildStagesProofs --------------------------
(***************************************************************************)
(* The safety of the resolve and download stages of a build, for any pins, *)
(* releases, package sources and limits.                                   *)
(***************************************************************************)
EXTENDS BuildStages, NaturalBounds, FiniteSetTheorems, SequenceTheorems, TLAPS

(***************************************************************************)
(* The download stage.                                                     *)
(***************************************************************************)
USE NoWheelAssumption

InAttempt == step \in {"pip", "inspect", "publish", "drop"}
InTransaction == InAttempt \/ step \in {"source", "commit", "unwind"}

\* Where the stage is, in its packages and its sources.
Places ==
    /\ step = "waiting" => packages = 0 /\ package = 1
    /\ step \notin {"waiting", "ended"} => packages <= MaxPackages /\ package <= packages + 1
    /\ InTransaction \/ step = "report" => package <= packages
    /\ InAttempt => asked <= Len(SourceOrder)
    /\ step # "ended" => outcome = "none"
    /\ outcome = "returned" => package = packages + 1

\* An exception is under way exactly while the finally clauses run.
Errors ==
    /\ step \notin {"drop", "unwind"} => error = "none"
    /\ step = "unwind" => error # "none"

\* What pip left and what was copied is there when it is used, and within the
\* limits once it was inspected.
Contents ==
    /\ step \in {"inspect", "publish"} => output # NoWheel
    /\ step = "publish" => output.size <= MaxWheelBytes
    /\ step \in {"commit", "report"} => copied # NoWheel
    /\ copied # NoWheel => copied.size <= MaxWheelBytes
    /\ step = "report" => stored[package] = copied

\* The directories that exist are the ones of the transaction in progress and
\* those whose removal failed.
Directories ==
    staged \subseteq stuck \cup (IF InTransaction THEN {Publication} ELSE {})
                        \cup (IF InAttempt THEN {Attempt} ELSE {})

\* The packages before the current one are accounted for, once each, and
\* those after it are not there yet.
Books ==
    /\ wheels \cup failures = 1 .. package - 1 /\ wheels \cap failures = {}
    /\ \A p \in wheels : stored[p] # NoWheel
    /\ \A p \in Packages \ wheels :
          p # package \/ step \notin {"report", "ended"} => stored[p] = NoWheel

\* The total is that of the wheels reported so far.
Totals ==
    \E sum \in [0 .. MaxPackages -> 0 .. MaxTotalBytes] :
       /\ RunningTotals(sum)
       /\ \A n \in package - 1 .. MaxPackages : sum[n] = sum[package - 1]
       /\ step # "ended" => total = sum[package - 1]

DownloadInv ==
    /\ DownloadTypeOK
    /\ Places /\ Errors /\ Contents /\ Directories /\ Books /\ Totals

\* The constants of the download.
LEMMA Sizes ==
    /\ MaxPackages \in Nat \ {0} /\ MaxWheelBytes \in Nat \ {0} /\ MaxTotalBytes \in Nat \ {0}
    /\ MaxBytes \in Nat \ {0} /\ Len(SourceOrder) \in Nat \ {0}
BY SourcesAssumption, DownloaderAssumption

\* Before the download stage starts nothing is stored or reported.
LEMMA DownloadInitInv == DownloadInit => DownloadInv
<1> SUFFICES ASSUME DownloadInit PROVE DownloadInv
  OBVIOUS
<1>1. DownloadTypeOK
  <2>1. /\ 0 \in 0 .. MaxTotalBytes + MaxWheelBytes /\ 0 \in 0 .. MaxPackages + 1
        /\ 1 \in 1 .. MaxPackages + 1 /\ 1 \in 1 .. Len(SourceOrder) + 1
    BY Sizes
  <2> QED BY <2>1 DEF DownloadInit, DownloadTypeOK
<1>2. Places /\ Errors /\ Contents
  BY DEF DownloadInit, Places, Errors, Contents, InTransaction, InAttempt
<1>3. Directories /\ Books
  BY DEF DownloadInit, Directories, Books, Packages
<1>4. Totals
  <2>1. PICK sum : sum = [n \in 0 .. MaxPackages |-> 0]
    OBVIOUS
  <2>2. sum \in [0 .. MaxPackages -> 0 .. MaxTotalBytes] /\ \A n \in 0 .. MaxPackages : sum[n] = 0
    BY <2>1, Sizes
  <2>3. RunningTotals(sum)
    BY <2>2, Sizes DEF DownloadInit, RunningTotals, Packages
  <2>4. package = 1 /\ total = 0
    BY DEF DownloadInit
  <2> QED BY <2>2, <2>3, <2>4, Sizes DEF Totals
<1> QED BY <1>1, <1>2, <1>3, <1>4 DEF DownloadInv

\* The books do not change within a transaction.
LEMMA BooksKept ==
    ASSUME DownloadInv, UNCHANGED <<packages, package, stored, wheels, failures, total>>,
           step \notin {"report", "ended"}
    PROVE  Books' /\ Totals'
<1>1. Books'
  BY DEF DownloadInv, Books
<1>2. Totals'
  <2>1. PICK sum \in [0 .. MaxPackages -> 0 .. MaxTotalBytes] :
          /\ RunningTotals(sum)
          /\ \A n \in package - 1 .. MaxPackages : sum[n] = sum[package - 1]
          /\ step # "ended" => total = sum[package - 1]
    BY DEF DownloadInv, Totals
  <2>2. RunningTotals(sum)'
    BY <2>1 DEF RunningTotals
  <2> QED BY <2>1, <2>2 DEF Totals
<1> QED BY <1>1, <1>2

\* Steps within a transaction that move on, or raise.
LEMMA MovesOnInv ==
    ASSUME DownloadInv,
           NoSourceLeft \/ PipFails \/ _inspect_attempt_output \/ PublishFails \/ CancelSeen
             \/ TransactionRaises
    PROVE  DownloadInv'
<1>1. UNCHANGED <<packages, package, asked, staged, stuck, output, copied, stored, wheels,
                  failures, total, cancelled, outcome>>
  BY DEF NoSourceLeft, PipFails, _inspect_attempt_output, PublishFails, CancelSeen,
         TransactionRaises
<1>2. /\ error' \in {"none", "cancelled", "failed", "raised"}
      /\ \/ /\ step \in {"source", "commit"} /\ step' = "unwind" /\ error' # "none"
            /\ step = "source" \/ package <= packages
         \/ step \in {"pip", "inspect", "publish"} /\ step' = "drop"
         \/ /\ step = "inspect" /\ step' = "publish" /\ error' = "none"
            /\ WithinBytes(output)
  <2>1. error \in {"none", "cancelled", "failed", "raised"} /\ Errors /\ Places
    BY DEF DownloadInv, DownloadTypeOK
  <2> QED BY <2>1 DEF NoSourceLeft, PipFails, _inspect_attempt_output, PublishFails, CancelSeen,
         TransactionRaises, Asking, Unwind, UnwindAttempt, Errors, Places, InTransaction
<1>3. DownloadTypeOK'
  BY <1>1, <1>2 DEF DownloadInv, DownloadTypeOK
<1>4. Places'
  BY <1>1, <1>2 DEF DownloadInv, Places, InTransaction, InAttempt
<1>5. Errors'
  BY <1>1, <1>2 DEF DownloadInv, Errors
<1>6. Contents'
  <2>1. step = "inspect" => output \in Output
    BY DEF DownloadInv, Contents, DownloadTypeOK
  <2>2. step = "inspect" /\ WithinBytes(output) => output.size <= MaxWheelBytes
    BY <2>1, Sizes DEF WithinBytes, maximum_bytes, Output
  <2> QED BY <1>1, <1>2, <2>2 DEF DownloadInv, Contents
<1>7. Directories'
  BY <1>1, <1>2 DEF DownloadInv, Directories, InTransaction, InAttempt, Publication, Attempt
<1>8. Books' /\ Totals'
  BY <1>1, <1>2, BooksKept
<1> QED BY <1>3, <1>4, <1>5, <1>6, <1>7, <1>8 DEF DownloadInv

\* A transaction opens with an empty publication directory; the books stay.
LEMMA BeginTransactionInv ==
    ASSUME DownloadInv, BeginTransaction
    PROVE  DownloadInv'
<1>1. /\ UNCHANGED <<packages, package, error, stuck, output, stored, wheels, failures, total,
                     cancelled, outcome>>
      /\ step = "package" /\ package <= packages /\ step' = "source" /\ asked' = 1
      /\ copied' = NoWheel /\ staged' = staged \cup {Publication}
  BY DEF BeginTransaction
<1>2. package \in Packages /\ Publication \in Names
  <2>1. package \in 1 .. MaxPackages
    BY <1>1, Sizes DEF DownloadInv, DownloadTypeOK, Places
  <2> QED BY <2>1 DEF Packages, Publication, Names
<1>3. DownloadTypeOK'
  BY <1>1, <1>2, Sizes DEF DownloadInv, DownloadTypeOK
<1>4. Places' /\ Errors' /\ Contents'
  BY <1>1 DEF DownloadInv, Places, Errors, Contents, InTransaction, InAttempt
<1>5. Directories'
  BY <1>1 DEF DownloadInv, Directories, InTransaction, InAttempt, Publication, Attempt
<1>6. Books' /\ Totals'
  BY <1>1, BooksKept
<1> QED BY <1>3, <1>4, <1>5, <1>6 DEF DownloadInv

\* An attempt directory is made, or making it raises.
LEMMA AttemptInv ==
    ASSUME DownloadInv, CreateAttempt \/ CreateAttemptFails
    PROVE  DownloadInv'
<1>1. /\ UNCHANGED <<packages, package, asked, copied, stored, wheels, failures, total,
                     cancelled, outcome>>
      /\ step = "source" /\ asked <= Len(SourceOrder)
  BY DEF CreateAttempt, CreateAttemptFails, Asking
<1>2. Attempt \in Names /\ Attempt' = Attempt
  <2>1. package \in 1 .. MaxPackages /\ asked \in 1 .. Len(SourceOrder)
    BY <1>1, Sizes DEF DownloadInv, DownloadTypeOK, Places, InTransaction
  <2> QED BY <1>1, <2>1 DEF Packages, Attempt, Names
<1>3. CASE CreateAttempt
  <2>1. /\ staged' = staged \cup {Attempt} /\ step' = "pip" /\ output' = NoWheel
        /\ UNCHANGED <<stuck, error>>
    BY <1>3 DEF CreateAttempt
  <2>2. DownloadTypeOK'
    BY <1>1, <1>2, <2>1 DEF DownloadInv, DownloadTypeOK
  <2>3. Places' /\ Errors' /\ Contents'
    BY <1>1, <2>1 DEF DownloadInv, Places, Errors, Contents, InTransaction, InAttempt
  <2>4. Directories'
    BY <1>1, <1>2, <2>1 DEF DownloadInv, Directories, InTransaction, InAttempt, Publication
  <2> QED BY <1>1, <2>2, <2>3, <2>4, BooksKept DEF DownloadInv
<1>4. CASE CreateAttemptFails
  <2>1. PICK rest \in SUBSET {Attempt} : staged' = staged \cup rest /\ stuck' = stuck \cup rest
    BY <1>4 DEF CreateAttemptFails
  <2>2. step' = "unwind" /\ error' \in {"failed", "raised"} /\ UNCHANGED output
    BY <1>4 DEF CreateAttemptFails, Unwind
  <2>3. DownloadTypeOK'
    BY <1>1, <1>2, <2>1, <2>2 DEF DownloadInv, DownloadTypeOK
  <2>4. Places' /\ Errors' /\ Contents'
    BY <1>1, <2>2 DEF DownloadInv, Places, Errors, Contents, InTransaction, InAttempt
  <2>5. Directories'
    BY <1>1, <2>1, <2>2 DEF DownloadInv, Directories, InTransaction, InAttempt, Publication
  <2> QED BY <1>1, <2>3, <2>4, <2>5, BooksKept DEF DownloadInv
<1> QED BY <1>3, <1>4

\* pip leaves one file in the attempt directory.
LEMMA PipDownloadsInv ==
    ASSUME DownloadInv, PipDownloads
    PROVE  DownloadInv'
<1>1. /\ UNCHANGED <<packages, package, asked, error, staged, stuck, copied, stored, wheels,
                     failures, total, cancelled, outcome>>
      /\ step = "pip" /\ step' = "inspect" /\ output' \in Output
  BY DEF PipDownloads
<1>2. DownloadTypeOK'
  BY <1>1 DEF DownloadInv, DownloadTypeOK
<1>3. Places' /\ Errors' /\ Contents'
  BY <1>1 DEF DownloadInv, Places, Errors, Contents, InTransaction, InAttempt
<1>4. Directories'
  BY <1>1 DEF DownloadInv, Directories, InTransaction, InAttempt, Publication, Attempt
<1> QED BY <1>1, <1>2, <1>3, <1>4, BooksKept DEF DownloadInv

\* _publish_wheel copies a wheel that was inspected and is within the limit.
LEMMA PublishWheelInv ==
    ASSUME DownloadInv, _publish_wheel
    PROVE  DownloadInv'
<1>1. /\ UNCHANGED <<packages, package, asked, error, staged, stuck, output, stored, wheels,
                     failures, total, cancelled, outcome>>
      /\ step = "publish" /\ step' = "drop"
      /\ copied' = [source |-> asked, size |-> output.size]
  BY DEF _publish_wheel
<1>2. copied' \in Wheel /\ copied'.size <= MaxWheelBytes
  <2>1. output \in Output /\ output.size <= MaxWheelBytes
    BY <1>1 DEF DownloadInv, DownloadTypeOK, Contents
  <2>2. asked \in 1 .. Len(SourceOrder)
    BY <1>1, Sizes DEF DownloadInv, DownloadTypeOK, Places, InAttempt
  <2>3. output.size \in 1 .. MaxBytes
    BY <2>1 DEF Output
  <2> QED BY <1>1, <2>1, <2>2, <2>3 DEF Wheel
<1>3. DownloadTypeOK'
  BY <1>1, <1>2 DEF DownloadInv, DownloadTypeOK
<1>4. Places' /\ Errors' /\ Contents'
  BY <1>1, <1>2 DEF DownloadInv, Places, Errors, Contents, InTransaction, InAttempt
<1>5. Directories'
  BY <1>1 DEF DownloadInv, Directories, InTransaction, InAttempt, Publication, Attempt
<1> QED BY <1>1, <1>3, <1>4, <1>5, BooksKept DEF DownloadInv

\* A directory that is dropped is gone, or known to be stuck.
LEMMA RemoveGood ==
    ASSUME NEW name \in Names, Remove(name), staged \subseteq Names, stuck \subseteq Names
    PROVE  /\ staged' \subseteq staged /\ stuck \subseteq stuck' /\ stuck' \subseteq Names
           /\ name \in staged' => name \in stuck'
BY DEF Remove

\* The attempt directory goes, or is stuck; then the next step or the exception.
LEMMA DropAttemptInv ==
    ASSUME DownloadInv, DropAttempt
    PROVE  DownloadInv'
<1>1. /\ UNCHANGED <<packages, package, error, output, copied, stored, wheels, failures, total,
                     cancelled, outcome>>
      /\ step = "drop" /\ Remove(Attempt)
      /\ \/ error # "none" /\ step' = "unwind" /\ UNCHANGED asked
         \/ error = "none" /\ copied # NoWheel /\ step' = "commit" /\ UNCHANGED asked
         \/ error = "none" /\ step' = "source" /\ asked' = asked + 1
  BY DEF DropAttempt
<1>2. /\ package \in 1 .. MaxPackages /\ asked \in 1 .. Len(SourceOrder)
      /\ package <= packages /\ Attempt \in Names
  <2>1. /\ package \in 1 .. MaxPackages /\ asked \in 1 .. Len(SourceOrder)
        /\ package <= packages
    BY <1>1, Sizes DEF DownloadInv, DownloadTypeOK, Places, InTransaction, InAttempt
  <2> QED BY <2>1 DEF Packages, Attempt, Names
<1>3. /\ staged' \subseteq staged /\ stuck \subseteq stuck' /\ stuck' \subseteq Names
      /\ Attempt \in staged' => Attempt \in stuck'
  BY <1>1, <1>2, RemoveGood DEF DownloadInv, DownloadTypeOK
<1>4. asked' \in 1 .. Len(SourceOrder) + 1
  BY <1>1, <1>2, Sizes
<1>5. DownloadTypeOK'
  BY <1>1, <1>3, <1>4 DEF DownloadInv, DownloadTypeOK
<1>6. Places' /\ Errors' /\ Contents'
  BY <1>1, <1>2 DEF DownloadInv, Places, Errors, Contents, InTransaction, InAttempt
<1>7. Directories'
  <2>1. staged \subseteq stuck \cup {Publication} \cup {Attempt}
    BY <1>1 DEF DownloadInv, Directories, InTransaction, InAttempt
  <2>2. Publication' = Publication /\ InTransaction'
    BY <1>1 DEF Publication, InTransaction
  <2>3. staged' \subseteq stuck' \cup {Publication}
    BY <1>3, <2>1
  <2> QED BY <2>2, <2>3 DEF Directories
<1> QED BY <1>1, <1>5, <1>6, <1>7, BooksKept DEF DownloadInv

\* The commit stores the copied wheel under the current package.
LEMMA CommitInv ==
    ASSUME DownloadInv, Commit
    PROVE  DownloadInv'
<1>1. /\ UNCHANGED <<packages, package, asked, error, stuck, output, copied, wheels, failures,
                     total, cancelled, outcome>>
      /\ step = "commit" /\ step' = "report" /\ staged' = staged \ {Publication}
      /\ stored' = [stored EXCEPT ![package] = copied]
  BY DEF Commit
<1>2. /\ package \in Packages /\ package <= packages /\ copied \in Wheel
      /\ stored \in [Packages -> Wheel \cup {NoWheel}]
  <2>1. package \in 1 .. MaxPackages /\ package <= packages
    BY <1>1, Sizes DEF DownloadInv, DownloadTypeOK, Places, InTransaction, InAttempt
  <2> QED BY <1>1, <2>1 DEF Packages, DownloadInv, DownloadTypeOK, Contents
<1>3. /\ stored' \in [Packages -> Wheel \cup {NoWheel}] /\ stored'[package] = copied
      /\ \A p \in Packages \ {package} : stored'[p] = stored[p]
  BY <1>1, <1>2
<1>4. DownloadTypeOK'
  BY <1>1, <1>3 DEF DownloadInv, DownloadTypeOK
<1>5. Places' /\ Errors' /\ Contents'
  BY <1>1, <1>3 DEF DownloadInv, Places, Errors, Contents, InTransaction, InAttempt
<1>6. Directories'
  BY <1>1 DEF DownloadInv, Directories, InTransaction, InAttempt, Publication
<1>7. package \notin wheels /\ wheels \subseteq Packages
  <2>1. package \notin 1 .. package - 1
    BY <1>2 DEF Packages
  <2> QED BY <2>1 DEF DownloadInv, Books, DownloadTypeOK
<1>8. Books'
  BY <1>1, <1>3, <1>7 DEF DownloadInv, Books
<1>9. Totals'
  <2>1. PICK sum \in [0 .. MaxPackages -> 0 .. MaxTotalBytes] :
          /\ RunningTotals(sum)
          /\ \A n \in package - 1 .. MaxPackages : sum[n] = sum[package - 1]
          /\ step # "ended" => total = sum[package - 1]
    BY DEF DownloadInv, Totals
  <2>2. RunningTotals(sum)'
    BY <1>1, <1>3, <1>7, <2>1 DEF RunningTotals
  <2> QED BY <1>1, <2>1, <2>2 DEF Totals
<1> QED BY <1>4, <1>5, <1>6, <1>8, <1>9 DEF DownloadInv

\* The next package, the current one being reported as a wheel or a failure.
LEMMA NextPackageBooks ==
    ASSUME DownloadInv, step \in {"package", "unwind"}, package \in Packages,
           failures' = failures \cup {package}, package' = package + 1,
           step' = "package", UNCHANGED <<stored, wheels, total>>
    PROVE  Books' /\ Totals'
<1>1. package \in 1 .. MaxPackages /\ MaxPackages \in Nat
  BY Sizes DEF Packages
<1>2. 1 .. package' - 1 = (1 .. package - 1) \cup {package} /\ package \notin 1 .. package - 1
  BY <1>1
<1>3. Books'
  <2>1. wheels' \cup failures' = 1 .. package' - 1 /\ wheels' \cap failures' = {}
    BY <1>2 DEF DownloadInv, Books
  <2> QED BY <2>1 DEF DownloadInv, Books
<1>4. Totals'
  <2>1. PICK sum \in [0 .. MaxPackages -> 0 .. MaxTotalBytes] :
          /\ RunningTotals(sum)
          /\ \A n \in package - 1 .. MaxPackages : sum[n] = sum[package - 1]
          /\ step # "ended" => total = sum[package - 1]
    BY DEF DownloadInv, Totals
  <2>2. RunningTotals(sum)'
    BY <2>1 DEF RunningTotals
  <2>3. package \in package - 1 .. MaxPackages /\ package' - 1 = package
    BY <1>1
  <2>4. \A n \in package .. MaxPackages : n \in package - 1 .. MaxPackages
    BY <1>1
  <2>5. sum[package] = sum[package - 1] /\ \A n \in package .. MaxPackages : sum[n] = sum[package]
    BY <2>1, <2>3, <2>4
  <2>6. total = sum[package]
    BY <2>1, <2>5
  <2> QED BY <2>1, <2>2, <2>3, <2>5, <2>6 DEF Totals
<1> QED BY <1>3, <1>4

\* A transaction that cannot begin stores and reports nothing.
LEMMA BeginFailsInv ==
    ASSUME DownloadInv, BeginFails
    PROVE  DownloadInv'
<1>1. /\ UNCHANGED <<packages, asked, error, output, copied, stored, wheels, total, cancelled>>
      /\ step = "package" /\ package <= packages
      /\ \/ /\ failures' = failures \cup {package} /\ package' = package + 1
            /\ UNCHANGED <<step, outcome>>
         \/ step' = "ended" /\ outcome' = "raised" /\ UNCHANGED <<failures, package>>
  BY DEF BeginFails, End
<1>2. package \in 1 .. MaxPackages /\ packages <= MaxPackages /\ packages \in Nat
  BY <1>1, Sizes DEF DownloadInv, DownloadTypeOK, Places
<1>3. package \in Packages /\ Publication \in Names
  BY <1>1, <1>2, Sizes DEF Packages, Publication, Names
<1>4. PICK rest \in SUBSET {Publication} : staged' = staged \cup rest /\ stuck' = stuck \cup rest
  BY DEF BeginFails
<1>5. Directories'
  BY <1>1, <1>4 DEF DownloadInv, Directories, InTransaction, InAttempt
<1>6. CASE failures' = failures \cup {package} /\ package' = package + 1 /\ UNCHANGED <<step,
                                                                                        outcome>>
  <2>1. package' \in 1 .. MaxPackages + 1
    BY <1>2, <1>6, Sizes
  <2>2. DownloadTypeOK'
    BY <1>1, <1>3, <1>4, <1>6, <2>1 DEF DownloadInv, DownloadTypeOK
  <2>3. Places' /\ Errors' /\ Contents'
    BY <1>1, <1>2, <1>6 DEF DownloadInv, Places, Errors, Contents, InTransaction, InAttempt
  <2>4. Books' /\ Totals'
    BY <1>1, <1>3, <1>6, NextPackageBooks
  <2> QED BY <1>5, <2>2, <2>3, <2>4 DEF DownloadInv
<1>7. CASE step' = "ended" /\ outcome' = "raised" /\ UNCHANGED <<failures, package>>
  <2>1. DownloadTypeOK'
    BY <1>1, <1>3, <1>4, <1>7 DEF DownloadInv, DownloadTypeOK
  <2>2. Places' /\ Errors' /\ Contents'
    BY <1>1, <1>7 DEF DownloadInv, Places, Errors, Contents, InTransaction, InAttempt
  <2>3. Books' /\ Totals'
    BY <1>1, <1>7, BooksKept
  <2> QED BY <1>5, <2>1, <2>2, <2>3 DEF DownloadInv
<1> QED BY <1>1, <1>6, <1>7

\* The committed wheel is reported and counted, or the total is exceeded and the
\* stage ends.
LEMMA AddWheelInv ==
    ASSUME DownloadInv, AddWheel
    PROVE  DownloadInv'
<1>1. /\ UNCHANGED <<packages, asked, error, staged, stuck, output, copied, stored, failures,
                     cancelled>>
      /\ step = "report" /\ total' = total + copied.size
  BY DEF AddWheel
<1>2. /\ package \in 1 .. MaxPackages /\ packages \in Nat /\ packages <= MaxPackages
      /\ package <= packages /\ package \in Packages
  BY <1>1, Sizes DEF DownloadInv, DownloadTypeOK, Places, Packages
<1>3. /\ copied \in Wheel /\ copied # NoWheel
      /\ copied.size \in 1 .. MaxWheelBytes /\ copied.size \in Nat
  <2>1. copied \in Wheel /\ copied.size <= MaxWheelBytes
    BY <1>1 DEF DownloadInv, DownloadTypeOK, Contents
  <2>2. copied # NoWheel
    BY <2>1
  <2> QED BY <2>1, <2>2, Sizes DEF Wheel
<1>4. PICK sum \in [0 .. MaxPackages -> 0 .. MaxTotalBytes] :
        /\ RunningTotals(sum)
        /\ \A n \in package - 1 .. MaxPackages : sum[n] = sum[package - 1]
        /\ step # "ended" => total = sum[package - 1]
  BY DEF DownloadInv, Totals
<1>5. package - 1 \in 0 .. MaxPackages /\ total = sum[package - 1] /\ total \in 0 .. MaxTotalBytes
  BY <1>1, <1>2, <1>4, Sizes
<1>6. total' \in Nat /\ total' \in 0 .. MaxTotalBytes + MaxWheelBytes
  <2>1. PICK size \in Nat : size = copied.size /\ size <= MaxWheelBytes
    BY <1>3
  <2>2. total' = total + size
    BY <1>1, <2>1
  <2> QED BY <1>5, <2>1, <2>2, Sizes
<1>7. CASE copied.size > MaxWheelBytes \/ total' > MaxTotalBytes
  <2>1. step' = "ended" /\ outcome' = "over_limit" /\ UNCHANGED <<wheels, package>>
    BY <1>7 DEF AddWheel, End
  <2>2. DownloadTypeOK'
    BY <1>1, <1>6, <2>1 DEF DownloadInv, DownloadTypeOK
  <2>3. Places' /\ Errors' /\ Contents'
    BY <1>1, <2>1 DEF DownloadInv, Places, Errors, Contents, InTransaction, InAttempt
  <2>4. Directories'
    BY <1>1, <2>1 DEF DownloadInv, Directories, InTransaction, InAttempt
  <2>5. Books'
    BY <1>1, <2>1 DEF DownloadInv, Books
  <2>6. RunningTotals(sum)'
    BY <1>1, <1>4, <2>1 DEF RunningTotals
  <2>7. Totals'
    BY <1>4, <2>1, <2>6 DEF Totals
  <2> QED BY <2>2, <2>3, <2>4, <2>5, <2>7 DEF DownloadInv
<1>8. CASE ~(copied.size > MaxWheelBytes \/ total' > MaxTotalBytes)
  <2>1. /\ wheels' = wheels \cup {package} /\ package' = package + 1
        /\ step' = "package" /\ UNCHANGED outcome
    BY <1>8 DEF AddWheel
  <2>2. DownloadTypeOK'
    <3>1. package' \in 1 .. MaxPackages + 1
      BY <1>2, <2>1, Sizes
    <3> QED BY <1>1, <1>2, <1>6, <2>1, <3>1 DEF DownloadInv, DownloadTypeOK
  <2>3. Places' /\ Errors' /\ Contents'
    BY <1>1, <1>2, <2>1 DEF DownloadInv, Places, Errors, Contents, InTransaction, InAttempt
  <2>4. Directories'
    BY <1>1, <2>1 DEF DownloadInv, Directories, InTransaction, InAttempt
  <2>5. Books'
    <3>1. 1 .. package' - 1 = (1 .. package - 1) \cup {package} /\ package \notin 1 .. package - 1
      BY <1>2, <2>1
    <3>2. wheels' \cup failures' = 1 .. package' - 1 /\ wheels' \cap failures' = {}
      BY <1>1, <2>1, <3>1 DEF DownloadInv, Books
    <3>3. stored[package] # NoWheel
      BY <1>1, <1>3 DEF DownloadInv, Contents
    <3> QED BY <1>1, <2>1, <3>2, <3>3 DEF DownloadInv, Books
  <2>6. PICK new : new = [n \in 0 .. MaxPackages |-> IF n >= package THEN total' ELSE sum[n]]
    OBVIOUS
  <2>7. /\ new \in [0 .. MaxPackages -> 0 .. MaxTotalBytes]
        /\ \A n \in 0 .. MaxPackages : n >= package => new[n] = total'
        /\ \A n \in 0 .. MaxPackages : ~(n >= package) => new[n] = sum[n]
    BY <1>2, <1>6, <1>8, <2>6, Sizes
  <2>8. ASSUME NEW p \in Packages
        PROVE  new[p] = new[p - 1] + IF p \in wheels' THEN stored[p].size ELSE 0
    <3>1. p \in 1 .. MaxPackages /\ p \in 0 .. MaxPackages /\ p - 1 \in 0 .. MaxPackages
      BY Sizes DEF Packages
    <3>2. sum[p] = sum[p - 1] + IF p \in wheels THEN stored[p].size ELSE 0
      BY <1>4 DEF RunningTotals
    <3>3. CASE p < package
      BY <1>2, <2>1, <2>7, <3>1, <3>2, <3>3
    <3>4. CASE p = package
      <4>1. new[p] = total' /\ new[p - 1] = sum[package - 1] /\ p \in wheels'
        BY <1>2, <2>1, <2>7, <3>1, <3>4
      <4>2. stored[p] = copied
        BY <1>1, <3>4 DEF DownloadInv, Contents
      <4> QED BY <1>1, <1>5, <4>1, <4>2
    <3>5. CASE p > package
      <4>1. new[p] = total' /\ new[p - 1] = total'
        BY <1>2, <2>7, <3>1, <3>5
      <4>2. p \notin wheels'
        <5>1. p \notin 1 .. package - 1 /\ p # package
          BY <1>2, <3>1, <3>5
        <5> QED BY <2>1, <5>1 DEF DownloadInv, Books
      <4>3. (IF p \in wheels' THEN stored[p].size ELSE 0) = 0
        BY <4>2
      <4>4. \A n \in Nat : n = n + 0
        OBVIOUS
      <4> QED BY <1>6, <4>1, <4>3, <4>4
    <3> QED BY <1>2, <3>1, <3>3, <3>4, <3>5
  <2>9. new[0] = 0
    BY <1>2, <1>4, <2>7, Sizes DEF RunningTotals
  <2>10. RunningTotals(new)'
    BY <1>1, <2>8, <2>9 DEF RunningTotals, Packages
  <2>11. /\ \A n \in package' - 1 .. MaxPackages : new[n] = new[package' - 1]
         /\ total' = new[package' - 1]
    BY <1>2, <2>1, <2>7, Sizes
  <2>12. Totals'
    BY <2>7, <2>10, <2>11 DEF Totals
  <2> QED BY <2>2, <2>3, <2>4, <2>5, <2>12 DEF DownloadInv
<1> QED BY <1>7, <1>8

\* An exception leaves the transaction: the package is a failure, or the stage
\* ends.
LEMMA UnwindTransactionInv ==
    ASSUME DownloadInv, UnwindTransaction
    PROVE  DownloadInv'
<1>1. /\ UNCHANGED <<packages, asked, output, copied, stored, wheels, total, cancelled>>
      /\ step = "unwind" /\ Remove(Publication) /\ error' = "none"
      /\ \/ /\ failures' = failures \cup {package} /\ package' = package + 1
            /\ step' = "package" /\ UNCHANGED outcome
         \/ /\ step' = "ended" /\ outcome' = error /\ error # "failed"
            /\ UNCHANGED <<failures, package>>
  BY DEF UnwindTransaction, End
<1>2. /\ package \in 1 .. MaxPackages /\ packages \in Nat /\ packages <= MaxPackages
      /\ package <= packages /\ package \in Packages
  BY <1>1, Sizes DEF DownloadInv, DownloadTypeOK, Places, InTransaction, Packages
<1>3. /\ staged' \subseteq staged /\ stuck \subseteq stuck' /\ stuck' \subseteq Names
      /\ Publication \in staged' => Publication \in stuck'
  <2>1. Publication \in Names
    BY <1>2 DEF Publication, Names
  <2> QED BY <1>1, <2>1, RemoveGood DEF DownloadInv, DownloadTypeOK
<1>4. Directories'
  <2>1. staged \subseteq stuck \cup {Publication}
    BY <1>1 DEF DownloadInv, Directories, InTransaction, InAttempt
  <2> QED BY <1>3, <2>1 DEF Directories
<1>5. CASE failures' = failures \cup {package} /\ package' = package + 1 /\ step' = "package"
  <2>1. UNCHANGED outcome
    BY <1>1, <1>5
  <2>2. DownloadTypeOK'
    <3>1. package' \in 1 .. MaxPackages + 1
      BY <1>2, <1>5, Sizes
    <3> QED BY <1>1, <1>2, <1>3, <1>5, <2>1, <3>1 DEF DownloadInv, DownloadTypeOK
  <2>3. Places' /\ Errors' /\ Contents'
    BY <1>1, <1>2, <1>5, <2>1 DEF DownloadInv, Places, Errors, Contents, InTransaction, InAttempt
  <2>4. Books' /\ Totals'
    BY <1>1, <1>2, <1>5, NextPackageBooks
  <2> QED BY <1>4, <2>2, <2>3, <2>4 DEF DownloadInv
<1>6. CASE step' = "ended"
  <2>1. UNCHANGED <<failures, package>> /\ outcome' \in {"cancelled", "raised"}
    BY <1>1, <1>6 DEF DownloadInv, DownloadTypeOK, Errors
  <2>2. DownloadTypeOK'
    BY <1>1, <1>3, <1>6, <2>1 DEF DownloadInv, DownloadTypeOK
  <2>3. Places' /\ Errors' /\ Contents'
    BY <1>1, <1>2, <1>6, <2>1 DEF DownloadInv, Places, Errors, Contents, InTransaction, InAttempt
  <2>4. Books' /\ Totals'
    BY <1>1, <2>1, BooksKept
  <2> QED BY <1>4, <2>2, <2>3, <2>4 DEF DownloadInv
<1> QED BY <1>1, <1>5, <1>6

\* The stage begins, returns, or the user cancels.
LEMMA OutsideInv ==
    ASSUME DownloadInv,
           (\E count \in 0 .. MaxPackages + 1 : StartDownload(count)) \/ ReturnDownload
             \/ RequestCancel \/ UNCHANGED downloadVars
    PROVE  DownloadInv'
<1>1. CASE UNCHANGED downloadVars
  <2>1. DownloadTypeOK' /\ Places' /\ Errors'
    BY <1>1 DEF downloadVars, DownloadInv, DownloadTypeOK, Places, Errors, InTransaction, InAttempt
  <2>2. Contents' /\ Directories'
    BY <1>1 DEF downloadVars, DownloadInv, Contents, Directories, InTransaction, InAttempt,
                Publication, Attempt
  <2>3. Books' /\ Totals'
    BY <1>1 DEF downloadVars, DownloadInv, Books, Totals, RunningTotals
  <2> QED BY <2>1, <2>2, <2>3 DEF DownloadInv
<1>2. CASE RequestCancel
  <2>1. /\ UNCHANGED <<step, packages, package, asked, error, staged, stuck, output, copied,
                       stored, wheels, failures, total, outcome>>
        /\ cancelled' = TRUE
    BY <1>2 DEF RequestCancel
  <2>2. DownloadTypeOK' /\ Places' /\ Errors'
    BY <2>1 DEF DownloadInv, DownloadTypeOK, Places, Errors, InTransaction, InAttempt
  <2>3. Contents' /\ Directories'
    BY <2>1 DEF DownloadInv, Contents, Directories, InTransaction, InAttempt, Publication, Attempt
  <2>4. Books' /\ Totals'
    BY <2>1 DEF DownloadInv, Books, Totals, RunningTotals
  <2> QED BY <2>2, <2>3, <2>4 DEF DownloadInv
<1>3. CASE ReturnDownload
  <2>1. /\ UNCHANGED <<packages, package, asked, error, staged, stuck, output, copied,
                       stored, wheels, failures, total, cancelled>>
        /\ step = "package" /\ package > packages /\ step' = "ended" /\ outcome' = "returned"
    BY <1>3 DEF ReturnDownload, End
  <2>2. DownloadTypeOK' /\ Errors'
    BY <2>1 DEF DownloadInv, DownloadTypeOK, Errors
  <2>3. package = packages + 1
    BY <2>1, Sizes DEF DownloadInv, DownloadTypeOK, Places
  <2>4. Places' /\ Contents'
    BY <2>1, <2>3 DEF DownloadInv, Places, Contents, InTransaction, InAttempt
  <2>5. Directories'
    BY <2>1 DEF DownloadInv, Directories, InTransaction, InAttempt
  <2> QED BY <2>1, <2>2, <2>4, <2>5, BooksKept DEF DownloadInv
<1>4. CASE \E count \in 0 .. MaxPackages + 1 : StartDownload(count)
  <2>1. PICK count \in 0 .. MaxPackages + 1 : StartDownload(count)
    BY <1>4
  <2>2. /\ UNCHANGED <<package, asked, error, staged, stuck, output, copied, stored, wheels,
                       failures, total, cancelled>>
        /\ step = "waiting" /\ packages' = count
        /\ \/ step' = "ended" /\ outcome' = "over_limit"
           \/ step' = "package" /\ UNCHANGED outcome /\ count <= MaxPackages
    BY <2>1, Sizes DEF StartDownload, End
  <2>3. package = 1 /\ outcome = "none"
    BY <2>2 DEF DownloadInv, Places
  <2>4. DownloadTypeOK' /\ Errors'
    BY <2>1, <2>2, Sizes DEF DownloadInv, DownloadTypeOK, Errors
  <2>5. Places' /\ Contents'
    BY <2>2, <2>3, Sizes DEF DownloadInv, Places, Contents, InTransaction, InAttempt
  <2>6. Directories'
    BY <2>2 DEF DownloadInv, Directories, InTransaction, InAttempt
  <2>7. Books'
    BY <2>2 DEF DownloadInv, Books
  <2>8. Totals'
    BY <2>2 DEF DownloadInv, Totals, RunningTotals
  <2> QED BY <2>4, <2>5, <2>6, <2>7, <2>8 DEF DownloadInv
<1> QED BY <1>1, <1>2, <1>3, <1>4

\* What a step of the two stages does to the download.
LEMMA DownloadSteps ==
    ASSUME [Next]_vars
    PROVE  \/ DownloadStep
           \/ \E count \in 0 .. MaxPackages + 1 : StartDownload(count)
           \/ RequestCancel \/ UNCHANGED downloadVars
BY DEF Next, Resolve, Hand, Download, Rest, vars

\* The inductive invariant of the download stage (the stage of
\* DefaultBuildStages.download over WheelDownloader.download_one): where it
\* is, what unwinds, which directories exist and what it has accounted for.
THEOREM DownloadInvariant == Spec => []DownloadInv
<1>1. Init => DownloadInv
  BY DownloadInitInv DEF Init
<1>2. DownloadInv /\ [Next]_vars => DownloadInv'
  BY DownloadSteps, MovesOnInv, BeginTransactionInv, AttemptInv, PipDownloadsInv, PublishWheelInv,
     DropAttemptInv, CommitInv, BeginFailsInv, AddWheelInv, UnwindTransactionInv, OutsideInv
     DEF DownloadStep
<1> QED BY <1>1, <1>2, PTL DEF Spec

\* However the packages went, and whatever was cancelled, raised or failed to
\* be removed, the work directory and the report of the download stage agree
\* (download of jobs/pipeline.py, download_one of download/wheels.py).
THEOREM DownloadIsAccounted == Spec => []DownloadAccounts
<1>1. DownloadInv => DownloadAccounts
  <2> SUFFICES ASSUME DownloadInv PROVE DownloadAccounts
    OBVIOUS
  <2>1. step \in {"package", "ended"} => staged \subseteq stuck
    BY DEF DownloadInv, Directories, InTransaction, InAttempt
  <2>2. /\ wheels \cap failures = {} /\ wheels \cup failures = 1 .. package - 1
        /\ \A p \in wheels : stored[p] # NoWheel
    BY DEF DownloadInv, Books
  <2>3. \A p \in failures : stored[p] = NoWheel
    <3>1. \A p \in failures : p \in Packages /\ p \notin wheels /\ p \in 1 .. package - 1
      BY <2>2 DEF DownloadInv, DownloadTypeOK
    <3>2. package \notin 1 .. package - 1
      BY Sizes DEF DownloadInv, DownloadTypeOK
    <3> QED BY <3>1, <3>2 DEF DownloadInv, Books
  <2>4. \E sum \in [0 .. MaxPackages -> 0 .. MaxTotalBytes] : RunningTotals(sum)
    BY DEF DownloadInv, Totals
  <2>5. outcome = "returned" => wheels \cup failures = 1 .. packages
    <3>1. outcome = "returned" => package = packages + 1
      BY DEF DownloadInv, Places
    <3>2. package = packages + 1 => package - 1 = packages
      BY Sizes DEF DownloadInv, DownloadTypeOK
    <3> QED BY <2>2, <3>1, <3>2
  <2> QED BY <2>1, <2>2, <2>3, <2>4, <2>5 DEF DownloadAccounts
<1> QED BY <1>1, DownloadInvariant, PTL

(***************************************************************************)
(* The resolve stage.                                                      *)
(***************************************************************************)
\* The first n entries of a choice.
Part(c, n) == [i \in 1 .. n |-> c[i]]

\* Where the search is, in its pins and its sources.
SearchPlaces ==
    /\ phase \notin {"stopped", "done"} => code = "none"
    /\ phase = "done" => code = "resolved"
    /\ phase = "originals" =>
          /\ pin = 1 /\ options = <<>> /\ left = {} /\ chosen = Originals
          /\ Len(attempts) = source - 1
    /\ phase \in {"pin", "discover"} => pin \in Pins /\ Len(options) = pin - 1
    /\ phase \in {"frontier", "try"} =>
          pin \in Pins /\ Len(options) = pin /\ left \subseteq Frontier(pin, options)
    /\ phase = "end" =>
          Len(options) = Len(Originals) /\ left = {} /\ (pin = Len(Originals) \/ Pins = {})

\* What the sources listed is a finite number of releases.
Observed ==
    IsFiniteSet(observed) /\ \A o \in observed : o[2] # Malformed

\* A replacement is never the original, nor is it offered twice.
OptionsDiffer ==
    \A p \in 1 .. Len(options) : \A n \in 1 .. Len(options[p].versions) :
       /\ options[p].versions[n] # Originals[p]
       /\ \A m \in 1 .. Len(options[p].versions) :
             options[p].versions[m] = options[p].versions[n] => m = n

\* The first attempts are the originals on every source.
OriginalsFirst ==
    phase \notin {"stopped", "done"} =>
       /\ \A n \in 1 .. Len(attempts) : n <= Len(SourceOrder) =>
             attempts[n] = <<Originals, SourceOrder[n]>>
       /\ phase # "originals" => Len(attempts) >= Len(SourceOrder)

\* The combination being tried: the first that was left, tried already on the
\* sources that support it and are no more to be asked.
Trying(c) ==
    /\ c \in Frontier(pin, options) /\ c \notin left /\ chosen = VersionsOf(c)
    /\ \A d \in left : Before(c, d)
    /\ \A s \in viable : _source_supports_substitutions(s, c)
    /\ \A s \in SourceIndexes \ viable : _source_supports_substitutions(s, c) => Tried(c, s)

InTrial == phase = "try" => viable # {} /\ \E c \in Frontier(pin, options) : Trying(c)

\* The choices the search is past.
Passed(c) ==
    \/ LastChanged(c) < pin
    \/ /\ LastChanged(c) = pin /\ phase \in {"frontier", "try", "end"}
       /\ Part(c, pin) \notin left /\ (phase = "try" => VersionsOf(c) # chosen)

PassedTried ==
    phase \in {"pin", "discover", "frontier", "try", "end"} =>
       \A c \in Selections : Passed(c) =>
          \A s \in SourceIndexes : Open(c, s) => Tried(c, s)

\* What was passed over shows in the budget.
PassedOverShows == phase \notin {"stopped", "done"} /\ passedOver => truncated

SearchInv ==
    /\ SearchTypeOK
    /\ SearchPlaces /\ Observed /\ OptionsDiffer /\ OriginalsFirst /\ InTrial /\ PassedTried
    /\ PassedOverShows /\ ChosenFirst /\ ExhaustedIsComplete

(***************************************************************************)
(* The order of the candidates.                                            *)
(***************************************************************************)
\* In a finite set with a strict total order, given by what is below each
\* element, every rank is taken, and ranks follow the order.
LEMMA Ranks ==
    ASSUME NEW S, IsFiniteSet(S), NEW lower,
           \A v \in S : lower[v] \in SUBSET S /\ v \notin lower[v],
           \A u, v, w \in S : u \in lower[v] /\ v \in lower[w] => u \in lower[w],
           \A v, w \in S : v = w \/ v \in lower[w] \/ w \in lower[v]
    PROVE  /\ \A n \in 1 .. Cardinality(S) : \E v \in S : Cardinality(lower[v]) = n - 1
           /\ \A v \in S : Cardinality(lower[v]) \in 0 .. Cardinality(S) - 1
           /\ \A v, w \in S : v \in lower[w] => Cardinality(lower[v]) < Cardinality(lower[w])
<1>1. Cardinality(S) \in Nat
  BY FS_CardinalityType
<1>2. ASSUME NEW v \in S
      PROVE  IsFiniteSet(lower[v]) /\ Cardinality(lower[v]) \in 0 .. Cardinality(S) - 1
  <2>1. lower[v] \in SUBSET S /\ lower[v] # S
    OBVIOUS
  <2>2. /\ IsFiniteSet(lower[v]) /\ Cardinality(lower[v]) <= Cardinality(S)
        /\ Cardinality(lower[v]) # Cardinality(S)
    BY <2>1, FS_Subset
  <2>3. Cardinality(lower[v]) \in Nat
    BY <2>2, FS_CardinalityType
  <2> QED BY <1>1, <2>2, <2>3
<1>3. ASSUME NEW v \in S, NEW w \in S, v \in lower[w]
      PROVE  Cardinality(lower[v]) < Cardinality(lower[w])
  <2>1. lower[v] \in SUBSET lower[w] /\ v \in lower[w] /\ v \notin lower[v]
    BY <1>3
  <2>2. /\ Cardinality(lower[v]) <= Cardinality(lower[w])
        /\ Cardinality(lower[v]) # Cardinality(lower[w])
    BY <1>2, <2>1, FS_Subset
  <2>3. Cardinality(lower[v]) \in Nat /\ Cardinality(lower[w]) \in Nat
    BY <1>2, FS_CardinalityType
  <2> QED BY <2>2, <2>3
<1>4. ASSUME NEW v \in S, NEW w \in S, Cardinality(lower[v]) = Cardinality(lower[w])
      PROVE  v = w
  <2>1. Cardinality(lower[v]) \in Nat /\ Cardinality(lower[w]) \in Nat
    BY <1>2, FS_CardinalityType
  <2>2. \A i \in Nat : ~(i < i)
    OBVIOUS
  <2>3. v \notin lower[w]
    BY <1>3, <1>4, <2>1, <2>2
  <2>4. w \notin lower[v]
    BY <1>3, <1>4, <2>1, <2>2
  <2> QED BY <2>3, <2>4
<1> DEFINE rank == [v \in S |-> Cardinality(lower[v])]
<1>5. rank \in Injection(S, 0 .. Cardinality(S) - 1)
  <2>1. \A v \in S : rank[v] = Cardinality(lower[v])
    OBVIOUS
  <2>2. rank \in [S -> 0 .. Cardinality(S) - 1]
    BY <1>2
  <2>3. \A v, w \in S : rank[v] = rank[w] => v = w
    BY <1>4, <2>1
  <2> HIDE DEF rank
  <2> QED BY <2>2, <2>3 DEF Injection, IsInjective
<1>6. IsFiniteSet(0 .. Cardinality(S) - 1) /\ Cardinality(0 .. Cardinality(S) - 1) = Cardinality(S)
  <2>1. PICK n \in Nat : n = Cardinality(S)
    BY <1>1
  <2>2. IsFiniteSet(0 .. n - 1) /\ Cardinality(0 .. n - 1) = IF 0 > n - 1 THEN 0 ELSE n - 1 - 0 + 1
    BY FS_Interval
  <2>3. (IF 0 > n - 1 THEN 0 ELSE n - 1 - 0 + 1) = n
    OBVIOUS
  <2> QED BY <2>1, <2>2, <2>3
<1>7. rank \in Surjection(S, 0 .. Cardinality(S) - 1)
  <2> HIDE DEF rank
  <2> QED BY <1>5, <1>6, FS_Injection
<1>8. ASSUME NEW n \in 1 .. Cardinality(S) PROVE \E v \in S : Cardinality(lower[v]) = n - 1
  <2>1. n - 1 \in 0 .. Cardinality(S) - 1
    BY <1>1
  <2>2. PICK v \in S : rank[v] = n - 1
    BY <1>7, <2>1 DEF Surjection
  <2> QED BY <2>2
<1> QED BY <1>2, <1>3, <1>8

\* Versions are compared field by field.
LEMMA NewerFields ==
    ASSUME NEW v \in Versions, NEW w \in Versions
    PROVE  /\ \A i \in 1 .. 4 : v[i] \in Nat
           /\ v = <<v[1], v[2], v[3], v[4]>>
           /\ Newer(v, w) <=>
                 \/ v[1] > w[1]
                 \/ v[1] = w[1] /\ v[2] > w[2]
                 \/ v[1] = w[1] /\ v[2] = w[2] /\ v[3] > w[3]
                 \/ v[1] = w[1] /\ v[2] = w[2] /\ v[3] = w[3] /\ v[4] > w[4]
<1>1. /\ v[1] \in Nat /\ v[2] \in Nat /\ v[3] \in Nat /\ v[4] \in Nat
      /\ v = <<v[1], v[2], v[3], v[4]>>
  BY DEF Versions
<1>2. \A i : i \in 1 .. 4 <=> i = 1 \/ i = 2 \/ i = 3 \/ i = 4
  OBVIOUS
<1>3. /\ 1 .. 1 - 1 = {} /\ 1 .. 2 - 1 = {1} /\ 1 .. 3 - 1 = {1, 2} /\ 1 .. 4 - 1 = {1, 2, 3}
  OBVIOUS
<1>4. Newer(v, w) <=>
                 \/ v[1] > w[1]
                 \/ v[1] = w[1] /\ v[2] > w[2]
                 \/ v[1] = w[1] /\ v[2] = w[2] /\ v[3] > w[3]
                 \/ v[1] = w[1] /\ v[2] = w[2] /\ v[3] = w[3] /\ v[4] > w[4]
  BY <1>2, <1>3 DEF Newer
<1> QED BY <1>1, <1>2, <1>4

\* The preference among the candidates of a pin is a strict total order.
LEMMA PreferredOrders ==
    ASSUME NEW o \in Versions
    PROVE  /\ \A v \in Versions : ~Preferred(o, v, v)
           /\ \A u, v, w \in Versions :
                 Preferred(o, u, v) /\ Preferred(o, v, w) => Preferred(o, u, w)
           /\ \A v, w \in Versions : v = w \/ Preferred(o, v, w) \/ Preferred(o, w, v)
<1>1. \A v \in Versions : Group(o, v) \in 1 .. 4
  <2> SUFFICES ASSUME NEW v \in Versions PROVE Group(o, v) \in 1 .. 4
    OBVIOUS
  <2>1. v[2] \in Nat /\ o[2] \in Nat
    BY NewerFields
  <2> QED BY <2>1 DEF Group
<1>2. \A v \in Versions : ~Newer(v, v)
  BY NewerFields
<1>3. \A u, v, w \in Versions : Newer(u, v) /\ Newer(v, w) => Newer(u, w)
  <2> SUFFICES ASSUME NEW u \in Versions, NEW v \in Versions, NEW w \in Versions,
                      Newer(u, v), Newer(v, w)
               PROVE  Newer(u, w)
    OBVIOUS
  <2>1. /\ u[1] \in Nat /\ u[2] \in Nat /\ u[3] \in Nat /\ u[4] \in Nat
        /\ v[1] \in Nat /\ v[2] \in Nat /\ v[3] \in Nat /\ v[4] \in Nat
        /\ w[1] \in Nat /\ w[2] \in Nat /\ w[3] \in Nat /\ w[4] \in Nat
    BY NewerFields
  <2> QED BY <2>1, NewerFields
<1>4. \A v, w \in Versions : v = w \/ Newer(v, w) \/ Newer(w, v)
  <2> SUFFICES ASSUME NEW v \in Versions, NEW w \in Versions, ~Newer(v, w), ~Newer(w, v)
               PROVE  v = w
    OBVIOUS
  <2>1. /\ v[1] \in Nat /\ v[2] \in Nat /\ v[3] \in Nat /\ v[4] \in Nat
        /\ w[1] \in Nat /\ w[2] \in Nat /\ w[3] \in Nat /\ w[4] \in Nat
        /\ v = <<v[1], v[2], v[3], v[4]>> /\ w = <<w[1], w[2], w[3], w[4]>>
    BY NewerFields
  <2>2. v[1] = w[1] /\ v[2] = w[2] /\ v[3] = w[3] /\ v[4] = w[4]
    BY <2>1, NewerFields
  <2> QED BY <2>1, <2>2
<1>5. \A v \in Versions : ~Preferred(o, v, v)
  BY <1>1, <1>2 DEF Preferred
<1>6. ASSUME NEW u \in Versions, NEW v \in Versions, NEW w \in Versions,
             Preferred(o, u, v), Preferred(o, v, w)
      PROVE  Preferred(o, u, w)
  BY <1>1, <1>3, <1>6 DEF Preferred
<1>7. ASSUME NEW v \in Versions, NEW w \in Versions
      PROVE  v = w \/ Preferred(o, v, w) \/ Preferred(o, w, v)
  BY <1>1, <1>4 DEF Preferred
<1> QED BY <1>5, <1>6, <1>7

\* ordered_candidates of resolver/candidates.py lists every candidate of a pin
\* exactly once, each before those it is preferred to: the higher versions of
\* the same minor upwards, the lower ones downwards, then the higher minors
\* upwards and the lower ones downwards.
THEOREM CandidatesAreOrdered ==
    ASSUME NEW o \in Versions, NEW available \in SUBSET Versions, IsFiniteSet(available)
    PROVE  LET all == Candidates(o, available)
               ordered == ordered_candidates(o, available)
           IN  /\ Cardinality(all) \in Nat
               /\ ordered \in [1 .. Cardinality(all) -> all]
               /\ \A m, n \in 1 .. Cardinality(all) : ordered[m] = ordered[n] => m = n
               /\ \A v \in all : \E n \in 1 .. Cardinality(all) : ordered[n] = v
               /\ \A m, n \in 1 .. Cardinality(all) :
                     m < n => Preferred(o, ordered[m], ordered[n])
<1> DEFINE all == Candidates(o, available)
           ordered == ordered_candidates(o, available)
<1>1. all \in SUBSET available /\ all \in SUBSET Versions
  BY DEF Candidates
<1>2. IsFiniteSet(all) /\ Cardinality(all) \in Nat
  BY <1>1, FS_Subset, FS_CardinalityType
<1> HIDE DEF all
<1>3. PICK lower : lower = [v \in all |-> {w \in all : Preferred(o, w, v)}]
  OBVIOUS
<1>4. \A v, w \in all : w \in lower[v] <=> Preferred(o, w, v)
  BY <1>3
<1> DEFINE Rank(v) == Cardinality({w \in all : Preferred(o, w, v)})
<1>5. \A v \in all : Cardinality(lower[v]) = Rank(v)
  BY <1>3
<1> HIDE DEF Rank
<1>6. /\ \A n \in 1 .. Cardinality(all) : \E v \in all : Rank(v) = n - 1
      /\ \A v \in all : Rank(v) \in 0 .. Cardinality(all) - 1
      /\ \A v, u \in all : Preferred(o, v, u) => Rank(v) < Rank(u)
  <2>1. \A v \in all : lower[v] \in SUBSET all /\ v \notin lower[v]
    BY <1>1, <1>3, PreferredOrders
  <2>2. \A u, v, w \in all : u \in lower[v] /\ v \in lower[w] => u \in lower[w]
    BY <1>1, <1>4, PreferredOrders
  <2>3. \A v, w \in all : v = w \/ v \in lower[w] \/ w \in lower[v]
    BY <1>1, <1>4, PreferredOrders
  <2>4. /\ \A n \in 1 .. Cardinality(all) : \E v \in all : Cardinality(lower[v]) = n - 1
        /\ \A v \in all : Cardinality(lower[v]) \in 0 .. Cardinality(all) - 1
        /\ \A v, w \in all : v \in lower[w] => Cardinality(lower[v]) < Cardinality(lower[w])
    BY <1>2, <2>1, <2>2, <2>3, Ranks
  <2> QED BY <1>4, <1>5, <2>4
<1>7. ordered = [n \in 1 .. Cardinality(all) |->
                   CHOOSE v \in all : Cardinality({w \in all : Preferred(o, w, v)}) = n - 1]
  BY DEF ordered_candidates, all
<1> HIDE DEF ordered
<1>8. \A n \in 1 .. Cardinality(all) : ordered[n] \in all /\ Rank(ordered[n]) = n - 1
  BY <1>6, <1>7 DEF Rank
<1>9. ordered \in [1 .. Cardinality(all) -> all]
  BY <1>7, <1>8
<1>10. ASSUME NEW m \in 1 .. Cardinality(all), NEW n \in 1 .. Cardinality(all),
              ordered[m] = ordered[n]
       PROVE  m = n
  <2>1. m - 1 = n - 1
    BY <1>8, <1>10
  <2> QED BY <2>1, <1>2
<1>11. ASSUME NEW v \in all, NEW w \in all, Rank(v) <= Rank(w) PROVE v = w \/ Preferred(o, v, w)
  <2>1. Rank(v) \in Nat /\ Rank(w) \in Nat
    BY <1>2, <1>6
  <2>2. ~Preferred(o, w, v)
    BY <1>6, <1>11, <2>1
  <2> QED BY <1>1, <2>2, PreferredOrders
<1>12. ASSUME NEW v \in all PROVE \E n \in 1 .. Cardinality(all) : ordered[n] = v
  <2>1. PICK k \in 0 .. Cardinality(all) - 1 : k = Rank(v)
    BY <1>6
  <2>2. PICK n \in 1 .. Cardinality(all) : n = k + 1
    BY <1>2
  <2>3. Rank(ordered[n]) = Rank(v) /\ ordered[n] \in all /\ k <= k
    BY <1>2, <1>8, <2>1, <2>2
  <2>4. ~Preferred(o, ordered[n], v) /\ ~Preferred(o, v, ordered[n])
    BY <1>2, <1>6, <2>1, <2>3
  <2>5. ordered[n] = v
    BY <1>1, <2>3, <2>4, PreferredOrders
  <2> QED BY <2>5
<1>13. ASSUME NEW m \in 1 .. Cardinality(all), NEW n \in 1 .. Cardinality(all), m < n
       PROVE  Preferred(o, ordered[m], ordered[n])
  <2>1. Rank(ordered[m]) <= Rank(ordered[n]) /\ m # n
    BY <1>2, <1>8, <1>13
  <2> QED BY <1>8, <1>10, <1>11, <2>1
<1> QED BY <1>2, <1>9, <1>10, <1>12, <1>13 DEF all, ordered

\* The values of a function on a finite set are finitely many.
LEMMA FiniteImage ==
    ASSUME NEW S, IsFiniteSet(S), NEW f, f = [x \in S |-> f[x]]
    PROVE  IsFiniteSet({f[x] : x \in S})
<1>1. f \in Surjection(S, {f[x] : x \in S})
  BY DEF Surjection
<1> QED BY <1>1, FS_Surjection

\* The constants of the search.
LEMMA Bounds ==
    /\ MaxObservations \in Nat \ {0} /\ MaxCombinations \in Nat \ {0}
    /\ MaxCandidates \in Nat \ {0} /\ MaxAttempts \in Nat \ {0}
    /\ MaxReleases \in Nat \ {0} /\ MaxListed \in Nat
    /\ Len(SourceOrder) \in Nat \ {0} /\ SourceIndexes = 1 .. Len(SourceOrder)
    /\ Len(Originals) \in Nat /\ Pins = 1 .. Len(Originals)
    /\ Originals \in [Pins -> Versions]
<1>1. Originals \in Seq(Versions)
  BY ResolverAssumption
<1>2. /\ {MaxReleases, MaxObservations, MaxCombinations, MaxCandidates, MaxAttempts}
             \subseteq Nat \ {0}
      /\ MaxListed \in Nat
  BY ResolverAssumption
<1> QED BY <1>1, <1>2, SourcesAssumption DEF Pins, SourceIndexes

\* The options of a pin are well formed, differ from the original and from
\* each other.
LEMMA OptionsOfAPin ==
    ASSUME NEW obs, IsFiniteSet(obs), \A e \in obs : e[2].version \in Versions,
           NEW o \in Versions, NEW opt, opt = _candidate_options_for_observations(obs, o)
    PROVE  /\ opt \in Option
           /\ Len(opt.versions) <= MaxCandidates /\ Len(opt.eligible) = Len(opt.versions)
           /\ \A n \in 1 .. Len(opt.versions) :
                 /\ opt.versions[n] # o
                 /\ \A m \in 1 .. Len(opt.versions) : opt.versions[m] = opt.versions[n] => m = n
<1> DEFINE listed == {e[2].version : e \in obs}
           available == {v \in listed : EligibleSources(obs, o, v) # {}}
           all == Candidates(o, available)
           ordered == ordered_candidates(o, available)
           accept == IF Len(ordered) < MaxCandidates THEN Len(ordered) ELSE MaxCandidates
           versions == SubSeq(ordered, 1, accept)
<1>1. IsFiniteSet(listed)
  <2> DEFINE f == [e \in obs |-> e[2].version]
  <2>1. listed = {f[e] : e \in obs} /\ f = [e \in obs |-> f[e]]
    OBVIOUS
  <2> HIDE DEF f
  <2> QED BY <2>1, FiniteImage
<1>2. available \in SUBSET Versions /\ IsFiniteSet(available)
  <2>1. available \in SUBSET listed
    OBVIOUS
  <2> QED BY <1>1, <2>1, FS_Subset
<1> HIDE DEF available
<1>3. /\ Cardinality(all) \in Nat /\ ordered \in [1 .. Cardinality(all) -> all]
      /\ \A m, n \in 1 .. Cardinality(all) : ordered[m] = ordered[n] => m = n
  BY <1>2, CandidatesAreOrdered
<1>4. \A v \in all : v \in Versions /\ v # o
  BY <1>2 DEF Candidates
<1> HIDE DEF ordered, all
<1>5. ordered \in Seq(all) /\ ordered \in Seq(Versions) /\ Len(ordered) = Cardinality(all)
  BY <1>3, <1>4
<1>6. accept \in Nat /\ accept <= Len(ordered) /\ accept <= MaxCandidates
  BY <1>3, <1>5, Bounds
<1> HIDE DEF accept
<1>7. /\ versions \in Seq(Versions) /\ Len(versions) = accept
      /\ \A n \in 1 .. accept : versions[n] = ordered[n] /\ n \in 1 .. Cardinality(all)
  BY <1>3, <1>5, <1>6
<1> HIDE DEF versions
<1>8. opt = [versions |-> versions,
             eligible |-> [n \in 1 .. accept |-> EligibleSources(obs, o, versions[n])]]
  BY DEF _candidate_options_for_observations, versions, accept, ordered, available
<1>9. [n \in 1 .. accept |-> EligibleSources(obs, o, versions[n])] \in Seq(SUBSET Sources)
  BY <1>6 DEF EligibleSources
<1>10. opt.versions = versions /\ Len(opt.eligible) = accept /\ opt \in Option
  BY <1>6, <1>7, <1>8, <1>9 DEF Option
<1>11. \A n \in 1 .. accept :
          versions[n] # o /\ \A m \in 1 .. accept : versions[m] = versions[n] => m = n
  BY <1>3, <1>4, <1>7
<1> QED BY <1>6, <1>7, <1>10, <1>11

(***************************************************************************)
(* The combinations of a frontier.                                         *)
(***************************************************************************)
\* itertools.product begins with a combination that comes before all others.
LEMMA FirstCombination ==
    ASSUME NEW p \in Nat, NEW S \in SUBSET [1 .. p -> Nat], S # {}
    PROVE  \E c \in S : \A d \in S \ {c} : Before(c, d)
<1> DEFINE Ahead(c, d, k) ==
              \/ \A i \in 1 .. k : c[i] = d[i]
              \/ \E i \in 1 .. k : c[i] < d[i] /\ \A j \in 1 .. i - 1 : c[j] = d[j]
           K == {k \in 0 .. p : \E c \in S : \A d \in S : Ahead(c, d, k)}
<1>1. 0 \in K
  OBVIOUS
<1>2. PICK m \in K : \A k \in K : m >= k
  <2>1. K # {} /\ \A k \in K : k \in 0 .. p
    BY <1>1
  <2>2. \A k \in 0 .. p : k \in -1 .. p
    OBVIOUS
  <2> HIDE DEF K
  <2>3. K \in SUBSET (-1 .. p)
    BY <2>1, <2>2
  <2> QED BY <2>1, <2>3, GreatestBelow
<1>3. m \in 0 .. p
  OBVIOUS
<1>4. PICK c \in S : \A d \in S : Ahead(c, d, m)
  OBVIOUS
<1>5. m = p
  <2> SUFFICES ASSUME m # p PROVE FALSE
    OBVIOUS
  <2>1. m + 1 \in 1 .. p
    BY <1>3
  <2> DEFINE T == {d \in S : \A i \in 1 .. m : c[i] = d[i]}
             V == {d[m + 1] : d \in T}
  <2>2. V \in SUBSET Nat /\ V # {}
    <3>1. c \in T /\ \A d \in T : d \in [1 .. p -> Nat]
      OBVIOUS
    <3> HIDE DEF T
    <3> QED BY <2>1, <3>1
  <2>3. PICK least \in V : \A n \in V : least <= n
    BY <2>2, LeastNatural
  <2>4. PICK e \in T : least = e[m + 1]
    BY <2>3
  <2>5. ASSUME NEW d \in S PROVE Ahead(e, d, m + 1)
    <3>1. CASE d \in T
      <4>1. e[m + 1] <= d[m + 1] /\ e[m + 1] \in Nat /\ d[m + 1] \in Nat
        BY <2>1, <2>3, <2>4, <3>1
      <4>2. \A i \in 1 .. m : e[i] = d[i]
        BY <2>4, <3>1
      <4>3. CASE e[m + 1] = d[m + 1]
        <5>1. \A i \in 1 .. m + 1 : i \in 1 .. m \/ i = m + 1
          BY <1>3
        <5>2. \A i \in 1 .. m + 1 : e[i] = d[i]
          BY <4>2, <4>3, <5>1
        <5> QED BY <5>2
      <4>4. CASE e[m + 1] < d[m + 1]
        <5>1. m + 1 \in 1 .. m + 1 /\ 1 .. (m + 1) - 1 = 1 .. m
          BY <1>3
        <5> QED BY <4>2, <4>4, <5>1
      <4>5. \A x, y \in Nat : x <= y => x = y \/ x < y
        OBVIOUS
      <4> HIDE DEF Ahead
      <4> QED BY <4>1, <4>3, <4>4, <4>5
    <3>2. CASE d \notin T
      <4>1. PICK i \in 1 .. m : c[i] < d[i] /\ \A j \in 1 .. i - 1 : c[j] = d[j]
        BY <1>4, <3>2
      <4>2. i \in 1 .. m + 1 /\ \A j \in 1 .. i - 1 : j \in 1 .. m
        BY <1>3
      <4>3. e[i] < d[i] /\ \A j \in 1 .. i - 1 : e[j] = d[j]
        BY <2>4, <4>1, <4>2
      <4> QED BY <4>2, <4>3
    <3> QED BY <3>1, <3>2
  <2>6. m + 1 \in K
    <3>1. e \in S /\ m + 1 \in 0 .. p
      BY <1>3, <2>1, <2>4
    <3> HIDE DEF Ahead
    <3> QED BY <2>5, <3>1
  <2>7. m >= m + 1
    <3> HIDE DEF K
    <3> QED BY <1>2, <2>6
  <2> QED BY <1>3, <2>7
<1>6. ASSUME NEW d \in S \ {c} PROVE Before(c, d)
  <2>1. DOMAIN c = 1 .. p /\ c \in [1 .. p -> Nat] /\ d \in [1 .. p -> Nat]
    OBVIOUS
  <2>2. ~\A i \in 1 .. p : c[i] = d[i]
    BY <2>1
  <2> QED BY <1>4, <1>5, <2>1, <2>2 DEF Before
<1> QED BY <1>6

\* What a choice says of a pin, 0 for those beyond it.
At(c, p) == IF p \in DOMAIN c THEN c[p] ELSE 0

\* A choice among the options found so far.
Choice(c) ==
    \A p \in Pins : At(c, p) \in Nat
       /\ (At(c, p) > 0 => p <= Len(options) /\ At(c, p) <= Len(options[p].versions))

\* The options found so far belong to the first pins and are versions.
LEMMA OptionTypes ==
    ASSUME SearchTypeOK
    PROVE  /\ Len(options) \in Nat /\ 1 .. Len(options) \subseteq Pins
           /\ \A p \in 1 .. Len(options) :
                 /\ Len(options[p].versions) \in 0 .. MaxCandidates
                 /\ options[p].versions \in Seq(Versions)
                 /\ \A n \in 1 .. Len(options[p].versions) : options[p].versions[n] \in Versions
<1>1. options \in Seq(Option) /\ Len(options) <= Len(Originals)
  BY DEF SearchTypeOK
<1>2. Len(options) \in Nat /\ \A p \in 1 .. Len(options) : options[p] \in Option
  BY <1>1
<1>3. \A p \in 1 .. Len(options) : options[p].versions \in Seq(Versions)
  BY <1>2 DEF Option
<1>4. \A p \in 1 .. Len(options) : Len(options[p].versions) \in 0 .. MaxCandidates
  BY <1>3, Bounds DEF SearchTypeOK
<1>5. \A p \in 1 .. Len(options) : \A n \in 1 .. Len(options[p].versions) :
         options[p].versions[n] \in Versions
  BY <1>3
<1> QED BY <1>1, <1>2, <1>3, <1>4, <1>5, Bounds

\* A choice stands for one version per pin: the candidate it names or the original.
LEMMA VersionsOfChoice ==
    ASSUME SearchTypeOK, NEW c, Choice(c)
    PROVE  /\ VersionsOf(c) \in [Pins -> Versions]
           /\ \A p \in Pins : VersionsOf(c)[p] =
                 IF At(c, p) > 0 THEN options[p].versions[At(c, p)] ELSE Originals[p]
<1>1. ASSUME NEW p \in Pins
      PROVE  /\ VersionsOf(c)[p] =
                   IF At(c, p) > 0 THEN options[p].versions[At(c, p)] ELSE Originals[p]
             /\ VersionsOf(c)[p] \in Versions
  <2>1. VersionsOf(c)[p] = IF p \in DOMAIN c /\ c[p] > 0
                             THEN options[p].versions[c[p]] ELSE Originals[p]
    BY DEF VersionsOf
  <2>2. VersionsOf(c)[p] = IF At(c, p) > 0 THEN options[p].versions[At(c, p)] ELSE Originals[p]
    <3>1. CASE p \in DOMAIN c
      BY <2>1, <3>1 DEF At
    <3>2. CASE p \notin DOMAIN c
      BY <2>1, <3>2 DEF At
    <3> QED BY <3>1, <3>2
  <2>3. CASE At(c, p) > 0
    <3>1. p \in 1 .. Len(options) /\ At(c, p) \in 1 .. Len(options[p].versions)
      BY <2>3, OptionTypes, Bounds DEF Choice
    <3> QED BY <2>2, <2>3, <3>1, OptionTypes
  <2>4. CASE ~(At(c, p) > 0)
    BY <2>2, <2>4, Bounds
  <2> QED BY <2>2, <2>3, <2>4
<1>2. VersionsOf(c) = [p \in Pins |-> VersionsOf(c)[p]]
  BY DEF VersionsOf
<1> QED BY <1>1, <1>2

\* The places of the versions of a choice are the choice.
LEMMA PlacesOfChoice ==
    ASSUME SearchTypeOK, OptionsDiffer, NEW c, Choice(c)
    PROVE  \A p \in Pins : PlaceOf(VersionsOf(c), p) = At(c, p)
<1> SUFFICES ASSUME NEW p \in Pins PROVE PlaceOf(VersionsOf(c), p) = At(c, p)
  OBVIOUS
<1>1. VersionsOf(c)[p] = IF At(c, p) > 0 THEN options[p].versions[At(c, p)] ELSE Originals[p]
  BY VersionsOfChoice
<1>2. CASE At(c, p) > 0
  <2>1. p \in 1 .. Len(options) /\ At(c, p) \in 1 .. Len(options[p].versions)
    BY <1>2, OptionTypes, Bounds DEF Choice
  <2>2. VersionsOf(c)[p] # Originals[p]
    BY <1>1, <1>2, <2>1 DEF OptionsDiffer
  <2>3. \A n \in 1 .. Len(options[p].versions) :
           options[p].versions[n] = VersionsOf(c)[p] => n = At(c, p)
    BY <1>1, <1>2, <2>1 DEF OptionsDiffer
  <2> QED BY <1>1, <1>2, <2>1, <2>2, <2>3 DEF PlaceOf
<1>3. CASE ~(At(c, p) > 0)
  <2>1. At(c, p) = 0
    BY <1>3 DEF Choice
  <2> QED BY <1>1, <1>3, <2>1 DEF PlaceOf
<1> QED BY <1>2, <1>3

\* Choices that say the same of every pin stand for the same versions, and
\* the other way round.
LEMMA SameChoice ==
    ASSUME SearchTypeOK, OptionsDiffer, NEW c, NEW d, Choice(c), Choice(d)
    PROVE  VersionsOf(c) = VersionsOf(d) <=> \A p \in Pins : At(c, p) = At(d, p)
<1>1. ASSUME VersionsOf(c) = VersionsOf(d) PROVE \A p \in Pins : At(c, p) = At(d, p)
  BY <1>1, PlacesOfChoice
<1>2. ASSUME \A p \in Pins : At(c, p) = At(d, p) PROVE VersionsOf(c) = VersionsOf(d)
  <2>1. \A p \in Pins : VersionsOf(c)[p] = VersionsOf(d)[p]
    BY <1>2, VersionsOfChoice
  <2>2. VersionsOf(c) \in [Pins -> Versions] /\ VersionsOf(d) \in [Pins -> Versions]
    BY VersionsOfChoice
  <2> QED BY <2>1, <2>2
<1> QED BY <1>1, <1>2

\* A full selection is a choice for every pin.
LEMMA SelectionIsChoice ==
    ASSUME SearchTypeOK, NEW c \in Selections
    PROVE  /\ Choice(c) /\ DOMAIN c = Pins /\ c \in [Pins -> 0 .. MaxCandidates]
           /\ \A p \in Pins : At(c, p) = c[p] /\ c[p] \in Nat
<1>1. c \in [Pins -> 0 .. MaxCandidates] /\ DOMAIN c = Pins
  BY DEF Selections
<1>2. \A p \in Pins : At(c, p) = c[p] /\ c[p] \in Nat
  BY <1>1, Bounds DEF At
<1>3. \A p \in Pins : c[p] <= IF p <= Len(options) THEN Len(options[p].versions) ELSE 0
  BY DEF Selections
<1>4. \A p \in Pins : c[p] > 0 => p <= Len(options) /\ c[p] <= Len(options[p].versions)
  BY <1>2, <1>3
<1> QED BY <1>1, <1>2, <1>4 DEF Choice

\* A combination of the frontier is a choice for the first n pins that replaces the
\* last of them.
LEMMA CombinationIsChoice ==
    ASSUME SearchTypeOK, NEW n \in Pins, n <= Len(options), NEW c \in Frontier(n, options)
    PROVE  /\ Choice(c) /\ DOMAIN c = 1 .. n /\ 1 .. n \subseteq Pins
           /\ c \in [1 .. n -> 0 .. MaxCandidates] /\ c[n] > 0
<1>1. c \in [1 .. n -> 0 .. MaxCandidates] /\ DOMAIN c = 1 .. n /\ c[n] > 0
  BY DEF Frontier
<1>2. 1 .. n \subseteq Pins /\ n \in Nat
  BY Bounds
<1>3. ASSUME NEW p \in Pins
      PROVE  /\ At(c, p) \in Nat
             /\ At(c, p) > 0 => p <= Len(options) /\ At(c, p) <= Len(options[p].versions)
  <2>1. CASE p \in 1 .. n
    <3>1. At(c, p) = c[p] /\ c[p] \in Nat /\ c[p] <= Len(options[p].versions)
      BY <1>1, <2>1, Bounds DEF At, Frontier
    <3>2. p <= Len(options)
      BY <2>1, Bounds, OptionTypes
    <3> QED BY <3>1, <3>2
  <2>2. CASE p \notin 1 .. n
    BY <1>1, <2>2 DEF At
  <2> QED BY <2>1, <2>2
<1> QED BY <1>1, <1>2, <1>3 DEF Choice

\* The last pin a choice replaces.
LEMMA LastChangedIs ==
    ASSUME NEW c \in [Pins -> Nat]
    PROVE  /\ LastChanged(c) \in 0 .. Len(Originals)
           /\ \A p \in Pins : c[p] > 0 => p <= LastChanged(c)
           /\ LastChanged(c) > 0 => LastChanged(c) \in Pins /\ c[LastChanged(c)] > 0
           /\ \A n \in Pins : c[n] > 0 /\ (\A p \in Pins : p > n => c[p] = 0)
                 => LastChanged(c) = n
<1> DEFINE S == {0} \cup {p \in Pins : c[p] > 0}
<1>1. S \in SUBSET (-1 .. Len(Originals)) /\ S # {}
  BY Bounds
<1>2. LastChanged(c) \in S /\ \A p \in S : LastChanged(c) >= p
  <2> HIDE DEF S
  <2>1. Max(S) \in S /\ \A p \in S : Max(S) >= p
    BY <1>1, MinMax, Bounds
  <2>2. LastChanged(c) = Max(S)
    BY DEF LastChanged, S
  <2> QED BY <2>1, <2>2
<1>3. LastChanged(c) \in 0 .. Len(Originals)
  BY <1>2, Bounds
<1>4. \A p \in Pins : c[p] > 0 => p <= LastChanged(c)
  BY <1>2, <1>3, Bounds
<1>5. LastChanged(c) > 0 => LastChanged(c) \in Pins /\ c[LastChanged(c)] > 0
  BY <1>2
<1>6. ASSUME NEW n \in Pins, c[n] > 0, \A p \in Pins : p > n => c[p] = 0
      PROVE  LastChanged(c) = n
  <2>1. n <= LastChanged(c) /\ n > 0 /\ n \in Nat
    BY <1>4, <1>6, Bounds
  <2>2. LastChanged(c) \in Pins /\ c[LastChanged(c)] > 0
    BY <1>3, <1>5, <2>1
  <2>3. ~(LastChanged(c) > n)
    BY <1>6, <2>2
  <2> QED BY <1>3, <2>1, <2>3
<1> QED BY <1>3, <1>4, <1>5, <1>6

\* A choice that replaces a pin last is in the frontier of that pin.
LEMMA PartInFrontier ==
    ASSUME NEW opts, NEW n \in Pins, n <= Len(opts), Len(opts) \in Nat,
           NEW c \in [Pins -> 0 .. MaxCandidates], LastChanged(c) = n,
           \A p \in Pins : c[p] <= IF p <= Len(opts) THEN Len(opts[p].versions) ELSE 0
    PROVE  Part(c, n) \in Frontier(n, opts)
<1>1. n \in Nat /\ n > 0 /\ n \in 1 .. n /\ \A p \in 1 .. n : p \in Pins /\ p <= Len(opts)
  BY Bounds
<1>2. c[n] > 0
  <2>1. c \in [Pins -> Nat]
    BY Bounds
  <2> QED BY <1>1, <2>1, LastChangedIs
<1>3. \A p \in 1 .. n : c[p] <= Len(opts[p].versions)
  BY <1>1
<1> QED BY <1>1, <1>2, <1>3 DEF Part, Frontier

\* A choice is the combination of its pins up to the last it replaces.
LEMMA PartOfSelection ==
    ASSUME SearchTypeOK, OptionsDiffer, NEW n \in Pins, n <= Len(options),
           NEW c \in Selections, LastChanged(c) = n
    PROVE  /\ Part(c, n) \in Frontier(n, options)
           /\ VersionsOf(Part(c, n)) = VersionsOf(c)
           /\ \A s \in SourceIndexes :
                 _source_supports_substitutions(s, Part(c, n)) <=> Open(c, s)
<1>1. /\ Choice(c) /\ c \in [Pins -> 0 .. MaxCandidates] /\ c \in [Pins -> Nat]
      /\ \A p \in Pins : At(c, p) = c[p] /\ c[p] \in Nat
  BY SelectionIsChoice, Bounds
<1>2. c[n] > 0 /\ \A p \in Pins : c[p] > 0 => p <= n
  <2>1. n > 0
    BY Bounds
  <2> QED BY <1>1, <2>1, LastChangedIs
<1>3. n \in Nat /\ 1 .. n \subseteq Pins /\ \A p \in Pins : p \in 1 .. n <=> p <= n
  BY Bounds
<1>4. PICK e : e = Part(c, n)
  OBVIOUS
<1>5. /\ DOMAIN e = 1 .. n /\ e \in [1 .. n -> 0 .. MaxCandidates]
      /\ \A p \in 1 .. n : e[p] = c[p]
  BY <1>1, <1>3, <1>4 DEF Part
<1>6. e \in Frontier(n, options)
  BY <1>1, <1>4, OptionTypes, PartInFrontier DEF Selections
<1>7. VersionsOf(e) = VersionsOf(c)
  <2>1. \A p \in Pins : At(e, p) = At(c, p)
    <3> SUFFICES ASSUME NEW p \in Pins PROVE At(e, p) = c[p]
      BY <1>1
    <3>1. CASE p \in 1 .. n
      BY <1>5, <3>1 DEF At
    <3>2. CASE p \notin 1 .. n
      <4>1. c[p] = 0
        BY <1>1, <1>2, <1>3, <3>2
      <4> QED BY <1>5, <3>2, <4>1 DEF At
    <3> QED BY <3>1, <3>2
  <2> QED BY <1>1, <1>6, <2>1, SameChoice, CombinationIsChoice
<1>8. ASSUME NEW s \in SourceIndexes
      PROVE  _source_supports_substitutions(s, e) <=> Open(c, s)
  BY <1>2, <1>3, <1>5 DEF _source_supports_substitutions, Open
<1> QED BY <1>4, <1>6, <1>7, <1>8

\* The choice that the versions of a combination stand for.
LEMMA PlacesOfCombination ==
    ASSUME SearchTypeOK, OptionsDiffer, NEW n \in Pins, n <= Len(options),
           NEW e \in Frontier(n, options),
           NEW d, d = [p \in Pins |-> PlaceOf(VersionsOf(e), p)]
    PROVE  /\ d \in Selections /\ LastChanged(d) = n /\ Part(d, n) = e
           /\ VersionsOf(d) = VersionsOf(e)
<1>1. /\ Choice(e) /\ DOMAIN e = 1 .. n /\ 1 .. n \subseteq Pins
      /\ e \in [1 .. n -> 0 .. MaxCandidates] /\ e[n] > 0 /\ n \in Nat /\ n \in 1 .. n
  BY CombinationIsChoice, Bounds
<1>2. \A p \in Pins : d[p] = At(e, p)
  BY PlacesOfChoice, <1>1
<1>3. \A p \in Pins : At(e, p) \in 0 .. MaxCandidates
  BY <1>1, Bounds DEF At
<1>4. d \in [Pins -> 0 .. MaxCandidates] /\ d \in [Pins -> Nat]
  BY <1>2, <1>3, Bounds
<1>5. d \in Selections
  <2> SUFFICES ASSUME NEW p \in Pins
               PROVE  d[p] <= IF p <= Len(options) THEN Len(options[p].versions) ELSE 0
    BY <1>4 DEF Selections
  <2>1. CASE At(e, p) > 0
    BY <1>1, <1>2, <2>1 DEF Choice
  <2>2. CASE ~(At(e, p) > 0)
    <3>1. At(e, p) = 0
      BY <1>1, <2>2 DEF Choice
    <3>2. p <= Len(options) => Len(options[p].versions) \in Nat
      BY OptionTypes, Bounds
    <3> QED BY <1>2, <3>1, <3>2
  <2> QED BY <2>1, <2>2
<1>6. LastChanged(d) = n
  <2>1. d[n] > 0
    BY <1>1, <1>2 DEF At
  <2>2. \A p \in Pins : p > n => d[p] = 0
    <3> SUFFICES ASSUME NEW p \in Pins, p > n PROVE At(e, p) = 0
      BY <1>2
    <3>1. p \notin 1 .. n
      BY <1>1, Bounds
    <3> QED BY <1>1, <3>1 DEF At
  <2> QED BY <1>4, <2>1, <2>2, LastChangedIs
<1>7. Part(d, n) = e
  <2>1. \A i \in 1 .. n : d[i] = e[i]
    BY <1>1, <1>2 DEF At
  <2> QED BY <1>1, <2>1 DEF Part
<1>8. VersionsOf(d) = VersionsOf(e)
  BY <1>5, <1>6, <1>7, PartOfSelection
<1> QED BY <1>5, <1>6, <1>7, <1>8

\* Of two combinations at most one comes before the other.
LEMMA BeforeIsStrict ==
    ASSUME NEW n \in Nat, NEW c \in [1 .. n -> Nat], NEW d \in [1 .. n -> Nat], Before(c, d)
    PROVE  ~Before(d, c)
<1> SUFFICES ASSUME Before(d, c) PROVE FALSE
  OBVIOUS
<1>1. PICK i \in 1 .. n : c[i] < d[i] /\ \A j \in 1 .. i - 1 : c[j] = d[j]
  BY DEF Before
<1>2. PICK k \in 1 .. n : d[k] < c[k] /\ \A j \in 1 .. k - 1 : d[j] = c[j]
  BY DEF Before
<1>3. c[i] \in Nat /\ d[i] \in Nat /\ c[k] \in Nat /\ d[k] \in Nat
  OBVIOUS
<1>4. CASE i < k
  <2>1. i \in 1 .. k - 1
    BY <1>4
  <2> QED BY <1>1, <1>2, <1>3, <2>1
<1>5. CASE k < i
  <2>1. k \in 1 .. i - 1
    BY <1>5
  <2> QED BY <1>1, <1>2, <1>3, <2>1
<1>6. CASE i = k
  BY <1>1, <1>2, <1>3, <1>6
<1> QED BY <1>4, <1>5, <1>6

\* The order of two choices is that of their combinations.
LEMMA BeforeOfParts ==
    ASSUME NEW n \in Pins, NEW c \in [Pins -> Nat], NEW d \in [Pins -> Nat],
           LastChanged(d) = n, Before(c, d)
    PROVE  Before(Part(c, n), Part(d, n))
<1>1. PICK i \in Pins : c[i] < d[i] /\ \A j \in 1 .. i - 1 : c[j] = d[j]
  BY DEF Before
<1>2. i <= n
  <2>1. d[i] > 0
    <3>1. c[i] \in Nat /\ d[i] \in Nat
      OBVIOUS
    <3> QED BY <1>1, <3>1
  <2> QED BY <2>1, LastChangedIs
<1>3. i \in 1 .. n /\ \A j \in 1 .. i - 1 : j \in 1 .. n
  BY <1>2, Bounds
<1>4. /\ DOMAIN Part(c, n) = 1 .. n
      /\ \A j \in 1 .. n : Part(c, n)[j] = c[j] /\ Part(d, n)[j] = d[j]
  BY DEF Part
<1> QED BY <1>1, <1>3, <1>4 DEF Before

(***************************************************************************)
(* The steps of the search.                                                *)
(***************************************************************************)
LEMMA SearchInitInv == ResolverInit => SearchInv
<1> SUFFICES ASSUME ResolverInit PROVE SearchInv
  OBVIOUS
<1>1. SearchTypeOK
  <2>1. /\ 1 \in SourceIndexes /\ 0 \in 0 .. MaxObservations /\ 0 \in 0 .. MaxCombinations
        /\ Len(<<>>) <= MaxAttempts /\ Len(<<>>) <= Len(Originals)
    BY Bounds
  <2>2. \A p \in 1 .. Len(<<>>) : FALSE
    OBVIOUS
  <2>3. /\ attempts \in Seq([Pins -> Versions] \X Sources) /\ options \in Seq(Option)
        /\ Len(attempts) <= MaxAttempts /\ Len(options) <= Len(Originals)
        /\ \A p \in 1 .. Len(options) : FALSE
    BY <2>1, <2>2, EmptySeq DEF ResolverInit
  <2>4. chosen \in [Pins -> Versions]
    BY Bounds DEF ResolverInit
  <2>5. {truncated, incomplete, bounded, passedOver} \subseteq BOOLEAN
    BY DEF ResolverInit
  <2>6. /\ phase = "originals" /\ code = "none" /\ pin = 1 /\ source = 1 /\ observed = {}
        /\ accepted = 0 /\ visited = 0 /\ left = {} /\ viable = {}
    BY DEF ResolverInit
  <2> QED BY <2>1, <2>3, <2>4, <2>5, <2>6 DEF SearchTypeOK
<1>2. SearchPlaces /\ PassedOverShows /\ ChosenFirst /\ ExhaustedIsComplete
  BY DEF ResolverInit, SearchPlaces, PassedOverShows, ChosenFirst, ExhaustedIsComplete
<1>3. Observed /\ OptionsDiffer /\ OriginalsFirst
  BY FS_EmptySet DEF ResolverInit, Observed, OptionsDiffer, OriginalsFirst
<1>4. InTrial /\ PassedTried
  BY DEF ResolverInit, InTrial, PassedTried
<1> QED BY <1>1, <1>2, <1>3, <1>4 DEF SearchInv

Errored == {"raised", "TIMEOUT", "ATTEMPT_LIMIT", "RESOURCE_LIMIT"}

\* A search that stops with an error claims nothing.
LEMMA ErrorInv ==
    ASSUME SearchInv, SearchTypeOK', phase' = "stopped", code' \in Errored,
           UNCHANGED <<observed, options>>
    PROVE  SearchInv'
<1>1. Observed' /\ OptionsDiffer'
  BY DEF SearchInv, Observed, OptionsDiffer
<1>2. SearchPlaces' /\ OriginalsFirst' /\ InTrial' /\ PassedTried' /\ PassedOverShows'
  BY DEF SearchPlaces, OriginalsFirst, InTrial, PassedTried, PassedOverShows
<1>3. ChosenFirst' /\ ExhaustedIsComplete'
  BY DEF ChosenFirst, ExhaustedIsComplete, Errored
<1> QED BY <1>1, <1>2, <1>3 DEF SearchInv

\* The deadline and the limits end the search without a claim.
LEMMA StopsInv ==
    ASSUME SearchInv, Deadline \/ AttemptLimit \/ OutOfObservations \/ OutOfCombinations
    PROVE  SearchInv'
<1>1. /\ UNCHANGED <<attempts, pin, source, observed, accepted, incomplete, options, left,
                     visited, chosen, viable, bounded, passedOver>>
      /\ phase' = "stopped" /\ code' \in Errored
      /\ truncated' = truncated \/ truncated' = TRUE
  BY DEF Deadline, AttemptLimit, OutOfObservations, OutOfCombinations, Stop, Errored
<1>2. SearchTypeOK'
  BY <1>1 DEF SearchInv, SearchTypeOK, Errored
<1> QED BY <1>1, <1>2, ErrorInv

\* A strict attempt on a source.
LEMMA AttemptMade ==
    ASSUME SearchTypeOK, Guard, NEW s \in SourceIndexes,
           attempts' = Append(attempts, <<chosen, SourceOrder[s]>>)
    PROVE  /\ attempts' \in Seq([Pins -> Versions] \X Sources) /\ Len(attempts') <= MaxAttempts
           /\ Len(attempts) \in Nat /\ Len(attempts') = Len(attempts) + 1
           /\ \A n \in 1 .. Len(attempts) : attempts'[n] = attempts[n]
           /\ attempts'[Len(attempts')] = <<chosen, SourceOrder[s]>>
<1>1. attempts \in Seq([Pins -> Versions] \X Sources) /\ chosen \in [Pins -> Versions]
  BY DEF SearchTypeOK
<1>2. <<chosen, SourceOrder[s]>> \in [Pins -> Versions] \X Sources
  BY <1>1 DEF Sources
<1>3. PICK e \in [Pins -> Versions] \X Sources : e = <<chosen, SourceOrder[s]>>
  BY <1>2
<1>4. attempts' = Append(attempts, e)
  BY <1>3
<1>5. /\ attempts' \in Seq([Pins -> Versions] \X Sources)
      /\ Len(attempts) \in Nat /\ Len(attempts') = Len(attempts) + 1
      /\ \A n \in 1 .. Len(attempts) : attempts'[n] = attempts[n]
      /\ attempts'[Len(attempts) + 1] = e
  BY <1>1, <1>4, AppendProperties, LenProperties
<1>6. Len(attempts') <= MaxAttempts
  BY <1>5, Bounds DEF Guard
<1> QED BY <1>3, <1>5, <1>6

\* What was tried stays tried.
LEMMA TriedStays ==
    ASSUME SearchTypeOK, NEW c, NEW s, Tried(c, s), UNCHANGED options,
           Len(attempts) \in Nat, Len(attempts') = Len(attempts) + 1,
           \A n \in 1 .. Len(attempts) : attempts'[n] = attempts[n]
    PROVE  Tried(c, s)'
<1>1. PICK n \in 1 .. Len(attempts) : attempts[n] = <<VersionsOf(c), SourceOrder[s]>>
  BY DEF Tried
<1>2. VersionsOf(c)' = VersionsOf(c)
  BY DEF VersionsOf
<1>3. n \in 1 .. Len(attempts') /\ attempts'[n] = <<VersionsOf(c), SourceOrder[s]>>
  BY <1>1
<1> QED BY <1>2, <1>3 DEF Tried

\* A source stands at one place of the order.
LEMMA IndexOfSource ==
    ASSUME NEW k \in SourceIndexes
    PROVE  k = CHOOSE s \in SourceIndexes : SourceOrder[s] = SourceOrder[k]
BY SourcesAssumption

\* A choice that replaces nothing stands for the originals.
LEMMA NothingReplaced ==
    ASSUME NEW c \in [Pins -> Nat], LastChanged(c) < 1
    PROVE  VersionsOf(c) = Originals /\ VersionsOf(c)' = Originals
<1>1. \A p \in Pins : ~(c[p] > 0)
  <2>1. \A p \in Pins : p > 0 /\ p \in Nat
    BY Bounds
  <2>2. LastChanged(c) \in Nat
    BY LastChangedIs, Bounds
  <2>3. \A p \in Pins : c[p] > 0 => p <= LastChanged(c)
    BY LastChangedIs
  <2> HIDE DEF LastChanged
  <2> QED BY <2>1, <2>2, <2>3
<1>2. Originals = [p \in Pins |-> Originals[p]]
  BY Bounds
<1> QED BY <1>1, <1>2 DEF VersionsOf

\* The originals are tried on the next source; if they resolve there, no source
\* before it resolved them.
LEMMA TryOriginalsInv ==
    ASSUME SearchInv, TryOriginals
    PROVE  SearchInv'
<1>1. /\ UNCHANGED <<pin, observed, accepted, truncated, incomplete, options, left, visited,
                     chosen, viable, bounded, passedOver>>
      /\ phase = "originals" /\ Guard
      /\ source' = IF source < Len(SourceOrder) THEN source + 1 ELSE 1
  BY DEF TryOriginals
<1>2. /\ SearchTypeOK /\ code = "none" /\ pin = 1 /\ options = <<>> /\ left = {}
      /\ chosen = Originals /\ Len(attempts) = source - 1
      /\ \A n \in 1 .. Len(attempts) : n <= Len(SourceOrder) =>
            attempts[n] = <<Originals, SourceOrder[n]>>
  BY <1>1 DEF SearchInv, SearchPlaces, OriginalsFirst
<1>3. source \in SourceIndexes /\ source \in 1 .. Len(SourceOrder) /\ source' \in SourceIndexes
  BY <1>1, <1>2, Bounds DEF SearchTypeOK
<1>4. ASSUME NEW c \in Selections' PROVE c \in [Pins -> Nat]
  BY Bounds DEF Selections
<1>5. CASE UNCHANGED attempts /\ Stop("raised")
  <2>1. SearchTypeOK'
    BY <1>1, <1>2, <1>3, <1>5 DEF SearchTypeOK, Stop
  <2> QED BY <1>1, <1>5, <2>1, ErrorInv DEF Stop, Errored
<1>6. CASE attempts' = Append(attempts, <<chosen, SourceOrder[source]>>)
  <2>1. /\ attempts' \in Seq([Pins -> Versions] \X Sources) /\ Len(attempts') <= MaxAttempts
        /\ Len(attempts) \in Nat /\ Len(attempts') = Len(attempts) + 1
        /\ \A n \in 1 .. Len(attempts) : attempts'[n] = attempts[n]
        /\ attempts'[Len(attempts')] = <<chosen, SourceOrder[source]>>
    BY <1>1, <1>2, <1>3, <1>6, AttemptMade
  <2>2. Len(attempts') = source
    BY <1>2, <1>3, <2>1
  <2>3. \A n \in 1 .. source : attempts'[n] = <<Originals, SourceOrder[n]>>
    <3> SUFFICES ASSUME NEW n \in 1 .. source PROVE attempts'[n] = <<Originals, SourceOrder[n]>>
      OBVIOUS
    <3>1. CASE n = source
      BY <1>2, <2>1, <2>2, <3>1
    <3>2. CASE n # source
      <4>1. n \in 1 .. Len(attempts) /\ n <= Len(SourceOrder)
        BY <1>2, <1>3, <3>2, Bounds
      <4> QED BY <1>2, <2>1, <4>1
    <3> QED BY <3>1, <3>2
  <2>4. ASSUME phase' \in {"originals", "pin", "end", "stopped"},
               code' \in {"none", "resolved", "TIMEOUT"}
        PROVE  SearchTypeOK'
    BY <1>1, <1>2, <1>3, <2>1, <2>4 DEF SearchTypeOK
  <2>5. ASSUME NEW c \in Selections', NEW s \in 1 .. source, LastChanged(c) < 1
        PROVE  Tried(c, s)'
    <3>1. VersionsOf(c)' = Originals
      BY <1>4, <2>5, NothingReplaced
    <3>2. s \in 1 .. Len(attempts') /\ attempts'[s] = <<Originals, SourceOrder[s]>>
      BY <2>2, <2>3
    <3> QED BY <3>1, <3>2 DEF Tried
  <2>6. Observed' /\ OptionsDiffer'
    BY <1>1 DEF SearchInv, Observed, OptionsDiffer
  <2>7. CASE Stop("TIMEOUT")
    BY <1>1, <2>4, <2>7, ErrorInv DEF Stop, Errored
  <2>8. CASE Stop("resolved")
    <3>1. phase' = "stopped" /\ code' = "resolved"
      BY <2>8 DEF Stop
    <3>2. SearchPlaces' /\ OriginalsFirst' /\ InTrial' /\ PassedTried' /\ PassedOverShows'
          /\ ExhaustedIsComplete'
      BY <3>1 DEF SearchPlaces, OriginalsFirst, InTrial, PassedTried, PassedOverShows, ExhaustedIsComplete
    <3>3. PICK d : d = [p \in Pins |-> 0]
      OBVIOUS
    <3>4. d = LastPlaces'
      <4>1. attempts'[Len(attempts')][1] = Originals
        BY <1>2, <2>1
      <4>2. \A p \in Pins : (PlaceOf(attempts[Len(attempts)][1], p))' = 0
        BY <4>1 DEF PlaceOf
      <4> QED BY <3>3, <4>2 DEF LastPlaces
    <3>5. PICK t \in SourceIndexes : t = source /\ t = LastSource'
      <4>1. attempts'[Len(attempts')][2] = SourceOrder[source]
        BY <2>1
      <4> QED BY <1>3, <4>1, IndexOfSource DEF LastSource
    <3>6. Open(d, t)'
      BY <3>3 DEF Open
    <3>7. ASSUME NEW c \in Selections', NEW s \in SourceIndexes, Sooner(c, s, d, t)
          PROVE  Tried(c, s)'
      <4>1. c \in [Pins -> Nat] /\ d \in [Pins -> Nat] /\ \A p \in Pins : d[p] = 0 /\ c[p] \in Nat
        BY <1>4, <3>3
      <4>2. LastChanged(c) \in Nat /\ LastChanged(d) = 0
        <5>1. LastChanged(c) \in 0 .. Len(Originals) /\ LastChanged(d) \in 0 .. Len(Originals)
          BY <4>1, LastChangedIs
        <5>2. ~(LastChanged(d) > 0)
          BY <4>1, LastChangedIs
        <5> QED BY <5>1, <5>2, Bounds
      <4>3. ~Before(c, d)
        BY <4>1 DEF Before
      <4>4. c = d /\ s < source
        BY <3>5, <3>7, <4>2, <4>3 DEF Sooner
      <4>5. s \in 1 .. source /\ LastChanged(c) < 1
        BY <1>3, <4>2, <4>4, Bounds
      <4> QED BY <2>5, <4>5
    <3>8. ChosenFirst'
      BY <3>4, <3>5, <3>6, <3>7 DEF ChosenFirst
    <3> QED BY <2>4, <2>6, <3>1, <3>2, <3>8 DEF SearchInv
  <2>9. CASE /\ phase' = (IF source < Len(SourceOrder) THEN "originals"
                          ELSE IF Originals = <<>> THEN "end" ELSE "pin")
             /\ UNCHANGED code
    <3>1. phase' \in {"originals", "pin", "end"} /\ code' = "none"
      BY <1>2, <2>9
    <3>2. phase' # "originals" => source = Len(SourceOrder)
      BY <1>3, <2>9, Bounds
    <3>3. Originals = <<>> <=> Len(Originals) = 0
      BY ResolverAssumption, EmptySeq
    <3>4. SearchPlaces'
      <4>1. CASE phase' = "originals"
        BY <1>1, <1>2, <1>3, <2>2, <2>9, <3>1, <4>1 DEF SearchPlaces
      <4>2. CASE phase' = "pin"
        <5>1. 1 \in Pins /\ Len(options') = pin' - 1
          BY <1>1, <1>2, <2>9, <3>3, <4>2, Bounds
        <5> QED BY <1>1, <1>2, <3>1, <4>2, <5>1 DEF SearchPlaces
      <4>3. CASE phase' = "end"
        <5>1. Len(Originals) = 0
          BY <2>9, <3>3, <4>3
        <5>2. Len(options') = Len(Originals) /\ Pins = {} /\ left' = {}
          BY <1>1, <1>2, <5>1, Bounds
        <5> QED BY <1>1, <1>2, <3>1, <4>3, <5>2 DEF SearchPlaces
      <4> QED BY <3>1, <4>1, <4>2, <4>3
    <3>5. OriginalsFirst'
      <4>1. phase' # "originals" => Len(attempts') >= Len(SourceOrder)
        BY <2>2, <3>2, Bounds
      <4> QED BY <2>2, <2>3, <4>1 DEF OriginalsFirst
    <3>6. PassedTried'
      <4> SUFFICES ASSUME phase' # "originals", NEW c \in Selections', Passed(c)',
                          NEW s \in SourceIndexes
                   PROVE  Tried(c, s)'
        BY DEF PassedTried
      <4>1. LastChanged(c) < 1
        <5>1. CASE LastChanged(c) < pin'
          BY <1>1, <1>2, <5>1
        <5>2. CASE LastChanged(c) = pin' /\ phase' = "end"
          <6>1. Pins = {} /\ Len(Originals) = 0
            BY <2>9, <3>3, <5>2, Bounds
          <6>2. LastChanged(c) \in 0 .. 0
            BY <1>4, <6>1, LastChangedIs
          <6> QED BY <6>2
        <5> QED BY <3>1, <5>1, <5>2 DEF Passed
      <4> QED BY <1>3, <2>5, <3>2, <4>1, Bounds
    <3>7. InTrial' /\ PassedOverShows' /\ ChosenFirst' /\ ExhaustedIsComplete'
      BY <1>1, <3>1 DEF InTrial, PassedOverShows, ChosenFirst, ExhaustedIsComplete, SearchInv
    <3> QED BY <2>4, <2>6, <3>1, <3>4, <3>5, <3>6, <3>7 DEF SearchInv
  <2> QED BY <1>1, <1>2, <1>5, <1>6, <2>7, <2>8, <2>9 DEF TryOriginals, Strict
<1> QED BY <1>5, <1>6 DEF TryOriginals, Strict

\* The search turns to a pin, to be looked up from the first source on.
LEMMA StartPinInv ==
    ASSUME SearchInv, StartPin
    PROVE  SearchInv'
<1>1. /\ UNCHANGED <<code, attempts, pin, accepted, truncated, incomplete, options, left,
                     visited, chosen, viable, bounded, passedOver>>
      /\ phase = "pin" /\ phase' = "discover" /\ source' = 1 /\ observed' = {}
  BY DEF StartPin
<1>2. SearchTypeOK'
  BY <1>1, Bounds DEF SearchInv, SearchTypeOK
<1>3. SearchPlaces' /\ PassedOverShows' /\ InTrial' /\ ChosenFirst' /\ ExhaustedIsComplete'
  BY <1>1 DEF SearchInv, SearchPlaces, PassedOverShows, InTrial, ChosenFirst, ExhaustedIsComplete
<1>4. Observed' /\ OptionsDiffer' /\ OriginalsFirst'
  BY <1>1, FS_EmptySet DEF SearchInv, Observed, OptionsDiffer, OriginalsFirst
<1>5. PassedTried'
  <2> SUFFICES ASSUME NEW c \in Selections', Passed(c)', NEW s \in SourceIndexes, Open(c, s)'
               PROVE  Tried(c, s)'
    BY DEF PassedTried
  <2>1. c \in Selections /\ Passed(c) /\ Open(c, s)
    BY <1>1 DEF Selections, Passed, Open
  <2>2. Tried(c, s)
    BY <1>1, <2>1 DEF SearchInv, PassedTried
  <2> QED BY <1>1, <2>2 DEF Tried, VersionsOf
<1> QED BY <1>2, <1>3, <1>4, <1>5 DEF SearchInv

\* The least of three numbers, as the limit of a listing.
LEMMA LeastOfThree ==
    ASSUME NEW a \in Nat, NEW b \in Nat, NEW c \in Nat
    PROVE  /\ Least({a, b, c}) \in {a, b, c}
           /\ Least({a, b, c}) <= a /\ Least({a, b, c}) <= b /\ Least({a, b, c}) <= c
<1>1. \E n \in {a, b, c} : \A m \in {a, b, c} : n <= m
  OBVIOUS
<1> QED BY <1>1 DEF Least

\* What a source lists is looked at within the budget of observations.
LEMMA Listed ==
    ASSUME SearchInv, phase = "discover", remaining > 0, NEW listed \in Listings(pin),
           NEW seen \in SUBSET listed,
           Cardinality(seen) = Least({Cardinality(listed), remaining, MaxReleases}),
           accepted' = accepted + Cardinality(seen),
           observed' = observed \cup {<<SourceOrder[source], r>> : r \in seen \ {Malformed}}
    PROVE  /\ accepted' \in 0 .. MaxObservations
           /\ \A o \in observed' :
                 o[1] \in Sources /\ o[2] \in UNION {Releases[p] : p \in Pins} /\ o[2] # Malformed
           /\ IsFiniteSet(observed')
           /\ seen # listed /\ Cardinality(seen) < MaxReleases =>
                 Cardinality(listed) > remaining /\ remaining < MaxReleases
<1>1. /\ pin \in Pins /\ source \in SourceIndexes /\ accepted \in 0 .. MaxObservations
      /\ IsFiniteSet(observed)
      /\ \A o \in observed :
            o[1] \in Sources /\ o[2] \in UNION {Releases[p] : p \in Pins} /\ o[2] # Malformed
  BY DEF SearchInv, SearchTypeOK, SearchPlaces, Observed
<1>2. listed \subseteq Releases[pin]
  BY DEF Listings
<1>3. IsFiniteSet(Releases[pin])
  BY <1>1, ResolverAssumption
<1>4. IsFiniteSet(listed) /\ IsFiniteSet(seen)
  BY <1>2, <1>3, FS_Subset
<1>5. Cardinality(seen) \in Nat /\ Cardinality(listed) \in Nat
  BY <1>4, FS_CardinalityType
<1>6. /\ accepted' \in 0 .. MaxObservations
      /\ seen # listed /\ Cardinality(seen) < MaxReleases =>
            Cardinality(listed) > remaining /\ remaining < MaxReleases
  <2>1. remaining \in Nat /\ remaining = MaxObservations - accepted
    BY <1>1, Bounds DEF remaining
  <2>2. PICK a \in Nat, b \in Nat, c \in Nat : a = Cardinality(listed) /\ b = remaining /\ c = MaxReleases
    BY <1>5, <2>1, Bounds
  <2>3. /\ Cardinality(seen) \in {a, b, c}
        /\ Cardinality(seen) <= a /\ Cardinality(seen) <= b /\ Cardinality(seen) <= c
    BY <2>2, LeastOfThree
  <2>4. Cardinality(seen) = Cardinality(listed) => seen = listed
    BY <1>4, FS_Subset
  <2> QED BY <1>1, <1>5, <2>1, <2>2, <2>3, <2>4, Bounds
<1> DEFINE new == {<<SourceOrder[source], r>> : r \in seen \ {Malformed}}
<1>7. ASSUME NEW o \in new
      PROVE  o[1] \in Sources /\ o[2] \in UNION {Releases[p] : p \in Pins} /\ o[2] # Malformed
  <2>1. PICK r \in seen \ {Malformed} : o = <<SourceOrder[source], r>>
    OBVIOUS
  <2>2. o[1] = SourceOrder[source] /\ o[2] = r
    BY <2>1
  <2>3. r \in Releases[pin] /\ r # Malformed
    BY <1>2
  <2> QED BY <1>1, <2>2, <2>3 DEF Sources
<1>8. IsFiniteSet(new)
  <2> DEFINE f == [r \in seen \ {Malformed} |-> <<SourceOrder[source], r>>]
  <2>1. IsFiniteSet(seen \ {Malformed})
    BY <1>4, FS_RemoveElement
  <2>2. new = {f[r] : r \in seen \ {Malformed}} /\ f = [r \in seen \ {Malformed} |-> f[r]]
    OBVIOUS
  <2> HIDE DEF f
  <2> QED BY <2>1, <2>2, FiniteImage
<1>9. observed' = observed \cup new
  OBVIOUS
<1> HIDE DEF new
<1>10. IsFiniteSet(observed')
  <2>1. IsFiniteSet(observed)
    BY <1>1
  <2>2. IsFiniteSet(observed \cup new)
    BY <1>8, <2>1, FS_Union
  <2> QED BY <1>9, <2>2
<1>11. \A o \in observed' :
          o[1] \in Sources /\ o[2] \in UNION {Releases[p] : p \in Pins} /\ o[2] # Malformed
  BY <1>1, <1>7, <1>9
<1> QED BY <1>6, <1>10, <1>11

\* The options of a pin are appended: earlier choices keep their meaning, and
\* all of the new frontier is left.
LEMMA OptionsAppended ==
    ASSUME SearchInv, phase = "discover", UNCHANGED <<attempts, pin>>,
           NEW opt \in Option, options' = Append(options, opt),
           left' = Frontier(pin, options'), phase' = "frontier"
    PROVE  PassedTried'
<1>1. SearchTypeOK /\ pin \in Pins /\ Len(options) = pin - 1 /\ options \in Seq(Option)
  BY DEF SearchInv, SearchPlaces, SearchTypeOK
<1>2. /\ Len(options') = pin /\ pin \in Nat /\ Len(options) \in Nat
      /\ \A p \in 1 .. Len(options) : options'[p] = options[p]
  BY <1>1, AppendProperties, Bounds
<1> SUFFICES ASSUME NEW c \in Selections', Passed(c)', NEW s \in SourceIndexes, Open(c, s)'
             PROVE  Tried(c, s)'
  BY DEF PassedTried
<1>3. /\ c \in [Pins -> 0 .. MaxCandidates] /\ c \in [Pins -> Nat]
      /\ \A p \in Pins : c[p] <= IF p <= Len(options') THEN Len(options'[p].versions) ELSE 0
  BY Bounds DEF Selections
<1>4. LastChanged(c) < pin
  <2>1. CASE LastChanged(c) = pin /\ Part(c, pin) \notin left'
    <3>1. Part(c, pin) \in Frontier(pin, options')
      <4>1. PICK opts : opts = options'
        OBVIOUS
      <4>2. pin <= Len(opts) /\ Len(opts) \in Nat
        BY <1>2, <4>1
      <4> QED BY <1>1, <1>3, <2>1, <4>1, <4>2, PartInFrontier
    <3> QED BY <2>1, <3>1
  <2> QED BY <2>1 DEF Passed
<1>5. \A p \in Pins : c[p] > 0 => p \in 1 .. Len(options)
  <2>1. LastChanged(c) \in Nat /\ \A p \in Pins : c[p] > 0 => p <= LastChanged(c)
    BY <1>3, LastChangedIs, Bounds
  <2> QED BY <1>1, <1>2, <1>4, <2>1, Bounds
<1>6. c \in Selections
  <2> SUFFICES ASSUME NEW p \in Pins
               PROVE  c[p] <= IF p <= Len(options) THEN Len(options[p].versions) ELSE 0
    BY <1>3 DEF Selections
  <2>1. c[p] \in Nat
    BY <1>3
  <2>2. CASE p <= Len(options)
    <3>1. p \in 1 .. Len(options) /\ p <= Len(options')
      BY <1>2, <2>2, Bounds
    <3> QED BY <1>2, <1>3, <2>2, <3>1
  <2>3. CASE ~(p <= Len(options))
    BY <1>5, <2>1, <2>3
  <2> QED BY <2>2, <2>3
<1>7. Open(c, s) /\ VersionsOf(c)' = VersionsOf(c)
  <2>1. Open(c, s)
    BY <1>2, <1>5 DEF Open
  <2>2. \A p \in Pins :
           (IF p \in DOMAIN c /\ c[p] > 0 THEN options'[p].versions[c[p]] ELSE Originals[p])
             = (IF p \in DOMAIN c /\ c[p] > 0 THEN options[p].versions[c[p]] ELSE Originals[p])
    BY <1>2, <1>3, <1>5
  <2> QED BY <2>1, <2>2 DEF VersionsOf
<1>8. Tried(c, s)
  BY <1>4, <1>6, <1>7 DEF SearchInv, PassedTried, Passed
<1> QED BY <1>7, <1>8 DEF Tried

\* What comes after a source was asked, or raised.
LEMMA AfterSourceInv ==
    ASSUME SearchInv, phase = "discover", NEW limit \in BOOLEAN, AfterSource(limit),
           UNCHANGED <<code, attempts, pin, visited, chosen, viable, bounded>>,
           accepted' \in 0 .. MaxObservations, passedOver' \in BOOLEAN, IsFiniteSet(observed'),
           \A o \in observed' :
              o[1] \in Sources /\ o[2] \in UNION {Releases[p] : p \in Pins} /\ o[2] # Malformed,
           passedOver' => limit \/ SourcesLeft
    PROVE  SearchInv'
<1>1. /\ SearchTypeOK /\ pin \in Pins /\ Len(options) = pin - 1 /\ options \in Seq(Option)
      /\ code = "none" /\ source \in SourceIndexes
  BY DEF SearchInv, SearchPlaces, SearchTypeOK
<1>2. Observed'
  BY DEF Observed
<1>3. /\ OriginalsFirst' /\ InTrial' /\ ChosenFirst' /\ ExhaustedIsComplete'
      /\ phase' \in {"discover", "frontier"}
  <2>1. phase' \in {"discover", "frontier"}
    BY DEF AfterSource, Discovered
  <2> QED BY <1>1, <2>1 DEF SearchInv, OriginalsFirst, InTrial, ChosenFirst, ExhaustedIsComplete
<1>4. CASE source = Len(SourceOrder) \/ MaxObservations = accepted'
  <2>1. PICK opt : opt = _candidate_options_for_observations(observed', Originals[pin])
    OBVIOUS
  <2>2. /\ UNCHANGED source
        /\ phase' = "frontier" /\ options' = Append(options, opt) /\ left' = Frontier(pin, options')
        /\ truncated' = (limit \/ ~(source = Len(SourceOrder)))
        /\ incomplete' = (limit \/ ~(source = Len(SourceOrder)))
    BY <1>4, <2>1 DEF AfterSource, Discovered
  <2>3. /\ opt \in Option
        /\ Len(opt.versions) <= MaxCandidates /\ Len(opt.eligible) = Len(opt.versions)
        /\ \A n \in 1 .. Len(opt.versions) :
              /\ opt.versions[n] # Originals[pin]
              /\ \A m \in 1 .. Len(opt.versions) : opt.versions[m] = opt.versions[n] => m = n
    <3>1. \A e \in observed' : e[2].version \in Versions
      <4>1. \A p \in Pins : \A r \in Releases[p] \ {Malformed} : r.version \in Versions
        BY ResolverAssumption
      <4> QED BY <4>1
    <3>2. Originals[pin] \in Versions
      BY <1>1, Bounds
    <3>3. PICK obs : obs = observed'
      OBVIOUS
    <3> QED BY <2>1, <3>1, <3>2, <3>3, OptionsOfAPin
  <2>4. /\ options' \in Seq(Option) /\ Len(options') = pin /\ Len(options) \in Nat /\ pin \in Nat
        /\ \A p \in 1 .. Len(options) : options'[p] = options[p]
        /\ options'[pin] = opt
    BY <1>1, <2>2, <2>3, AppendProperties, Bounds
  <2>5. \A p \in 1 .. Len(options') : p \in 1 .. Len(options) \/ p = pin
    BY <1>1, <2>4
  <2>6. Len(options') <= Len(Originals)
    BY <1>1, <2>4, Bounds
  <2>7. \A p \in 1 .. Len(options') : Len(options'[p].versions) <= MaxCandidates
            /\ Len(options'[p].eligible) = Len(options'[p].versions)
    BY <1>1, <2>3, <2>4, <2>5 DEF SearchTypeOK
  <2>8. left' \subseteq UNION {[1 .. p -> 0 .. MaxCandidates] : p \in Pins}
    BY <1>1, <2>2 DEF Frontier
  <2>9. truncated' \in BOOLEAN /\ incomplete' \in BOOLEAN
    BY <2>2
  <2>10. SearchTypeOK'
    BY <1>1, <1>3, <2>2, <2>4, <2>6, <2>7, <2>8, <2>9 DEF SearchTypeOK
  <2>11. SearchPlaces'
    BY <1>1, <2>2, <2>4 DEF SearchPlaces
  <2>12. OptionsDiffer'
    <3> SUFFICES ASSUME NEW p \in 1 .. Len(options'), NEW n \in 1 .. Len(options'[p].versions)
                 PROVE  /\ options'[p].versions[n] # Originals[p]
                        /\ \A m \in 1 .. Len(options'[p].versions) :
                              options'[p].versions[m] = options'[p].versions[n] => m = n
      BY DEF OptionsDiffer
    <3>1. CASE p = pin
      BY <2>3, <2>4, <3>1
    <3>2. CASE p \in 1 .. Len(options)
      <4>1. options'[p] = options[p]
        BY <2>4, <3>2
      <4> QED BY <3>2, <4>1 DEF SearchInv, OptionsDiffer
    <3> QED BY <2>5, <3>1, <3>2
  <2>13. PassedTried'
    BY <2>2, <2>3, OptionsAppended
  <2>14. PassedOverShows'
    <3>1. SourcesLeft => ~(source = Len(SourceOrder))
      BY <1>1, Bounds DEF SourcesLeft
    <3> QED BY <2>2, <3>1 DEF PassedOverShows
  <2> QED BY <1>2, <1>3, <2>10, <2>11, <2>12, <2>13, <2>14 DEF SearchInv
<1>5. CASE ~(source = Len(SourceOrder) \/ MaxObservations = accepted')
  <2>1. truncated' = limit /\ source' = source + 1 /\ UNCHANGED <<phase, options, incomplete, left>>
    BY <1>5 DEF AfterSource
  <2>2. source' \in SourceIndexes
    BY <1>1, <1>5, <2>1, Bounds
  <2>3. SearchTypeOK'
    BY <1>1, <2>1, <2>2 DEF SearchTypeOK
  <2>4. SearchPlaces' /\ OptionsDiffer' /\ PassedOverShows'
    BY <1>1, <1>5, <2>1 DEF SearchInv, SearchPlaces, OptionsDiffer, PassedOverShows, SourcesLeft
  <2>5. PassedTried'
    <3> SUFFICES ASSUME NEW c \in Selections', Passed(c)', NEW s \in SourceIndexes, Open(c, s)'
                 PROVE  Tried(c, s)'
      BY DEF PassedTried
    <3>1. c \in Selections /\ Passed(c) /\ Open(c, s)
      BY <2>1 DEF Selections, Passed, Open
    <3>2. Tried(c, s)
      BY <3>1 DEF SearchInv, PassedTried
    <3> QED BY <2>1, <3>2 DEF Tried, VersionsOf
  <2> QED BY <1>2, <1>3, <2>3, <2>4, <2>5 DEF SearchInv
<1> QED BY <1>4, <1>5

\* A source is asked for the candidates of the pin; the last answer makes its
\* options and frontier.
LEMMA DiscoverInv ==
    ASSUME SearchInv, Discover \/ DiscoverRaises
    PROVE  SearchInv'
<1>1. /\ phase = "discover" /\ remaining > 0
      /\ UNCHANGED <<code, attempts, pin, visited, chosen, viable, bounded>>
  BY DEF Discover, DiscoverRaises
<1>2. /\ truncated \in BOOLEAN /\ bounded \in BOOLEAN /\ passedOver \in BOOLEAN
      /\ passedOver => truncated
  <2>1. {truncated, incomplete, bounded, passedOver} \subseteq BOOLEAN
    BY DEF SearchInv, SearchTypeOK
  <2> QED BY <1>1, <2>1 DEF SearchInv, PassedOverShows
<1>3. CASE DiscoverRaises
  <2>1. /\ UNCHANGED observed /\ AfterSource(truncated)
        /\ passedOver' = (passedOver \/ SourcesLeft)
    BY <1>3 DEF DiscoverRaises
  <2>2. /\ accepted \in 0 .. MaxObservations /\ IsFiniteSet(observed)
        /\ \A o \in observed :
              o[1] \in Sources /\ o[2] \in UNION {Releases[p] : p \in Pins} /\ o[2] # Malformed
    BY DEF SearchInv, SearchTypeOK, Observed
  <2>3. accepted' \in 0 .. MaxObservations
    <3>1. remaining \in Nat /\ remaining = MaxObservations - accepted
      BY <2>2, Bounds DEF remaining
    <3>2. PICK reserved \in 0 .. Least({MaxListed, remaining, MaxReleases}) :
             accepted' = accepted + reserved
      BY <1>3 DEF DiscoverRaises
    <3>3. Least({MaxListed, remaining, MaxReleases}) <= remaining
          /\ Least({MaxListed, remaining, MaxReleases}) \in {MaxListed, remaining, MaxReleases}
      BY <3>1, Bounds, LeastOfThree
    <3>4. reserved \in Nat /\ reserved <= remaining
      BY <3>1, <3>3, Bounds
    <3> QED BY <2>2, <3>1, <3>2, <3>4, Bounds
  <2>4. PICK limit \in BOOLEAN : limit = truncated
    BY <1>2
  <2>5. /\ AfterSource(limit) /\ passedOver' \in BOOLEAN
        /\ passedOver' => limit \/ SourcesLeft
    BY <1>2, <2>1, <2>4 DEF SourcesLeft
  <2> QED BY <1>1, <2>1, <2>2, <2>3, <2>5, AfterSourceInv
<1>4. CASE Discover
  <2>1. PICK listed, seen :
          /\ listed \in Listings(pin) /\ seen \in SUBSET listed
          /\ Cardinality(seen) = Least({Cardinality(listed), remaining, MaxReleases})
          /\ accepted' = accepted + Cardinality(seen)
          /\ observed' = observed \cup {<<SourceOrder[source], r>> : r \in seen \ {Malformed}}
          /\ AfterSource(truncated \/ (/\ ~bounded
                                       /\ Cardinality(listed) > remaining
                                       /\ remaining < MaxReleases))
          /\ passedOver' = (passedOver \/ SourcesLeft
                             \/ (/\ ~bounded
                                 /\ seen # listed /\ Cardinality(seen) < MaxReleases))
    BY <1>4 DEF Discover
  <2>2. /\ accepted' \in 0 .. MaxObservations /\ IsFiniteSet(observed')
        /\ \A o \in observed' :
              o[1] \in Sources /\ o[2] \in UNION {Releases[p] : p \in Pins} /\ o[2] # Malformed
        /\ seen # listed /\ Cardinality(seen) < MaxReleases =>
              Cardinality(listed) > remaining /\ remaining < MaxReleases
    BY <1>1, <2>1, Listed
  <2>3. PICK limit \in BOOLEAN :
          limit = (truncated \/ (/\ ~bounded
                                 /\ Cardinality(listed) > remaining
                                 /\ remaining < MaxReleases))
    OBVIOUS
  <2>4. AfterSource(limit)
    BY <2>1, <2>3
  <2>5. passedOver' \in BOOLEAN /\ (passedOver' => limit \/ SourcesLeft)
    BY <1>2, <2>1, <2>2, <2>3 DEF SourcesLeft
  <2> QED BY <1>1, <2>2, <2>4, <2>5, AfterSourceInv
<1> QED BY <1>3, <1>4

\* The first combination left is taken up, or passed over when no source can serve
\* it.
LEMMA CombineInv ==
    ASSUME SearchInv, Combine
    PROVE  SearchInv'
<1>1. /\ UNCHANGED <<code, attempts, pin, source, observed, accepted, truncated, incomplete,
                     options, bounded, passedOver>>
      /\ phase = "frontier" /\ left # {} /\ visited < MaxCombinations /\ visited' = visited + 1
  BY DEF Combine
<1>2. /\ SearchTypeOK /\ OptionsDiffer /\ code = "none" /\ pin \in Pins /\ Len(options) = pin
      /\ pin <= Len(options) /\ pin \in Nat /\ left \subseteq Frontier(pin, options)
  BY <1>1, Bounds DEF SearchInv, SearchPlaces
<1>3. PICK c : c = NextCombination
  OBVIOUS
<1>4. c \in left /\ \A d \in left \ {c} : Before(c, d)
  <2>1. left \in SUBSET [1 .. pin -> Nat]
    BY <1>2, Bounds DEF Frontier
  <2>2. \E e \in left : \A d \in left \ {e} : Before(e, d)
    BY <1>1, <1>2, <2>1, FirstCombination
  <2> QED BY <1>3, <2>2 DEF NextCombination
<1>5. PICK supporting :
        /\ supporting = {s \in SourceIndexes :
                            /\ <<VersionsOf(c), SourceOrder[s]>> \notin attempted
                            /\ _source_supports_substitutions(s, c)}
        /\ chosen' = VersionsOf(c) /\ viable' = supporting /\ left' = left \ {c}
        /\ phase' = IF supporting = {} THEN "frontier" ELSE "try"
  BY <1>3 DEF Combine
<1>6. c \in Frontier(pin, options) /\ Choice(c)
  BY <1>2, <1>4, CombinationIsChoice
<1>7. phase' \in {"frontier", "try"} /\ (phase' = "try" <=> supporting # {})
  BY <1>5
<1>8. SearchTypeOK'
  <2>1. chosen' \in [Pins -> Versions]
    BY <1>2, <1>5, <1>6, VersionsOfChoice
  <2>2. viable' \subseteq SourceIndexes
    BY <1>5
  <2>3. visited' \in 0 .. MaxCombinations
    BY <1>1, <1>2, Bounds DEF SearchTypeOK
  <2>4. left' \subseteq UNION {[1 .. p -> 0 .. MaxCandidates] : p \in Pins}
    BY <1>2, <1>5 DEF SearchTypeOK
  <2> QED BY <1>1, <1>2, <1>7, <2>1, <2>2, <2>3, <2>4 DEF SearchTypeOK
<1>9. SearchPlaces'
  BY <1>1, <1>2, <1>5, <1>7 DEF SearchPlaces
<1>10. Observed' /\ OptionsDiffer' /\ OriginalsFirst' /\ PassedOverShows'
  BY <1>1, <1>7 DEF SearchInv, Observed, OptionsDiffer, OriginalsFirst, PassedOverShows
<1>11. ChosenFirst' /\ ExhaustedIsComplete'
  BY <1>1, <1>2, <1>7 DEF ChosenFirst, ExhaustedIsComplete
\* A source that supports the combination and is not to be asked was asked.
<1>12. ASSUME NEW s \in SourceIndexes, s \notin supporting, _source_supports_substitutions(s, c)
       PROVE  Tried(c, s)
  <2>1. <<VersionsOf(c), SourceOrder[s]>> \in attempted
    BY <1>5, <1>12
  <2>2. PICK n \in Len(SourceOrder) + 1 .. Len(attempts) :
           attempts[n] = <<VersionsOf(c), SourceOrder[s]>>
    BY <2>1 DEF attempted
  <2>3. n \in 1 .. Len(attempts)
    BY Bounds
  <2> QED BY <2>2, <2>3 DEF Tried
<1>13. \A d : VersionsOf(d)' = VersionsOf(d)
  BY <1>1 DEF VersionsOf
<1>14. ASSUME NEW d, NEW s PROVE Tried(d, s)' <=> Tried(d, s)
  BY <1>1, <1>13 DEF Tried
<1>15. InTrial'
  <2> SUFFICES ASSUME phase' = "try"
               PROVE  viable' # {} /\ \E d \in Frontier(pin, options)' : Trying(d)'
    BY DEF InTrial
  <2>1. viable' # {} /\ c \in Frontier(pin, options)' /\ c \notin left' /\ chosen' = VersionsOf(c)'
    BY <1>1, <1>5, <1>6, <1>7, <1>13 DEF Frontier
  <2>2. \A d \in left' : Before(c, d)
    BY <1>4, <1>5
  <2>3. \A s \in viable' : _source_supports_substitutions(s, c)'
    BY <1>1, <1>5 DEF _source_supports_substitutions
  <2>4. \A s \in SourceIndexes \ viable' : _source_supports_substitutions(s, c)' => Tried(c, s)'
    <3>1. ASSUME NEW s \in SourceIndexes
          PROVE  _source_supports_substitutions(s, c)' <=> _source_supports_substitutions(s, c)
      BY <1>1 DEF _source_supports_substitutions
    <3> QED BY <1>5, <1>12, <1>14, <3>1
  <2>5. Trying(c)'
    BY <2>1, <2>2, <2>3, <2>4 DEF Trying
  <2> QED BY <2>1, <2>5
<1>16. PassedTried'
  <2> SUFFICES ASSUME NEW d \in Selections', Passed(d)', NEW s \in SourceIndexes, Open(d, s)'
               PROVE  Tried(d, s)'
    BY DEF PassedTried
  <2>1. d \in Selections /\ Open(d, s)
    BY <1>1 DEF Selections, Open
  <2>2. CASE Passed(d)
    BY <1>1, <1>14, <2>1, <2>2 DEF SearchInv, PassedTried
  <2>3. CASE ~Passed(d)
    <3>1. /\ LastChanged(d) = pin /\ Part(d, pin) \notin left'
          /\ phase' = "try" => VersionsOf(d) # chosen'
      BY <1>1, <1>13, <2>3 DEF Passed
    <3>2. Part(d, pin) = c
      BY <1>1, <1>5, <2>3, <3>1 DEF Passed
    <3>3. VersionsOf(d) = VersionsOf(c) /\ _source_supports_substitutions(s, c)
      BY <1>2, <2>1, <3>1, <3>2, PartOfSelection
    <3>4. s \notin supporting
      BY <1>5, <1>7, <3>1, <3>3
    <3>5. Tried(c, s)
      BY <1>12, <3>3, <3>4
    <3>6. Tried(d, s)
      BY <3>3, <3>5 DEF Tried
    <3> QED BY <1>14, <3>6
  <2> QED BY <2>2, <2>3
<1> QED BY <1>8, <1>9, <1>10, <1>11, <1>15, <1>16 DEF SearchInv

\* A combination is tried on the next source; resolved there, it is the first that
\* is.
LEMMA TryCandidateInv ==
    ASSUME SearchInv, TryCandidate
    PROVE  SearchInv'
<1>1. /\ UNCHANGED <<pin, source, observed, accepted, truncated, incomplete, options, left,
                     visited, chosen, bounded, passedOver>>
      /\ phase = "try" /\ Guard
  BY DEF TryCandidate
<1>2. /\ SearchTypeOK /\ OptionsDiffer /\ code = "none" /\ pin \in Pins /\ Len(options) = pin
      /\ pin <= Len(options) /\ pin \in Nat /\ left \subseteq Frontier(pin, options)
      /\ viable \subseteq SourceIndexes
  BY <1>1, Bounds DEF SearchInv, SearchPlaces, SearchTypeOK
<1>3. PICK t \in viable :
        /\ \A u \in viable : t <= u
        /\ viable' = viable \ {t}
        /\ Strict(t, phase' = (IF viable' = {} THEN "frontier" ELSE "try") /\ UNCHANGED code)
  BY DEF TryCandidate
<1>4. PICK cur \in Frontier(pin, options) : Trying(cur)
  BY <1>1 DEF SearchInv, InTrial
<1>5. /\ cur \notin left /\ chosen = VersionsOf(cur)
      /\ \A d \in left : Before(cur, d)
      /\ \A s \in viable : _source_supports_substitutions(s, cur)
      /\ \A s \in SourceIndexes \ viable : _source_supports_substitutions(s, cur) => Tried(cur, s)
  BY <1>4 DEF Trying
<1>6. Observed' /\ OptionsDiffer'
  BY <1>1 DEF SearchInv, Observed, OptionsDiffer
<1>7. CASE UNCHANGED attempts /\ Stop("raised")
  <2>1. SearchTypeOK'
    BY <1>1, <1>2, <1>3, <1>7 DEF SearchTypeOK, Stop
  <2> QED BY <1>1, <1>7, <2>1, ErrorInv DEF Stop, Errored
<1>8. CASE attempts' = Append(attempts, <<chosen, SourceOrder[t]>>)
  <2>1. /\ attempts' \in Seq([Pins -> Versions] \X Sources) /\ Len(attempts') <= MaxAttempts
        /\ Len(attempts) \in Nat /\ Len(attempts') = Len(attempts) + 1
        /\ \A n \in 1 .. Len(attempts) : attempts'[n] = attempts[n]
        /\ attempts'[Len(attempts')] = <<chosen, SourceOrder[t]>>
    BY <1>1, <1>2, <1>3, <1>8, AttemptMade
  <2>2. ASSUME phase' \in {"frontier", "try", "stopped"}, code' \in {"none", "resolved", "TIMEOUT"}
        PROVE  SearchTypeOK'
    BY <1>1, <1>2, <1>3, <2>1, <2>2 DEF SearchTypeOK
  <2>3. ASSUME NEW c, NEW s, Tried(c, s) PROVE Tried(c, s)'
    BY <1>1, <1>2, <2>1, <2>3, TriedStays
  <2>4. \A c : VersionsOf(c)' = VersionsOf(c)
    BY <1>1 DEF VersionsOf
  \* The choice that is tried.
  <2>5. PICK d : d = [p \in Pins |-> PlaceOf(chosen, p)]
    OBVIOUS
  <2>6. /\ d \in Selections /\ LastChanged(d) = pin /\ Part(d, pin) = cur
        /\ VersionsOf(d) = chosen
    BY <1>2, <1>4, <1>5, <2>5, PlacesOfCombination
  <2>7. \A s \in SourceIndexes : _source_supports_substitutions(s, cur) <=> Open(d, s)
    BY <1>2, <2>6, PartOfSelection
  <2>8. \A c \in Selections : VersionsOf(c) = chosen => c = d
    <3> SUFFICES ASSUME NEW c \in Selections, VersionsOf(c) = chosen PROVE c = d
      OBVIOUS
    <3>1. Choice(c) /\ Choice(d) /\ \A p \in Pins : At(c, p) = c[p] /\ At(d, p) = d[p]
      BY <1>2, <2>6, SelectionIsChoice
    <3>2. \A p \in Pins : At(c, p) = At(d, p)
      BY <1>2, <2>6, <3>1, SameChoice
    <3>3. c \in [Pins -> 0 .. MaxCandidates] /\ d \in [Pins -> 0 .. MaxCandidates]
      BY <2>6 DEF Selections
    <3> QED BY <3>1, <3>2, <3>3
  <2>9. \A s \in SourceIndexes \ viable : Open(d, s) => Tried(d, s)
    BY <1>5, <2>6, <2>7 DEF Tried
  <2>10. \A c \in Selections : Passed(c) => \A s \in SourceIndexes : Open(c, s) => Tried(c, s)
    BY <1>1 DEF SearchInv, PassedTried
  <2>11. CASE Stop("TIMEOUT")
    BY <1>1, <2>2, <2>11, ErrorInv DEF Stop, Errored
  <2>12. CASE Stop("resolved")
    <3>1. phase' = "stopped" /\ code' = "resolved"
      BY <2>12 DEF Stop
    <3>2. SearchPlaces' /\ OriginalsFirst' /\ InTrial' /\ PassedTried' /\ PassedOverShows'
          /\ ExhaustedIsComplete'
      BY <3>1 DEF SearchPlaces, OriginalsFirst, InTrial, PassedTried, PassedOverShows, ExhaustedIsComplete
    <3>3. d = LastPlaces'
      <4>1. attempts'[Len(attempts')][1] = chosen
        BY <2>1
      <4>2. \A p \in Pins : (PlaceOf(attempts[Len(attempts)][1], p))' = PlaceOf(chosen, p)
        BY <1>1, <4>1 DEF PlaceOf
      <4> QED BY <2>5, <4>2 DEF LastPlaces
    <3>4. t = LastSource'
      <4>1. attempts'[Len(attempts')][2] = SourceOrder[t]
        BY <2>1
      <4> QED BY <1>2, <4>1, IndexOfSource DEF LastSource
    <3>5. Open(d, t)'
      <4>1. Open(d, t)
        BY <1>2, <1>5, <2>7
      <4> QED BY <1>1, <4>1 DEF Open
    <3>6. ASSUME NEW c \in Selections', NEW s \in SourceIndexes, Open(c, s)', Sooner(c, s, d, t)
          PROVE  Tried(c, s)'
      <4>1. c \in Selections /\ Open(c, s)
        BY <1>1, <3>6 DEF Selections, Open
      <4>2. CASE LastChanged(c) < pin
        <5>1. Passed(c)
          BY <4>2 DEF Passed
        <5> QED BY <2>3, <2>10, <4>1, <5>1
      <4>3. CASE LastChanged(c) = pin /\ Before(c, d)
        <5>1. /\ c \in [Pins -> Nat] /\ d \in [Pins -> Nat]
              /\ cur \in [1 .. pin -> Nat] /\ Part(c, pin) \in [1 .. pin -> Nat]
          <6>1. c \in [Pins -> Nat] /\ d \in [Pins -> Nat]
            BY <2>6, <4>1, Bounds DEF Selections
          <6>2. 1 .. pin \subseteq Pins
            BY <1>2, Bounds
          <6> QED BY <2>6, <6>1, <6>2 DEF Part
        <5>2. Before(Part(c, pin), cur)
          BY <1>2, <2>6, <4>3, <5>1, BeforeOfParts
        <5>3. ~Before(cur, Part(c, pin))
          BY <1>2, <5>1, <5>2, BeforeIsStrict
        <5>4. Part(c, pin) \notin left /\ Part(c, pin) # cur
          BY <1>5, <5>2, <5>3
        <5>5. VersionsOf(c) # chosen
          BY <2>6, <2>8, <4>1, <5>4
        <5>6. Passed(c)
          BY <1>1, <4>3, <5>4, <5>5 DEF Passed
        <5> QED BY <2>3, <2>10, <4>1, <5>6
      <4>4. CASE c = d /\ s < t
        <5>1. s \notin viable
          <6>1. s \in Nat /\ t \in Nat
            BY <1>2, Bounds
          <6> QED BY <1>3, <4>4, <6>1
        <5> QED BY <2>3, <2>9, <4>1, <4>4, <5>1
      <4> QED BY <2>6, <3>6, <4>2, <4>3, <4>4 DEF Sooner
    <3>7. ChosenFirst'
      BY <3>3, <3>4, <3>5, <3>6 DEF ChosenFirst
    <3> QED BY <1>6, <2>2, <3>1, <3>2, <3>7 DEF SearchInv
  <2>13. CASE phase' = (IF viable' = {} THEN "frontier" ELSE "try") /\ UNCHANGED code
    <3>1. phase' \in {"frontier", "try"} /\ code' = "none" /\ (phase' = "try" <=> viable' # {})
      BY <1>2, <2>13
    <3>2. Tried(cur, t)' /\ Tried(d, t)'
      <4>1. Len(attempts') \in 1 .. Len(attempts')
        BY <2>1
      <4> QED BY <1>5, <2>1, <2>4, <2>6, <4>1 DEF Tried
    <3>3. SearchPlaces'
      BY <1>1, <1>2, <3>1 DEF SearchPlaces
    <3>4. OriginalsFirst'
      <4>1. Len(attempts) >= Len(SourceOrder)
        BY <1>1 DEF SearchInv, OriginalsFirst
      <4>2. \A n \in 1 .. Len(attempts') : n <= Len(SourceOrder) => n \in 1 .. Len(attempts)
        BY <2>1, <4>1, Bounds
      <4>3. Len(attempts') >= Len(SourceOrder)
        BY <2>1, <4>1, Bounds
      <4>4. \A n \in 1 .. Len(attempts) : n <= Len(SourceOrder) =>
               attempts[n] = <<Originals, SourceOrder[n]>>
        BY <1>1 DEF SearchInv, OriginalsFirst
      <4> QED BY <2>1, <4>2, <4>3, <4>4 DEF OriginalsFirst
    <3>5. InTrial'
      <4> SUFFICES ASSUME phase' = "try"
                   PROVE  viable' # {} /\ \E c \in Frontier(pin, options)' : Trying(c)'
        BY DEF InTrial
      <4>1. /\ viable' # {} /\ cur \in Frontier(pin, options)' /\ cur \notin left'
            /\ chosen' = VersionsOf(cur)' /\ \A e \in left' : Before(cur, e)
        BY <1>1, <1>5, <2>4, <3>1 DEF Frontier
      <4>2. ASSUME NEW s PROVE _source_supports_substitutions(s, cur)'
                                 <=> _source_supports_substitutions(s, cur)
        BY <1>1 DEF _source_supports_substitutions
      <4>3. \A s \in viable' : _source_supports_substitutions(s, cur)'
        BY <1>3, <1>5, <4>2
      <4>4. \A s \in SourceIndexes \ viable' :
               _source_supports_substitutions(s, cur)' => Tried(cur, s)'
        BY <1>3, <1>5, <2>3, <3>2, <4>2
      <4>5. Trying(cur)'
        BY <4>1, <4>3, <4>4 DEF Trying
      <4> QED BY <4>1, <4>5
    <3>6. PassedTried'
      <4> SUFFICES ASSUME NEW c \in Selections', Passed(c)', NEW s \in SourceIndexes, Open(c, s)'
                   PROVE  Tried(c, s)'
        BY DEF PassedTried
      <4>1. c \in Selections /\ Open(c, s)
        BY <1>1 DEF Selections, Open
      <4>2. CASE Passed(c)
        BY <2>3, <2>10, <4>1, <4>2
      <4>3. CASE ~Passed(c)
        <5>1. VersionsOf(c) = chosen /\ phase' # "try"
          BY <1>1, <2>4, <4>3 DEF Passed
        <5>2. c = d /\ viable' = {}
          BY <2>8, <3>1, <4>1, <5>1
        <5>3. s = t \/ s \notin viable
          BY <1>3, <5>2
        <5> QED BY <2>3, <2>9, <3>2, <4>1, <5>2, <5>3
      <4> QED BY <4>2, <4>3
    <3>7. PassedOverShows' /\ ChosenFirst' /\ ExhaustedIsComplete'
      BY <1>1, <3>1 DEF SearchInv, PassedOverShows, ChosenFirst, ExhaustedIsComplete
    <3> QED BY <1>6, <2>2, <3>1, <3>3, <3>4, <3>5, <3>6, <3>7 DEF SearchInv
  <2> QED BY <1>3, <1>7, <2>11, <2>12, <2>13 DEF Strict
<1> QED BY <1>3, <1>7, <1>8 DEF Strict

\* A frontier with nothing left was tried to its end.
LEMMA FrontierEndsInv ==
    ASSUME SearchInv, FrontierEnds
    PROVE  SearchInv'
<1>1. /\ UNCHANGED <<attempts, source, observed, accepted, incomplete, options, left, visited,
                     chosen, viable, bounded, passedOver>>
      /\ phase = "frontier" /\ left = {}
      /\ \/ phase' = "stopped" /\ code' = "RESOURCE_LIMIT" /\ truncated' = TRUE /\ UNCHANGED pin
         \/ /\ pin < Len(Originals) /\ phase' = "pin" /\ pin' = pin + 1
            /\ UNCHANGED <<code, truncated>>
         \/ /\ ~(pin < Len(Originals)) /\ phase' = "end" /\ UNCHANGED pin
            /\ UNCHANGED <<code, truncated>>
  BY DEF FrontierEnds, Stop
<1>2. SearchTypeOK /\ code = "none" /\ pin \in Pins /\ Len(options) = pin
  BY <1>1 DEF SearchInv, SearchPlaces
<1>3. CASE phase' = "stopped"
  <2>1. code' \in Errored /\ truncated' = TRUE /\ UNCHANGED pin
    BY <1>1, <1>3 DEF Errored
  <2>2. SearchTypeOK'
    BY <1>1, <1>2, <1>3, <2>1 DEF SearchTypeOK, Errored
  <2> QED BY <1>1, <1>3, <2>1, <2>2, ErrorInv
<1>4. CASE phase' \in {"pin", "end"}
  <2>1. /\ UNCHANGED <<code, truncated>>
        /\ \/ pin < Len(Originals) /\ phase' = "pin" /\ pin' = pin + 1
           \/ ~(pin < Len(Originals)) /\ phase' = "end" /\ pin' = pin
    BY <1>1, <1>4
  <2>2. /\ pin' \in Pins /\ (phase' = "pin" => Len(options') = pin' - 1)
        /\ phase' = "end" => Len(options') = Len(Originals) /\ pin' = Len(Originals)
    <3>1. pin \in 1 .. Len(Originals) /\ Len(options') = pin /\ Len(Originals) \in Nat
      BY <1>1, <1>2, Bounds
    <3>2. CASE pin < Len(Originals) /\ phase' = "pin" /\ pin' = pin + 1
      <4>1. pin' \in 1 .. Len(Originals) /\ pin' - 1 = pin
        BY <3>1, <3>2
      <4> QED BY <3>1, <3>2, <4>1, Bounds
    <3>3. CASE ~(pin < Len(Originals)) /\ phase' = "end" /\ pin' = pin
      <4>1. pin = Len(Originals) /\ pin' \in Pins
        BY <1>2, <3>1, <3>3
      <4> QED BY <3>1, <3>3, <4>1
    <3> QED BY <2>1, <3>2, <3>3
  <2>3. SearchTypeOK'
    BY <1>1, <1>2, <1>4, <2>1, <2>2 DEF SearchTypeOK
  <2>4. SearchPlaces'
    BY <1>1, <1>2, <1>4, <2>1, <2>2 DEF SearchPlaces
  <2>5. Observed' /\ OptionsDiffer' /\ OriginalsFirst'
    BY <1>1, <1>4 DEF SearchInv, Observed, OptionsDiffer, OriginalsFirst
  <2>6. InTrial' /\ PassedOverShows' /\ ChosenFirst' /\ ExhaustedIsComplete'
    BY <1>1, <1>2, <1>4, <2>1 DEF SearchInv, InTrial, PassedOverShows, ChosenFirst, ExhaustedIsComplete
  <2>7. PassedTried'
    <3> SUFFICES ASSUME NEW c \in Selections', Passed(c)', NEW s \in SourceIndexes, Open(c, s)'
                 PROVE  Tried(c, s)'
      BY DEF PassedTried
    <3>1. c \in Selections /\ Open(c, s)
      BY <1>1 DEF Selections, Open
    <3>2. LastChanged(c) < pin \/ LastChanged(c) = pin
      <4>1. c \in [Pins -> Nat]
        BY <3>1, Bounds DEF Selections
      <4>2. LastChanged(c) \in Nat
        BY <4>1, LastChangedIs, Bounds
      <4>3. LastChanged(c) < pin' \/ (LastChanged(c) = pin' /\ phase' = "end")
        BY <1>4 DEF Passed
      <4> QED BY <1>2, <2>1, <4>2, <4>3, Bounds
    <3>3. Passed(c)
      BY <1>1, <3>2 DEF Passed
    <3>4. Tried(c, s)
      BY <1>1, <3>1, <3>3 DEF SearchInv, PassedTried
    <3> QED BY <1>1, <3>4 DEF Tried, VersionsOf
  <2> QED BY <2>3, <2>4, <2>5, <2>6, <2>7 DEF SearchInv
<1> QED BY <1>1, <1>3, <1>4

\* EXHAUSTED is said at the end of the search, when every choice is passed.
LEMMA ExhaustInv ==
    ASSUME SearchInv, Exhaust
    PROVE  SearchInv'
<1>1. /\ UNCHANGED <<attempts, pin, source, observed, accepted, truncated, incomplete, options,
                     left, visited, chosen, viable, bounded, passedOver>>
      /\ phase = "end" /\ phase' = "stopped"
      /\ code' = IF truncated THEN "RESOURCE_LIMIT" ELSE "EXHAUSTED"
  BY DEF Exhaust, Stop
<1>2. SearchTypeOK'
  BY <1>1 DEF SearchInv, SearchTypeOK
<1>3. Observed' /\ OptionsDiffer'
  BY <1>1 DEF SearchInv, Observed, OptionsDiffer
<1>4. SearchPlaces' /\ OriginalsFirst' /\ InTrial' /\ PassedTried' /\ PassedOverShows' /\ ChosenFirst'
  BY <1>1 DEF SearchPlaces, OriginalsFirst, InTrial, PassedTried, PassedOverShows, ChosenFirst
<1>5. ExhaustedIsComplete'
  <2> SUFFICES ASSUME code' = "EXHAUSTED"
               PROVE  /\ Len(options') = Len(Originals)
                      /\ \A c \in Selections', s \in SourceIndexes : Open(c, s)' => Tried(c, s)'
                      /\ ~passedOver'
    BY DEF ExhaustedIsComplete
  <2>1. ~truncated
    BY <1>1
  <2>2. Len(options') = Len(Originals) /\ left = {} /\ (pin = Len(Originals) \/ Pins = {})
    BY <1>1 DEF SearchInv, SearchPlaces
  <2>3. ~passedOver'
    BY <1>1, <2>1 DEF SearchInv, PassedOverShows
  <2>4. ASSUME NEW c \in Selections', NEW s \in SourceIndexes, Open(c, s)' PROVE Tried(c, s)'
    <3>1. c \in Selections /\ Open(c, s)
      BY <1>1, <2>4 DEF Selections, Open
    <3>2. LastChanged(c) < pin \/ LastChanged(c) = pin
      <4>1. c \in [Pins -> Nat]
        BY <3>1, Bounds DEF Selections
      <4>2. LastChanged(c) \in 0 .. Len(Originals)
        BY <4>1, LastChangedIs
      <4>3. CASE pin = Len(Originals)
        BY <4>2, <4>3, Bounds
      <4>4. CASE Pins = {}
        <5>1. pin = 1 /\ Len(Originals) = 0
          BY <4>4, Bounds DEF SearchInv, SearchTypeOK
        <5> QED BY <4>2, <5>1
      <4> QED BY <2>2, <4>3, <4>4
    <3>3. Passed(c)
      BY <1>1, <2>2, <3>2 DEF Passed
    <3>4. Tried(c, s)
      BY <1>1, <3>1, <3>3 DEF SearchInv, PassedTried
    <3> QED BY <1>1, <3>4 DEF Tried, VersionsOf
  <2> QED BY <2>2, <2>3, <2>4
<1> QED BY <1>2, <1>3, <1>4, <1>5 DEF SearchInv

\* The pipeline takes the resolution and goes on.
LEMMA HandInv ==
    ASSUME SearchInv, Hand
    PROVE  SearchInv'
<1>1. /\ code = "resolved" /\ UNCHANGED code /\ phase' = "done" /\ attempts' = <<>>
      /\ observed' = {} /\ options' = <<>> /\ left' = {} /\ chosen' = Originals /\ viable' = {}
      /\ pin' = 1 /\ source' = 1 /\ accepted' = 0 /\ visited' = 0
      /\ truncated' = FALSE /\ incomplete' = FALSE /\ passedOver' = FALSE /\ bounded' = FALSE
  BY DEF Hand
<1>2. SearchTypeOK'
  <2>1. /\ 1 \in SourceIndexes /\ 0 \in 0 .. MaxObservations /\ 0 \in 0 .. MaxCombinations
        /\ Len(<<>>) <= MaxAttempts /\ Len(<<>>) <= Len(Originals)
    BY Bounds
  <2>2. \A p \in 1 .. Len(<<>>) : FALSE
    OBVIOUS
  <2>3. /\ attempts' \in Seq([Pins -> Versions] \X Sources) /\ options' \in Seq(Option)
        /\ Len(attempts') <= MaxAttempts /\ Len(options') <= Len(Originals)
        /\ \A p \in 1 .. Len(options') : FALSE
    BY <1>1, <2>1, <2>2, EmptySeq
  <2>4. chosen' \in [Pins -> Versions]
    BY <1>1, Bounds
  <2>5. {truncated', incomplete', bounded', passedOver'} \subseteq BOOLEAN
    BY <1>1
  <2> QED BY <1>1, <2>1, <2>3, <2>4, <2>5 DEF SearchTypeOK
<1>3. SearchPlaces' /\ OriginalsFirst' /\ InTrial' /\ PassedTried' /\ PassedOverShows' /\ ChosenFirst'
  BY <1>1 DEF SearchPlaces, OriginalsFirst, InTrial, PassedTried, PassedOverShows, ChosenFirst
<1>4. Observed' /\ OptionsDiffer' /\ ExhaustedIsComplete'
  BY <1>1, FS_EmptySet DEF Observed, OptionsDiffer, ExhaustedIsComplete
<1> QED BY <1>2, <1>3, <1>4 DEF SearchInv

\* The download stage leaves the search alone.
LEMMA SearchKept ==
    ASSUME SearchInv, UNCHANGED resolverVars
    PROVE  SearchInv'
<1>1. SearchTypeOK' /\ SearchPlaces'
  BY DEF resolverVars, SearchInv, SearchTypeOK, SearchPlaces, Frontier
<1>2. Observed' /\ OptionsDiffer' /\ OriginalsFirst' /\ PassedOverShows'
  BY DEF resolverVars, SearchInv, Observed, OptionsDiffer, OriginalsFirst, PassedOverShows
<1>3. /\ UNCHANGED <<phase, code, attempts, pin, options, left, chosen, viable, bounded,
                     passedOver>>
      /\ Selections' = Selections /\ LastPlaces' = LastPlaces /\ LastSource' = LastSource
  BY DEF resolverVars, Selections, LastPlaces, LastSource, PlaceOf
<1>4. \A c : VersionsOf(c)' = VersionsOf(c)
  BY <1>3 DEF VersionsOf
<1>5. ASSUME NEW c, NEW s
      PROVE  /\ Tried(c, s)' <=> Tried(c, s)
             /\ Open(c, s)' <=> Open(c, s)
             /\ _source_supports_substitutions(s, c)' <=> _source_supports_substitutions(s, c)
  BY <1>3, <1>4 DEF Tried, Open, _source_supports_substitutions
<1>6. InTrial'
  <2> SUFFICES ASSUME phase = "try"
               PROVE  viable' # {} /\ \E c \in Frontier(pin, options)' : Trying(c)'
    BY <1>3 DEF InTrial
  <2>1. Frontier(pin, options)' = Frontier(pin, options)
    BY <1>3
  <2>2. viable # {} /\ \E c \in Frontier(pin, options) : Trying(c)
    BY DEF SearchInv, InTrial
  <2>3. ASSUME NEW c, Trying(c) PROVE Trying(c)'
    BY <1>3, <1>4, <1>5, <2>1, <2>3 DEF Trying
  <2> QED BY <1>3, <2>1, <2>2, <2>3
<1>7. PassedTried'
  <2>1. ASSUME NEW c, Passed(c)' PROVE Passed(c)
    BY <1>3, <1>4, <2>1 DEF Passed
  <2> QED BY <1>3, <1>5, <2>1 DEF SearchInv, PassedTried
<1>8. ChosenFirst' /\ ExhaustedIsComplete'
  BY <1>3, <1>5 DEF SearchInv, ChosenFirst, ExhaustedIsComplete
<1> QED BY <1>1, <1>2, <1>6, <1>7, <1>8 DEF SearchInv

\* The inductive invariant of the resolve stage (CompatibleResolver.resolve):
\* which options were found, and that every choice the search is past was
\* tried on every source open to it.
THEOREM SearchInvariant == Spec => []SearchInv
<1>1. Init => SearchInv
  BY SearchInitInv DEF Init
<1>2. SearchInv /\ [Next]_vars => SearchInv'
  <2> SUFFICES ASSUME SearchInv, [Next]_vars PROVE SearchInv'
    OBVIOUS
  <2>1. CASE Search
    BY <2>1, TryOriginalsInv, StartPinInv, StopsInv, DiscoverInv, CombineInv, TryCandidateInv,
       FrontierEndsInv, ExhaustInv DEF Search
  <2>2. CASE Deadline
    BY <2>2, StopsInv
  <2>3. CASE Hand
    BY <2>3, HandInv
  <2>4. CASE UNCHANGED resolverVars
    BY <2>4, SearchKept
  <2> QED BY <2>1, <2>2, <2>3, <2>4 DEF Next, Resolve, ResolverNext, Download, Rest, vars
<1> QED BY <1>1, <1>2, PTL DEF Spec

\* The types of both stages, and the limits of the search: attempts,
\* observations, combinations and candidates (ResolveLimits,
\* _ObservationBudget, _CombinationBudget).
THEOREM StagesTypes == Spec => []TypeOK
<1>1. SearchInv /\ DownloadInv => TypeOK
  BY DEF SearchInv, DownloadInv, TypeOK
<1> QED BY <1>1, SearchInvariant, DownloadInvariant, PTL

\* Whatever indexes list and pip answers, the attempt that resolves is the
\* first in the order of resolve and _attempt_candidate_frontier that does:
\* every choice that is to be tried sooner was tried and failed.
THEOREM ResolvesWhatIsPreferred == Spec => []ChosenFirst
<1>1. SearchInv => ChosenFirst
  BY DEF SearchInv
<1> QED BY <1>1, SearchInvariant, PTL

\* EXHAUSTED means that what was discovered was used up: every pin was looked
\* up, every combination tried on every source that supports it, and no source
\* or entry within _MAX_PROVIDER_RELEASES was passed over for want of
\* observations.
THEOREM ExhaustionIsComplete == Spec => []ExhaustedIsComplete
<1>1. SearchInv => ExhaustedIsComplete
  BY DEF SearchInv
<1> QED BY <1>1, SearchInvariant, PTL
=============================================================================
