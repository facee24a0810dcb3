-------------------------- MODULE RetentionProofs ---------------------------
(***************************************************************************)
(* The safety of downloads and retention for any number of artifacts,      *)
(* downloads, API processes and faults, any batch size and any lease.      *)
(*                                                                         *)
(* That a sweep is safe is not inductive alone: objects are deleted some   *)
(* steps after their rows were claimed, so no record of the snapshot may   *)
(* become active again meanwhile (SeenIsWritten), and a ticket may be had  *)
(* only for an object that is there, which needs every missing object to   *)
(* be one of an expired artifact (MissingIsExpired).                       *)
(***************************************************************************)
EXTENDS Retention, TLAPS

MissingIsExpired == \A a \in Artifacts \ files : ttl[a] = 0

SeenIsWritten == \A i \in Instances : \A d \in sweep[i].seen : stream[d] # "none"

WrittenIsBegun == \A d \in Downloads : record[d].artifact # 0 => stream[d] # "none"

RetentionInv ==
    /\ TypeOK
    /\ MissingIsExpired
    /\ SeenIsWritten
    /\ WrittenIsBegun
    /\ SweepIsSafe
    /\ CleanedIsGone

\* The first state satisfies the invariant: every object is there and no
\* sweep or download has begun.
LEMMA InitRetentionInv == Init => RetentionInv
<1> SUFFICES ASSUME Init PROVE RetentionInv
  OBVIOUS
<1>1. TypeOK
  <2>1. [artifact |-> 0, left |-> 0, completed |-> FALSE] \in DownloadRecord
    BY CountsAssumption, LimitsAssumption DEF DownloadRecord, CountsAssumption, LimitsAssumption
  <2>2. NoSweep \in Sweep
    BY DEF NoSweep, Sweep
  <2>3. 0 \in 0 .. MaxFaults
    BY CountsAssumption DEF CountsAssumption
  <2> QED BY <2>1, <2>2, <2>3, ExpiryAssumption DEF Init, TypeOK, ExpiryAssumption
<1> QED BY <1>1 DEF Init, RetentionInv, MissingIsExpired, SeenIsWritten, WrittenIsBegun,
             SweepIsSafe, NoSweep, CleanedIsGone

\* Counting down stays within bounds.
LEMMA LessIsSmaller ==
    /\ \A n \in Nat : Less(n) \in Nat /\ Less(n) <= n /\ (n = 0 => Less(n) = 0)
    /\ \A n \in 0 .. LeaseTicks : Less(n) \in 0 .. LeaseTicks /\ (Less(n) > 0 => n > 0)
BY LimitsAssumption DEF Less, LimitsAssumption

\* Sweep records put together from sets of downloads and artifacts.
LEMMA SweepUpdates ==
    ASSUME NEW s \in Sweep, NEW a, NEW m \in SUBSET Artifacts, NEW e \in SUBSET Downloads
    PROVE  /\ [begun |-> TRUE, seen |-> s.seen, rows |-> s.rows,
               todo |-> s.todo \ {a}, marked |-> m] \in Sweep
           /\ NoSweep \in Sweep
           /\ [begun |-> TRUE, seen |-> e, rows |-> {}, todo |-> {}, marked |-> {}] \in Sweep
           /\ [begun |-> TRUE, seen |-> s.seen, rows |-> m, todo |-> m, marked |-> {}] \in Sweep
BY DEF Sweep, NoSweep

\* Every step preserves the types.
LEMMA NextTypeOK == TypeOK /\ [Next]_vars => TypeOK'
<1> SUFFICES ASSUME TypeOK, [Next]_vars PROVE TypeOK'
  OBVIOUS
<1>1. ASSUME NEW d \in Downloads, Download(d) PROVE TypeOK'
  <2>1. ASSUME NEW a \in Artifacts, PrepareDownload(d, a) PROVE TypeOK'
    <3>1. NewRecord(a) \in DownloadRecord
      BY CountsAssumption, LimitsAssumption
         DEF NewRecord, DownloadRecord, Artifacts, CountsAssumption, LimitsAssumption
    <3> QED BY <2>1, <3>1 DEF TypeOK, PrepareDownload
  <2>2. CASE OpenObject(d)
    BY <2>2 DEF TypeOK, OpenObject, dbVars
  <2>3. CASE CompleteStream(d)
    <3>1. CompletedRecord(record[d]) \in DownloadRecord
      BY DEF TypeOK, CompletedRecord, DownloadRecord
    <3> QED BY <2>3, <3>1 DEF TypeOK, CompleteStream
  <2>4. CASE AbandonStream(d)
    BY <2>4 DEF TypeOK, AbandonStream, dbVars
  <2> QED BY <1>1, <2>1, <2>2, <2>3, <2>4 DEF Download
<1>2. ASSUME NEW i \in Instances, CleanUp(i) PROVE TypeOK'
  <2>0. sweep[i] \in Sweep /\ sweep[i].marked \in SUBSET Artifacts
    BY DEF TypeOK, Sweep
  <2>1. CASE ClaimExpired(i)
    <3>1. Batch(i) \in SUBSET Artifacts
      BY DEF Batch, Eligible
    <3>2. ClaimedSweep(i) \in Sweep /\ NoSweep \in Sweep
      BY <3>1, <2>0, SweepUpdates DEF ClaimedSweep
    <3> QED BY <2>1, <3>2 DEF TypeOK, ClaimExpired, dbVars
  <2>5. CASE ReadSwitch(i)
    <3> DEFINE E == {d \in Downloads : record[d].artifact # 0 /\ ~record[d].completed}
    <3>1. [begun |-> TRUE, seen |-> E, rows |-> {}, todo |-> {}, marked |-> {}] \in Sweep
      BY <2>0, SweepUpdates
    <3> QED BY <2>5, <3>1 DEF TypeOK, ReadSwitch, dbVars
  <2>2. CASE CommitSweep(i)
    <3>1. NoSweep \in Sweep
      BY <2>0, SweepUpdates
    <3> QED BY <2>0, <2>2, <3>1 DEF TypeOK, CommitSweep
  <2>3. ASSUME NEW a \in Artifacts, DeleteObject(i, a) PROVE TypeOK'
    <3>1. [begun |-> TRUE, seen |-> sweep[i].seen, rows |-> sweep[i].rows,
           todo |-> sweep[i].todo \ {a}, marked |-> sweep[i].marked \cup {a}] \in Sweep
      BY <2>0, SweepUpdates
    <3> QED BY <2>3, <3>1 DEF TypeOK, DeleteObject, LoopOn, dbVars
  <2>4. ASSUME NEW a \in Artifacts, DeleteThrows(i, a) PROVE TypeOK'
    <3>1. [begun |-> TRUE, seen |-> sweep[i].seen, rows |-> sweep[i].rows,
           todo |-> sweep[i].todo \ {a}, marked |-> sweep[i].marked] \in Sweep
      BY <2>0, SweepUpdates
    <3>2. faults' \in 0 .. MaxFaults
      BY <2>4, CountsAssumption DEF TypeOK, DeleteThrows, CountsAssumption
    <3>3. files' \subseteq Artifacts
      BY <2>4 DEF TypeOK, DeleteThrows
    <3> QED BY <2>4, <3>1, <3>2, <3>3 DEF TypeOK, DeleteThrows, MarkedAfterThrow, LoopOn, dbVars
  <2> QED BY <1>2, <2>1, <2>2, <2>3, <2>4, <2>5 DEF CleanUp
<1>3. ASSUME NEW i \in Instances, RollBackSweep(i) PROVE TypeOK'
  <2>1. NoSweep \in Sweep
    BY DEF NoSweep, Sweep
  <2>2. faults' \in 0 .. MaxFaults
    BY <1>3, CountsAssumption DEF TypeOK, RollBackSweep, CountsAssumption
  <2> QED BY <1>3, <2>1, <2>2 DEF TypeOK, RollBackSweep, dbVars
<1>4. CASE SwitchRetention
  BY <1>4 DEF TypeOK, SwitchRetention
<1>5. CASE Tick
  <2>1. \A d \in Downloads : record'[d] \in DownloadRecord
    BY <1>5, LessIsSmaller DEF TypeOK, Tick, DownloadRecord
  <2>2. \A a \in Artifacts : ttl'[a] \in Nat
    BY <1>5, LessIsSmaller DEF TypeOK, Tick
  <2> QED BY <1>5, <2>1, <2>2 DEF TypeOK, Tick
<1>6. CASE UNCHANGED vars
  BY <1>6 DEF TypeOK, vars
<1> QED BY <1>1, <1>2, <1>3, <1>4, <1>5, <1>6 DEF Next

(***************************************************************************)
(* The safety invariant.                                                   *)
(***************************************************************************)
\* A step of a download preserves the invariant: a new lease begins on an
\* unexpired artifact, which no sweep holds, and in no snapshot.
LEMMA DownloadStep ==
    ASSUME RetentionInv, TypeOK', NEW d \in Downloads, Download(d)
    PROVE  RetentionInv'
<1>0. /\ record \in [Downloads -> DownloadRecord] /\ sweep \in [Instances -> Sweep]
      /\ stream \in [Downloads -> {"none", "ticket", "open", "ended"}]
      /\ UNCHANGED <<ttl, cleaned, files, sweep>>
  BY DEF RetentionInv, TypeOK, Download, PrepareDownload, OpenObject, CompleteStream,
         AbandonStream, dbVars
<1>1. MissingIsExpired' /\ CleanedIsGone'
  BY <1>0 DEF RetentionInv, MissingIsExpired, CleanedIsGone
<1>2. stream'[d] # "none" /\ \A e \in Downloads \ {d} : stream'[e] = stream[e]
  BY <1>0 DEF Download, PrepareDownload, OpenObject, CompleteStream, AbandonStream
<1>3. SeenIsWritten'
  <2>1. \A i \in Instances : sweep[i].seen \subseteq Downloads
    BY <1>0 DEF Sweep
  <2> QED BY <1>0, <1>2, <2>1 DEF RetentionInv, SeenIsWritten
<1>4. \A e \in Downloads \ {d} : record'[e] = record[e]
  BY <1>0 DEF Download, PrepareDownload, OpenObject, CompleteStream, AbandonStream, dbVars
<1>5. WrittenIsBegun'
  BY <1>2, <1>4 DEF RetentionInv, WrittenIsBegun
<1>6. \A i \in Instances : \A e \in sweep[i].seen :
         record'[e].artifact = record[e].artifact /\ record'[e].left = record[e].left
  <2> SUFFICES ASSUME NEW i \in Instances, d \in sweep[i].seen
               PROVE  record'[d].artifact = record[d].artifact /\ record'[d].left = record[d].left
    <3>1. \A j \in Instances : sweep[j].seen \subseteq Downloads
      BY <1>0 DEF Sweep
    <3> QED BY <1>4, <3>1
  <2>1. stream[d] # "none"
    BY DEF RetentionInv, SeenIsWritten
  <2> QED BY <1>0, <2>1 DEF Download, PrepareDownload, OpenObject, CompleteStream,
             AbandonStream, CompletedRecord, dbVars
<1>7. SweepIsSafe'
  BY <1>0, <1>6 DEF RetentionInv, SweepIsSafe, ActiveDownload
<1> QED BY <1>1, <1>3, <1>5, <1>7 DEF RetentionInv

\* A step of a sweep preserves the invariant: only objects of the rows it
\* locked are deleted, and a row is marked only after that.
LEMMA SweepStep ==
    ASSUME RetentionInv, TypeOK', NEW i \in Instances, CleanUp(i) \/ RollBackSweep(i)
    PROVE  RetentionInv'
<1>0. /\ UNCHANGED <<ttl, record, stream>> /\ sweep \in [Instances -> Sweep]
      /\ \A j \in Instances \ {i} : sweep'[j] = sweep[j]
  BY DEF RetentionInv, TypeOK, CleanUp, RollBackSweep, ReadSwitch, ClaimExpired,
         CommitSweep, DeleteObject, DeleteThrows, LoopOn, dbVars
<1>s. SweepIsSafe /\ SeenIsWritten /\ MissingIsExpired /\ CleanedIsGone
  BY DEF RetentionInv
<1>w. WrittenIsBegun'
  BY <1>0 DEF RetentionInv, WrittenIsBegun
<1>1. CASE ReadSwitch(i)
  <2>1. UNCHANGED <<files, cleaned>>
    BY <1>1 DEF ReadSwitch, dbVars
  <2>2. /\ sweep'[i].seen = {d \in Downloads : record[d].artifact # 0 /\ ~record[d].completed}
        /\ sweep'[i].rows = {} /\ sweep'[i].todo = {} /\ sweep'[i].marked = {}
    BY <1>0, <1>1 DEF ReadSwitch
  <2>3. SeenIsWritten'
    BY <1>0, <1>s, <2>2 DEF RetentionInv, SeenIsWritten, WrittenIsBegun
  <2>4. SweepIsSafe'
    BY <1>0, <1>s, <2>1, <2>2 DEF SweepIsSafe, ActiveDownload
  <2> QED BY <1>0, <1>s, <1>w, <2>1, <2>3, <2>4 DEF RetentionInv, MissingIsExpired, CleanedIsGone
<1>2. CASE ClaimExpired(i)
  <2>1. UNCHANGED <<files, cleaned>>
    BY <1>2 DEF ClaimExpired, dbVars
  <2>2. \A a \in Batch(i) : ttl[a] = 0 /\ ~ActiveDownload(i, a)
    BY DEF Batch, Eligible
  <2>3. \/ sweep'[i] = NoSweep
        \/ /\ sweep'[i].seen = sweep[i].seen /\ sweep'[i].rows = Batch(i)
           /\ sweep'[i].todo = Batch(i) /\ sweep'[i].marked = {}
    BY <1>0, <1>2 DEF ClaimExpired, ClaimedSweep
  <2>4. SeenIsWritten'
    BY <1>0, <1>s, <2>3 DEF SeenIsWritten, NoSweep
  <2>5. SweepIsSafe'
    <3>1. \A j \in Instances \ {i} : \A a : ActiveDownload(j, a)' <=> ActiveDownload(j, a)
      BY <1>0 DEF ActiveDownload
    <3>2. CASE sweep'[i] = NoSweep
      BY <1>0, <1>s, <2>1, <3>1, <3>2 DEF SweepIsSafe, NoSweep
    <3>3. CASE sweep'[i].seen = sweep[i].seen /\ sweep'[i].rows = Batch(i)
                 /\ sweep'[i].todo = Batch(i) /\ sweep'[i].marked = {}
      <4>1. \A a : ActiveDownload(i, a)' <=> ActiveDownload(i, a)
        BY <1>0, <3>3 DEF ActiveDownload
      <4> HIDE DEF Batch
      <4> QED BY <1>0, <1>s, <2>1, <2>2, <3>1, <3>3, <4>1 DEF SweepIsSafe
    <3> QED BY <2>3, <3>2, <3>3
  <2> QED BY <1>0, <1>s, <1>w, <2>1, <2>4, <2>5 DEF RetentionInv, MissingIsExpired, CleanedIsGone
<1>3. CASE CommitSweep(i) \/ RollBackSweep(i)
  <2>1. UNCHANGED files /\ sweep' = [sweep EXCEPT ![i] = NoSweep]
    BY <1>3 DEF CommitSweep, RollBackSweep
  <2>2. cleaned' \subseteq cleaned \cup sweep[i].marked
    BY <1>3 DEF CommitSweep, RollBackSweep, dbVars
  <2>3. CleanedIsGone'
    BY <1>s, <2>1, <2>2 DEF CleanedIsGone, SweepIsSafe
  <2>4. SweepIsSafe' /\ SeenIsWritten'
    BY <1>0, <1>s, <2>1 DEF SweepIsSafe, SeenIsWritten, ActiveDownload, NoSweep
  <2> QED BY <1>0, <1>s, <1>w, <2>1, <2>3, <2>4 DEF RetentionInv, MissingIsExpired
<1>4. ASSUME NEW a \in Artifacts, DeleteObject(i, a) \/ DeleteThrows(i, a) PROVE RetentionInv'
  <2>1. a \in sweep[i].rows /\ ttl[a] = 0
    BY <1>4, <1>s DEF DeleteObject, DeleteThrows, IsNextRow, SweepIsSafe
  <2>2. files' \in {files, files \ {a}} /\ UNCHANGED cleaned
    BY <1>4 DEF DeleteObject, DeleteThrows, dbVars
  <2>3. \E m \in {sweep[i].marked, sweep[i].marked \cup {a}} :
          /\ m = sweep[i].marked \/ a \notin files'
          /\ sweep' = [sweep EXCEPT ![i] = [begun |-> TRUE, seen |-> sweep[i].seen,
                         rows |-> sweep[i].rows, todo |-> sweep[i].todo \ {a}, marked |-> m]]
    <3>1. CASE DeleteObject(i, a)
      BY <3>1 DEF DeleteObject, LoopOn
    <3>2. CASE DeleteThrows(i, a)
      BY <3>2 DEF DeleteThrows, LoopOn, MarkedAfterThrow
    <3> QED BY <1>4, <3>1, <3>2
  <2>4. \A j \in Instances : sweep'[j].seen = sweep[j].seen /\ sweep'[j].rows = sweep[j].rows
    BY <1>0, <2>3
  <2>5. \A j \in Instances : \A b : ActiveDownload(j, b)' <=> ActiveDownload(j, b)
    BY <1>0, <2>4 DEF ActiveDownload
  <2>6. SweepIsSafe'
    BY <1>0, <1>s, <2>1, <2>2, <2>3, <2>5 DEF SweepIsSafe
  <2>7. SeenIsWritten'
    BY <1>0, <1>s, <2>4 DEF SeenIsWritten
  <2>8. CleanedIsGone' /\ MissingIsExpired'
    BY <1>0, <1>s, <2>1, <2>2 DEF CleanedIsGone, MissingIsExpired
  <2> QED BY <1>w, <2>6, <2>7, <2>8 DEF RetentionInv
<1> QED BY <1>1, <1>2, <1>3, <1>4 DEF CleanUp

\* The passing of time preserves the invariant: artifacts only expire and
\* leases only run out.
LEMMA TickStep ==
    ASSUME RetentionInv, TypeOK', Tick
    PROVE  RetentionInv'
<1>0. /\ UNCHANGED <<cleaned, files, sweep, stream>>
      /\ ttl \in [Artifacts -> Nat] /\ record \in [Downloads -> DownloadRecord]
      /\ sweep \in [Instances -> Sweep]
  BY DEF Tick, RetentionInv, TypeOK
<1>1. \A a \in Artifacts : ttl[a] = 0 => ttl'[a] = 0
  BY <1>0, LessIsSmaller DEF Tick
<1>2. \A d \in Downloads : /\ record'[d].artifact = record[d].artifact
                           /\ record'[d].left > 0 => record[d].left > 0
  BY <1>0, LessIsSmaller DEF Tick, DownloadRecord
<1>3. \A i \in Instances : sweep[i].rows \subseteq Artifacts /\ sweep[i].seen \subseteq Downloads
  BY <1>0 DEF Sweep
<1>4. \A i \in Instances : \A a : ActiveDownload(i, a)' => ActiveDownload(i, a)
  BY <1>0, <1>2, <1>3 DEF ActiveDownload
<1>5. SweepIsSafe'
  BY <1>0, <1>1, <1>3, <1>4 DEF RetentionInv, SweepIsSafe
<1>6. MissingIsExpired' /\ CleanedIsGone' /\ SeenIsWritten' /\ WrittenIsBegun'
  BY <1>0, <1>1, <1>2 DEF RetentionInv, MissingIsExpired, CleanedIsGone, SeenIsWritten,
                          WrittenIsBegun
<1> QED BY <1>5, <1>6 DEF RetentionInv

\* The inductive invariant holds in every reachable state.
THEOREM RetentionInvariant == Spec => []RetentionInv
<1>1. Init => RetentionInv
  BY InitRetentionInv
<1>2. RetentionInv /\ [Next]_vars => RetentionInv'
  <2> SUFFICES ASSUME RetentionInv, [Next]_vars PROVE RetentionInv'
    OBVIOUS
  <2>1. TypeOK'
    BY NextTypeOK DEF RetentionInv
  <2>2. ASSUME NEW d \in Downloads, Download(d) PROVE RetentionInv'
    BY <2>1, <2>2, DownloadStep
  <2>3. ASSUME NEW i \in Instances, CleanUp(i) \/ RollBackSweep(i) PROVE RetentionInv'
    BY <2>1, <2>3, SweepStep
  <2>4. CASE Tick
    BY <2>1, <2>4, TickStep
  <2>5. CASE SwitchRetention \/ UNCHANGED vars
    <3>1. UNCHANGED <<ttl, cleaned, files, record, sweep, stream>>
      BY <2>5 DEF SwitchRetention, vars
    <3> QED BY <2>1, <3>1 DEF RetentionInv, MissingIsExpired, SeenIsWritten, WrittenIsBegun,
               SweepIsSafe, CleanedIsGone, ActiveDownload
  <2> QED BY <2>2, <2>3, <2>4, <2>5 DEF Next
<1> QED BY <1>1, <1>2, PTL DEF Spec

\* A step that deletes the object of a running lease belongs to a sweep whose
\* snapshot does not hold that download.
LEMMA LeaseStep ==
    ASSUME RetentionInv, Next, NEW d \in Downloads, Leased(d),
           record[d].artifact \in files \ files'
    PROVE  \E i \in Instances : /\ record[d].artifact \in sweep[i].rows
                                /\ d \notin sweep[i].seen
<1>1. PICK i \in Instances, a \in Artifacts : DeleteObject(i, a) \/ DeleteThrows(i, a)
  BY DEF Next, Download, PrepareDownload, OpenObject, CompleteStream, AbandonStream, CleanUp,
         ReadSwitch, ClaimExpired, CommitSweep, RollBackSweep, SwitchRetention, Tick, dbVars
<1>2. files' \in {files, files \ {a}} /\ a \in sweep[i].todo
  BY <1>1 DEF DeleteObject, DeleteThrows, IsNextRow
<1>3. record[d].artifact = a
  BY <1>2
<1>4. a \in sweep[i].rows /\ ~ActiveDownload(i, a)
  BY <1>2 DEF RetentionInv, SweepIsSafe
<1>5. d \notin sweep[i].seen
  BY <1>3, <1>4 DEF ActiveDownload, Leased
<1> QED BY <1>3, <1>4, <1>5

\* A download whose record the sweep could see keeps its object until its
\* lease runs out, whatever expires, fails or runs beside it.
THEOREM KnownLeasesKept == Spec => KnownLeaseKept
<1>1. RetentionInv /\ [Next]_vars =>
        [\A d \in Downloads :
            Leased(d) /\ record[d].artifact \in files \ files' =>
               \E i \in Instances : /\ record[d].artifact \in sweep[i].rows
                                    /\ d \notin sweep[i].seen]_vars
  BY LeaseStep
<1> QED BY <1>1, RetentionInvariant, PTL DEF Spec, KnownLeaseKept

\* No ticket is handed out for an object that is gone.
THEOREM TicketsHaveObjects == Spec => []AvailableHasObject
<1>1. RetentionInv => AvailableHasObject
  BY DEF RetentionInv, AvailableHasObject, Available, MissingIsExpired
<1> QED BY <1>1, RetentionInvariant, PTL

\* What a sweep holds stays expired and unused until it commits, and a row is
\* marked only when its object is gone.
THEOREM SweepsAreSafe == Spec => []SweepIsSafe
<1>1. RetentionInv => SweepIsSafe
  BY DEF RetentionInv
<1> QED BY <1>1, RetentionInvariant, PTL

\* A row recorded as cleaned has no object left.
THEOREM CleanedRowsAreGone == Spec => []CleanedIsGone
<1>1. RetentionInv => CleanedIsGone
  BY DEF RetentionInv
<1> QED BY <1>1, RetentionInvariant, PTL

\* Every reachable state is well typed: in particular the lease of a download
\* never exceeds the configured one, and faults stay within their bound.
THEOREM TypesHold == Spec => []TypeOK
<1>1. RetentionInv => TypeOK
  BY DEF RetentionInv
<1> QED BY <1>1, RetentionInvariant, PTL
=============================================================================
