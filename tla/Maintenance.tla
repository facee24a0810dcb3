----------------------------- MODULE Maintenance ------------------------------
(***************************************************************************)
(* The files a worker leaves behind and the sweep that clears them: the     *)
(* publication, compensation and recovery of objects (RootedLocalStorage),  *)
(* the execution workspaces (WorkspaceManager) and the service that sweeps  *)
(* both (MaintenanceService), all of jobs/storage.py and jobs/maintenance.py*)
(* around the queue of MaintenanceRecords.                                  *)
(*                                                                         *)
(* An execution is one claim of a job by one worker.  A build allocates a   *)
(* workspace, publishes one artifact under a key of its own, records it in  *)
(* the database and cleans its workspace; a parse publishes the normalized  *)
(* requirements of its file, under one key for all executions.  Everything  *)
(* in a root happens under that root's gate, so what a call does there is   *)
(* one action; a process may die between any two of its steps, and n counts *)
(* the steps it got through.  The database is not under the gate: leases    *)
(* end and artifacts are recorded at any time during a sweep.               *)
(***************************************************************************)
EXTENDS MaintenanceRecords

CONSTANTS
    Builds, Parses, \* executions
    Normalized,     \* the object key of the parses' file
    Nobody,
    Scenarios,      \* bound: which executions run together, over how many sweeps,
                    \* and how many of them die or have a call break off
    Skewed,         \* executions whose worker's clock may be behind
    Depth           \* nested directories in a workspace

ASSUME MaintenanceAssumption ==
    /\ Builds \cap Parses = {}
    /\ Normalized \notin Builds \cup Parses
    /\ Nobody \notin Builds \cup Parses
    /\ Skewed \subseteq Builds \cup Parses
    /\ Scenarios \subseteq
         [running : SUBSET (Builds \cup Parses), sweeps : Nat, faults : Nat]
    /\ Depth \in Nat

VARIABLES
    lease,      \* the job row of each execution
    rows,       \* builds whose artifact row is not cleaned
    cleaning,   \* rows a retention transaction has locked, their object removed
    pc,         \* where the worker of each execution is
    stage,      \* the stage file of each execution's publication
    canon,      \* object key -> execution whose file is there, or Nobody
    quar,       \* the quarantine directory of each execution's compensation
    moved,      \* the file in it: the execution that published it
    ws,         \* the workspace directory of each build
    tree,       \* how deep the directories left in it go
    stack,      \* how deep the persisted cleanup stack goes
    queue,      \* the copies of the maintenance records, both roots
    intent,     \* the publication item a worker keeps, in a set
    owned,      \* the workspace item a worker keeps, in a set
    sweep,      \* the sweep in progress
    old,        \* files older than the minimum age
    restored,   \* keys a quarantined file was moved back to
    restart,    \* a process has died and not started again
    sweeps,     \* sweeps still to begin
    faults      \* deaths and calls that break off still to come

vars == <<lease, rows, cleaning, pc, stage, canon, quar, moved, ws, tree, stack,
          queue, intent, owned, sweep, old, restored, restart, sweeps, faults>>

dbVars == <<lease, rows, cleaning>>
dataVars == <<stage, canon, quar, moved>>
wsVars == <<ws, tree, stack>>
workerVars == <<pc, intent, owned>>
countVars == <<restart, sweeps, faults>>

Execs == Builds \cup Parses

Keys == Builds \cup {Normalized}

Key(e) == IF e \in Builds THEN e ELSE Normalized

\* Record ids; the kind of a record is part of its id here.
Publication(e) == <<"publication", e>>
Quarantine(e)  == <<"quarantine", e>>
Workspace(e)   == <<"workspace", e>>

\* missed: executions whose lease had run out on the sweeping worker's clock
\* and not on their own.
NoSweep == [phase |-> "idle", active |-> {}, missed |-> {}, rows |-> {}, old |-> {},
            todo |-> {}]

Init ==
    /\ lease = [e \in Execs |-> "queued"] /\ rows = {} /\ cleaning = {}
    /\ \E s \in Scenarios :
         /\ pc = [e \in Execs |-> IF e \in s.running THEN "start" ELSE "end"]
         /\ sweeps = s.sweeps /\ faults = s.faults
    /\ stage = [e \in Execs |-> "none"] /\ canon = [k \in Keys |-> Nobody]
    /\ quar = [e \in Execs |-> "none"] /\ moved = [e \in Execs |-> Nobody]
    /\ ws = [e \in Builds |-> "none"]
    /\ tree = [e \in Builds |-> 0] /\ stack = [e \in Builds |-> 0]
    /\ queue = {}
    /\ intent = [e \in Execs |-> {}] /\ owned = [e \in Builds |-> {}]
    /\ sweep = NoSweep /\ old = {} /\ restored = {}
    /\ restart = FALSE

DataGate == sweep.phase # "data"
WorkspaceGate == sweep.phase # "workspaces"

\* The process of e dies.
Dies(e) ==
    /\ faults > 0
    /\ pc' = [pc EXCEPT ![e] = "dead"]
    /\ faults' = faults - 1 /\ restart' = TRUE
    /\ UNCHANGED sweeps

\* A file operation raises in the middle of a call of e, which goes on at next,
\* or dies before.
BreaksOff(e, next) ==
    \/ /\ faults > 0
       /\ pc' = [pc EXCEPT ![e] = next]
       /\ faults' = faults - 1
       /\ UNCHANGED <<restart, sweeps>>
    \/ Dies(e)

\* It goes on at next, or dies.
Ends(e, next) ==
    \/ pc' = [pc EXCEPT ![e] = next] /\ UNCHANGED countVars
    \/ Dies(e)

\* It goes on at next after the last step of a call, or dies after step n.
Reaches(e, n, last, next) ==
    \/ n < last /\ Dies(e)
    \/ n = last /\ pc' = [pc EXCEPT ![e] = next] /\ UNCHANGED countVars

-----------------------------------------------------------------------------
(* The database: claims, leases that end, artifact rows.                    *)

\* The parses are executions of one job: one takes over when another has lost
\* its lease.
Claim(e) ==
    /\ lease[e] = "queued" /\ pc[e] = "start"
    /\ e \in Parses => \A x \in Parses : lease[x] \in {"queued", "lost"}
    /\ lease' = [lease EXCEPT ![e] = "live"]
    /\ pc' = [pc EXCEPT ![e] = IF e \in Builds THEN "claimed" ELSE "working"]
    /\ UNCHANGED <<rows, cleaning, dataVars, wsVars, queue, intent, owned, sweep, old,
                   restored, countVars>>

\* The lease is not renewed before it has run out on some worker's clock.  It
\* stays late: the owner's clock may be behind, and it may still renew it.
LeaseLate(e) ==
    /\ lease[e] = "live" /\ e \in Skewed
    /\ lease' = [lease EXCEPT ![e] = "late"]
    /\ UNCHANGED <<rows, cleaning, dataVars, wsVars, queue, workerVars, sweep, old,
                   restored, countVars>>

\* The execution ends without an artifact, or another worker takes over.
LoseLease(e) ==
    /\ lease[e] \in {"live", "late"}
    /\ lease' = [lease EXCEPT ![e] = "lost"]
    /\ UNCHANGED <<rows, cleaning, dataVars, wsVars, queue, workerVars, sweep, old,
                   restored, countVars>>

\* publish_artifact_terminal and complete_parse commit: under a lease that is
\* live on the owner's clock.  The worker goes on at next.
Records(e, next) ==
    /\ pc[e] = "published" /\ lease[e] \in {"live", "late"}
    /\ lease' = [lease EXCEPT ![e] = "closed"]
    /\ rows' = IF e \in Builds THEN rows \cup {e} ELSE rows
    /\ pc' = [pc EXCEPT ![e] = next]
    /\ UNCHANGED <<cleaning, dataVars, wsVars, queue, intent, owned, sweep, old,
                   restored, countVars>>

Record(e) == Records(e, "settled")

\* The answer of the commit is lost: the worker sees an exception and goes on to
\* compensate what it has recorded.
RecordUnacknowledged(e) == Records(e, "published")

\* The retention job of the API removes the object under the lock of its row,
\* and marks the row, unless the transaction rolls back.
RetainObject(e) ==
    /\ e \in rows \ cleaning
    /\ canon' = [canon EXCEPT ![e] = Nobody]
    /\ cleaning' = cleaning \cup {e}
    /\ UNCHANGED <<lease, rows, stage, quar, moved, wsVars, queue, workerVars, sweep,
                   old, restored, countVars>>

RetainEnd(e) ==
    /\ e \in cleaning
    /\ rows' \in {rows, rows \ {e}}
    /\ cleaning' = cleaning \ {e}
    /\ UNCHANGED <<lease, dataVars, wsVars, queue, workerVars, sweep, old, restored,
                   countVars>>

\* Everything there is grows older than the minimum age.
TimePasses ==
    LET there == {<<"file", e>> : e \in {x \in Execs : stage[x] # "none"
                                           \/ canon[Key(x)] = x}}
                 \cup {<<"quarantine", e>> : e \in {x \in Execs : quar[x] # "none"}}
                 \cup {<<"workspace", e>> : e \in {x \in Builds : ws[x] # "none"}}
    IN  /\ ~(there \subseteq old)
        /\ old' = there
        /\ UNCHANGED <<dbVars, dataVars, wsVars, queue, workerVars, sweep,
                       restored, countVars>>

Fresh(what, e) == old' = old \ {<<what, e>>}

-----------------------------------------------------------------------------
(* WorkspaceManager.allocate and OwnedWorkspace.cleanup.                    *)

\* The queue after step n: 1 the intent, 2 the directory, 3 and 4 the move that
\* binds the intent.
Allocated(e, n) ==
    LET first == Copy(queue, Workspace(e), 0, "ready", FALSE)
        q1 == queue \cup {first}
        q3 == MoveEnqueue(q1, first, "ready", TRUE)
    IN  CASE n = 0 -> queue [] n \in {1, 2} -> q1
          [] n = 3 -> q3 [] n = 4 -> CompleteItem(q3, first)

\* Mutant: the directory is made before the intent is on disk.
AllocateMakesDirFirst(e, n) ==
    /\ pc[e] = "claimed" /\ WorkspaceGate
    /\ queue' = Allocated(e, IF n = 1 THEN 0 ELSE n)
    /\ ws' = [ws EXCEPT ![e] = "dir"]
    /\ tree' = [tree EXCEPT ![e] = IF n = 4 THEN Depth ELSE @]
    /\ owned' = [owned EXCEPT ![e] = IF n = 4 THEN queue' \ queue ELSE @]
    /\ Fresh("workspace", e)
    /\ Reaches(e, n, 4, "working")
    /\ UNCHANGED <<dbVars, dataVars, stack, intent, sweep, restored>>

\* The stages fill the workspace, tree says how deep.
Allocate(e, n) ==
    /\ pc[e] = "claimed" /\ WorkspaceGate
    /\ queue' = Allocated(e, n)
    /\ ws' = [ws EXCEPT ![e] = IF n >= 2 THEN "dir" ELSE @]
    /\ tree' = [tree EXCEPT ![e] = IF n = 4 THEN Depth ELSE @]
    /\ owned' = [owned EXCEPT ![e] = IF n = 4 THEN queue' \ queue ELSE @]
    /\ Fresh("workspace", e)
    /\ Reaches(e, n, 4, "working")
    /\ UNCHANGED <<dbVars, dataVars, stack, intent, sweep, restored>>

\* An exception after step n, 0 the gate: the record stays as it is and the
\* directory is removed again, or not.  The job fails.
AllocateRaises(e, n) ==
    /\ pc[e] = "claimed" /\ (n > 0 => WorkspaceGate)
    /\ queue' = Allocated(e, n)
    /\ \E left \in IF n >= 2 THEN {"none", "dir"} ELSE {"none"} :
         ws' = [ws EXCEPT ![e] = left]
    /\ Fresh("workspace", e)
    /\ BreaksOff(e, "end")
    /\ UNCHANGED <<dbVars, dataVars, tree, stack, intent, owned, sweep, restored>>

\* Mutant: it pushes once more below the deepest directory.
ClearedOnePast(t, s) ==
    {<<t, b>> : b \in s .. t + 1}
       \cup {p \in (0 .. t) \X (0 .. t) : p[1] < t /\ p[2] \in {p[1], p[1] + 1}}

\* Where _bounded_clear_workspace may leave a workspace whose directories go
\* t deep and whose stack goes s deep: it pushes down to the deepest one, then
\* removes it and pops, one level after the other.  Removing the directory
\* and writing the popped stack are two steps.
Cleared(t, s) ==
    {<<t, b>> : b \in s .. t}
       \cup {p \in (0 .. t) \X (0 .. t) : p[1] < t /\ p[2] \in {p[1], p[1] + 1}}

Settled(progress) == {p \in progress : p[2] <= p[1]}

\* _bounded_cleanup_workspace up to the progress p: retired under another
\* name, then cleared; a workspace it finishes is removed.  The budget may not
\* allow for the first of this.
CleanUp(e, p, finished) ==
    /\ stack[e] <= tree[e]
    /\ tree' = [tree EXCEPT ![e] = p[1]]
    /\ stack' = [stack EXCEPT ![e] = p[2]]
    /\ \/ /\ finished /\ p = <<0, 0>>
          /\ ws' = [ws EXCEPT ![e] = "none"] /\ Fresh("workspace", e)
       \/ /\ ~finished
          /\ ws' = [ws EXCEPT ![e] = "retired"] /\ Fresh("workspace", e)
       \/ /\ ~finished /\ p = <<tree[e], stack[e]>>
          /\ ws' \in {ws, [ws EXCEPT ![e] = "retired"]} /\ UNCHANGED old

\* The cleanup at the end of a build: it finishes, or runs out of its budget
\* and leaves the rest and the record to the sweep.
OwnerCleanUp(e) ==
    /\ pc[e] = "settled" /\ e \in Builds
    /\ pc' = [pc EXCEPT ![e] = "end"]
    /\ \/ /\ WorkspaceGate /\ ws[e] # "none"
          /\ \E p \in Settled(Cleared(tree[e], stack[e])), finished \in BOOLEAN :
               /\ CleanUp(e, p, finished)
               /\ \/ UNCHANGED queue
                  \/ \E it \in owned[e] : finished /\ queue' = CompleteItem(queue, it)
       \/ \* A sweep has removed it.
          /\ WorkspaceGate /\ ws[e] = "none"
          /\ \E it \in owned[e] : queue' = CompleteItem(queue, it)
          /\ UNCHANGED <<wsVars, old>>
       \/ \* The gate is taken, or the cleanup raises.
          UNCHANGED <<wsVars, queue, old>>
    /\ UNCHANGED <<dbVars, dataVars, intent, owned, sweep, restored, countVars>>

\* It dies on the way, or after the directory is gone and before the record.
OwnerCleanUpDies(e) ==
    /\ pc[e] = "settled" /\ e \in Builds /\ ws[e] # "none"
    /\ WorkspaceGate
    /\ \E p \in Cleared(tree[e], stack[e]), finished \in BOOLEAN :
         CleanUp(e, p, finished)
    /\ Dies(e)
    /\ UNCHANGED <<dbVars, dataVars, queue, intent, owned, sweep, restored>>

-----------------------------------------------------------------------------
(* RootedLocalStorage._publish.                                             *)

\* The first section: 1 the intent, 2 the stage file, 3 its ownership marker.
PublishStage(e, n) ==
    LET first == Copy(queue, Publication(e), 0, "ready", FALSE)
    IN  /\ pc[e] = "working" /\ DataGate
        /\ queue' = queue \cup {first}
        /\ stage' = [stage EXCEPT ![e] = CASE n = 1 -> "none"
                                           [] n = 2 -> "bare"
                                           [] n = 3 -> "marked"]
        /\ intent' = [intent EXCEPT ![e] = IF n = 3 THEN {first} ELSE {}]
        /\ Fresh("file", e)
        /\ Reaches(e, n, 3, "copying")
        /\ UNCHANGED <<dbVars, canon, quar, moved, wsVars, owned, sweep, restored>>

\* The first section fails: stage and intent are removed again, or left alone
\* if the gate is not free in time.
PublishStageRaises(e) ==
    /\ pc[e] = "working" /\ DataGate
    /\ \/ UNCHANGED <<queue, stage>>
       \/ /\ queue' = Enqueue(queue, Publication(e))
          /\ \E left \in {"none", "bare", "marked"} :
               stage' = [stage EXCEPT ![e] = left]
    /\ pc' = [pc EXCEPT ![e] = "settled"]
    /\ Fresh("file", e)
    /\ UNCHANGED <<dbVars, canon, quar, moved, wsVars, intent, owned, sweep,
                   restored, countVars>>

\* The second section after step n, with the stage still in place and the key
\* free: 1 and 2 the move that binds the intent, 3 the link, 4 the unlink of the
\* stage, 5 for an ordinary object the completion of the intent.  item is the
\* intent as far as the worker knows it to be moved.
Linked(e, it, n) ==
    LET q1 == MoveEnqueue(queue, it, "ready", TRUE)
        q2 == CompleteItem(q1, it)
        it2 == CHOOSE r \in q1 : r.id = it.id /\ r.lane = "ready"
                                  /\ r.generation = it.generation + 1
    IN  [queue |-> CASE n = 1 -> q1
                     [] n \in {2, 3, 4} -> q2
                     [] n = 5 -> IF e \in Builds THEN q2 ELSE CompleteItem(q2, it2),
         item  |-> IF n = 1 THEN it ELSE it2,
         canon |-> IF n >= 3 THEN e ELSE Nobody,
         stage |-> IF n >= 4 THEN "none" ELSE "marked"]

PublishLink(e, n) ==
    \E it \in intent[e] :
      /\ pc[e] = "copying" /\ DataGate
      /\ stage[e] = "marked" /\ canon[Key(e)] = Nobody
      /\ queue' = Linked(e, it, n).queue
      /\ canon' = [canon EXCEPT ![Key(e)] = Linked(e, it, n).canon]
      /\ stage' = [stage EXCEPT ![e] = Linked(e, it, n).stage]
      /\ intent' = [intent EXCEPT ![e] = {}]
      /\ Reaches(e, n, 5, "published")
      /\ UNCHANGED <<dbVars, quar, moved, wsVars, owned, sweep, old, restored>>

\* The error path, with the queue, the intent and the stage as the failed section
\* left them: the stage is removed and then the intent completed.  The
\* maintenance is left with both if the gate is not free in time, and with the
\* intent if its completion raises, as when another record has its slot.
CleanUpPublication(e, q, item, left) ==
    \/ /\ DataGate /\ left # "none"
       /\ stage' = [stage EXCEPT ![e] = "none"]
       /\ queue' \in {q, CompleteItem(q, item)}
    \/ /\ stage' = [stage EXCEPT ![e] = left]
       /\ queue' = q

\* The copy fails, the gate times out, or the stage was removed meanwhile.
PublishRaises(e) ==
    /\ pc[e] = "copying"
    /\ \E it \in intent[e] : CleanUpPublication(e, queue, it, stage[e])
    /\ intent' = [intent EXCEPT ![e] = {}]
    /\ Ends(e, "settled")
    /\ UNCHANGED <<dbVars, canon, quar, moved, wsVars, owned, sweep, old, restored>>

\* The second section raises after step n; an artifact that is linked stays.
PublishLinkRaises(e, n) ==
    \E it \in intent[e] :
      /\ pc[e] = "copying" /\ DataGate
      /\ stage[e] = "marked" /\ canon[Key(e)] = Nobody
      /\ canon' = [canon EXCEPT ![Key(e)] = Linked(e, it, n).canon]
      /\ IF e \in Builds /\ n >= 3
           THEN /\ queue' = Linked(e, it, n).queue
                /\ stage' = [stage EXCEPT ![e] = Linked(e, it, n).stage]
           ELSE CleanUpPublication(e, Linked(e, it, n).queue, Linked(e, it, n).item,
                                   Linked(e, it, n).stage)
      /\ intent' = [intent EXCEPT ![e] = {}]
      /\ BreaksOff(e, "settled")
      /\ UNCHANGED <<dbVars, quar, moved, wsVars, owned, sweep, old, restored>>

\* publish_or_reuse_bytes of an object that is there already: the link finds the
\* key taken, the stage and the intent go the way of an error, and the object
\* that is there is the one it returns.
PublishReuse(e) ==
    \E it \in intent[e] :
      /\ pc[e] = "copying" /\ DataGate
      /\ stage[e] = "marked" /\ canon[Key(e)] # Nobody
      /\ CleanUpPublication(e, Linked(e, it, 2).queue, Linked(e, it, 2).item, "marked")
      /\ intent' = [intent EXCEPT ![e] = {}]
      /\ Ends(e, "published")
      /\ UNCHANGED <<dbVars, canon, quar, moved, wsVars, owned, sweep, old, restored>>

\* It dies on the way, before or after the intent is moved.
PublishReuseDies(e) ==
    \E it \in intent[e] :
      /\ pc[e] = "copying" /\ DataGate
      /\ stage[e] = "marked" /\ canon[Key(e)] # Nobody
      /\ queue' = Linked(e, it, 1).queue
      /\ intent' = [intent EXCEPT ![e] = {}]
      /\ Dies(e)
      /\ UNCHANGED <<dbVars, dataVars, wsVars, owned, sweep, old, restored>>

-----------------------------------------------------------------------------
(* RootedLocalStorage.delete_if_owned, the compensation of a publication    *)
(* that was cancelled or not recorded.  Executions of one file publish the  *)
(* same text, so the digest does not tell theirs apart.                     *)

\* 1 the quarantine record, 2 the directory, 3 its metadata, 4 the object
\* moved into it (_quarantine_named), 5 the object removed, 6 the directory
\* removed, 7 the record completed.
Quarantined(e, n) ==
    [quar  |-> CASE n \in {1, 6, 7} -> "none"
                 [] n = 2 -> "bare"
                 [] n \in {3, 5} -> "noted"
                 [] n = 4 -> "full",
     moved |-> IF n = 4 THEN canon[Key(e)] ELSE Nobody,
     canon |-> IF n >= 4 THEN Nobody ELSE canon[Key(e)]]

\* An exception on the way leaves what a crash leaves, and is ignored.
Compensate(e, n) ==
    LET first == Copy(queue, Quarantine(e), 0, "ready", FALSE)
        after == Quarantined(e, n)
    IN  /\ pc[e] = "published" /\ DataGate /\ canon[Key(e)] # Nobody
        /\ queue' = IF n = 7 THEN queue ELSE queue \cup {first}
        /\ quar' = [quar EXCEPT ![e] = after.quar]
        /\ moved' = [moved EXCEPT ![e] = after.moved]
        /\ canon' = [canon EXCEPT ![Key(e)] = after.canon]
        /\ Fresh("quarantine", e)
        /\ \/ Reaches(e, n, 7, "settled")
           \/ n < 7 /\ BreaksOff(e, "settled")
        /\ UNCHANGED <<dbVars, stage, wsVars, intent, owned, sweep, restored>>

\* Unless the object was not moved yet: then the directory is removed and the
\* record completed, each as far as it can be, and the directory may be left.
CompensateLeavesDirectory(e) ==
    /\ pc[e] = "published" /\ DataGate /\ canon[Key(e)] # Nobody
    /\ quar' = [quar EXCEPT ![e] = "stray"]
    /\ BreaksOff(e, "settled")
    /\ UNCHANGED <<dbVars, stage, canon, moved, wsVars, queue, intent, owned, sweep,
                   old, restored>>

\* The object is gone, or the gate is not free in time and the error ignored.
CompensateSkips(e) ==
    /\ pc[e] = "published"
    /\ pc' = [pc EXCEPT ![e] = "settled"]
    /\ UNCHANGED <<dbVars, dataVars, wsVars, queue, intent, owned, sweep, old,
                   restored, countVars>>

\* The worker dies between two calls.
Die(e) ==
    /\ pc[e] \in {"claimed", "working", "copying", "published", "settled"}
    /\ Dies(e)
    /\ UNCHANGED <<dbVars, dataVars, wsVars, queue, intent, owned, sweep, old, restored>>

\* A process starts: _ensure_segmented_queue of both roots.
Restart ==
    /\ restart /\ DataGate /\ WorkspaceGate
    /\ restart' = FALSE
    /\ queue' = Reconciled(Reconciled(queue, "data"), "workspaces")
    /\ UNCHANGED <<dbVars, dataVars, wsVars, workerVars, sweep, old, restored, sweeps, faults>>

-----------------------------------------------------------------------------
(* MaintenanceService._run_at: the cutoff and the snapshot first, then the  *)
(* workspaces, then the data root.  The two queries of maintenance_snapshot *)
(* are two reads: under MySQL's default isolation they see one state, but   *)
(* nothing here relies on it, and the database may move between them.       *)

sweepUnchanged == <<dbVars, wsVars, dataVars, queue, workerVars, old, restored>>

\* The records of one root that a sweep looks at, each once: a second look at
\* one it has just deferred finds what the first did.
Due(kinds) == {r \in queue : r.id[1] \in kinds /\ r.lane # "held"}

\* A lease that is late on some clock may be live or not on this worker's.
SweepBegin ==
    /\ sweep.phase = "idle" /\ sweeps > 0
    /\ \E missed \in SUBSET {e \in Execs : lease[e] = "late"} :
         sweep' = [NoSweep EXCEPT
                     !.phase = "reading", !.old = old, !.missed = missed,
                     !.active = {e \in Execs : lease[e] \in {"live", "late"}} \ missed]
    /\ sweeps' = sweeps - 1
    /\ UNCHANGED <<sweepUnchanged, restart, faults>>

SweepReadRows ==
    /\ sweep.phase = "reading"
    /\ sweep' = [sweep EXCEPT !.phase = "workspaces", !.rows = rows,
                              !.todo = Due({"workspace"})]
    /\ UNCHANGED <<sweepUnchanged, countVars>>

\* The workspace sweep ends, with or without its budget used up.
SweepTurn ==
    /\ sweep.phase = "workspaces"
    /\ sweep' = [sweep EXCEPT !.phase = "data",
                              !.todo = Due({"publication", "quarantine"})]
    /\ UNCHANGED <<sweepUnchanged, countVars>>

SweepEnd ==
    /\ sweep.phase = "data"
    /\ sweep' = NoSweep
    /\ UNCHANGED <<sweepUnchanged, countVars>>

\* A record is completed, or moved to the deferred or the held lane.
Settle(r, outcome) ==
    /\ queue' = IF outcome = "done" THEN CompleteItem(queue, r)
                                    ELSE MoveItem(queue, r, outcome, r.bound)
    /\ sweep' = [sweep EXCEPT !.todo = @ \ {r}]
    /\ UNCHANGED countVars

\* The sweeping process dies before it has settled the record.
SweepDies(r, outcome) ==
    /\ restart' = TRUE
    /\ sweep' = NoSweep
    /\ queue' \in {queue} \cup (IF outcome = "done" THEN {}
                                 ELSE {MoveEnqueue(queue, r, outcome, r.bound)})
    /\ UNCHANGED <<sweeps, faults>>

-----------------------------------------------------------------------------
(* WorkspaceManager.sweep_abandoned.                                        *)

\* Mutant: the age alone decides, live executions are not spared.
WorkspaceOutcomeByAge(r) ==
    LET e == r.id[2]
    IN  CASE ws[e] = "none" -> "done"
          [] ws[e] # "none" /\ ~r.bound -> "held"
          [] ws[e] # "none" /\ r.bound
               /\ <<"workspace", e>> \notin sweep.old -> "deferred"
          [] OTHER -> "clear"

WorkspaceOutcome(r) ==
    LET e == r.id[2]
    IN  CASE e \in sweep.active -> "deferred"
          [] e \notin sweep.active /\ ws[e] = "none" -> "done"
          [] e \notin sweep.active /\ ws[e] # "none" /\ ~r.bound -> "held"
          [] e \notin sweep.active /\ ws[e] # "none" /\ r.bound
               /\ <<"workspace", e>> \notin sweep.old -> "deferred"
          [] OTHER -> "clear"

SweepWorkspace(r) ==
    LET e == r.id[2]  outcome == WorkspaceOutcome(r)
    IN  /\ sweep.phase = "workspaces" /\ r \in sweep.todo \cap queue
        /\ IF outcome # "clear"
             THEN /\ Settle(r, outcome) \/ SweepDies(r, outcome)
                  /\ UNCHANGED <<wsVars, old>>
             ELSE \E p \in Cleared(tree[e], stack[e]), finished \in BOOLEAN :
                    /\ CleanUp(e, p, finished)
                    /\ \/ p[2] <= p[1] /\ Settle(r, IF finished THEN "done" ELSE "deferred")
                       \/ SweepDies(r, "done")
        /\ UNCHANGED <<dbVars, dataVars, workerVars, restored>>

\* The persisted stack names a directory that is not there: the sweep raises,
\* before it has come to the data root.
SweepRaises(r) ==
    /\ sweep.phase = "workspaces" /\ r \in sweep.todo \cap queue
    /\ WorkspaceOutcome(r) = "clear" /\ stack[r.id[2]] > tree[r.id[2]]
    /\ sweep' = NoSweep
    /\ UNCHANGED <<sweepUnchanged, countVars>>

-----------------------------------------------------------------------------
(* RootedLocalStorage.sweep_abandoned: _recover_queued_publication and      *)
(* _recover_queued_quarantine.                                              *)

\* Mutant: a live execution does not protect what it has not recorded yet.
ProtectedByRows(e) == e \in sweep.rows

Protected(e) == e \in sweep.rows \/ e \in sweep.active

\* What happens to a publication record, and which files are removed first.
RecoverPublication(r) ==
    LET e == r.id[2]
        there == canon[Key(e)]
        young == <<"file", e>> \notin sweep.old
        Keep(outcome) == [outcome |-> outcome, canon |-> FALSE, stage |-> FALSE]
        Drop(outcome) == [outcome |-> outcome, canon |-> FALSE, stage |-> TRUE]
    IN  IF there = Nobody /\ stage[e] = "none" THEN Keep("done")
        ELSE IF ~r.bound /\ (there # Nobody \/ stage[e] = "bare") THEN Keep("held")
        ELSE IF there = Nobody
          THEN IF young \/ e \in sweep.active THEN Keep("deferred") ELSE Drop("done")
        ELSE IF e \in Parses THEN Drop("done")
        ELSE IF there # e THEN Drop("held")
        ELSE IF Protected(e) \/ young THEN Keep("deferred")
        ELSE [outcome |-> "done", canon |-> TRUE, stage |-> TRUE]

SweepPublication(r) ==
    LET e == r.id[2]  recovery == RecoverPublication(r)
    IN  /\ sweep.phase = "data" /\ r \in sweep.todo \cap queue
        /\ r.id[1] = "publication"
        /\ canon' = IF recovery.canon THEN [canon EXCEPT ![Key(e)] = Nobody] ELSE canon
        /\ \/ /\ stage' = IF recovery.stage THEN [stage EXCEPT ![e] = "none"] ELSE stage
              /\ Settle(r, recovery.outcome) \/ SweepDies(r, recovery.outcome)
           \/ \* The object is removed and the stage is not yet.
              /\ recovery.canon /\ stage[e] # "none"
              /\ UNCHANGED stage
              /\ SweepDies(r, "done")
        /\ UNCHANGED <<dbVars, quar, moved, wsVars, workerVars, old, restored>>

\* The metadata of a quarantine cannot be read, or says that it was given up.
GivenUp(e) == quar[e] \in {"bare", "conflict"}

QuarantineOutcome(e) ==
    CASE quar[e] = "none" -> "done"
      [] GivenUp(e) -> "held"
      [] OTHER -> IF \/ <<"quarantine", e>> \notin sweep.old
                     \/ e \in Builds /\ Protected(e)
                    THEN "deferred" ELSE "restore"

\* An old quarantine of nobody alive is undone: the object goes back unless
\* its key is taken, which the metadata then says, and the directory is
\* removed.
Restore(r) ==
    LET e == r.id[2]
        back == quar[e] = "full" /\ canon[Key(e)] = Nobody
    IN  IF quar[e] = "full" /\ ~back
          THEN /\ quar' = [quar EXCEPT ![e] = "conflict"]
               /\ Settle(r, "held") \/ SweepDies(r, "held")
               /\ UNCHANGED <<moved, canon, restored>>
          ELSE /\ canon' = IF back THEN [canon EXCEPT ![Key(e)] = moved[e]] ELSE canon
               /\ moved' = [moved EXCEPT ![e] = Nobody]
               /\ restored' = IF back THEN restored \cup {Key(e)} ELSE restored
               /\ \/ /\ quar' = [quar EXCEPT ![e] = "none"]
                     /\ Settle(r, "done") \/ SweepDies(r, "done")
                  \/ /\ quar' = [quar EXCEPT ![e] = "noted"]
                     /\ back /\ SweepDies(r, "done")

SweepQuarantine(r) ==
    LET outcome == QuarantineOutcome(r.id[2])
    IN  /\ sweep.phase = "data" /\ r \in sweep.todo \cap queue
        /\ r.id[1] = "quarantine"
        /\ IF outcome = "restore"
             THEN Restore(r)
             ELSE /\ Settle(r, outcome) \/ SweepDies(r, outcome)
                  /\ UNCHANGED <<quar, moved, canon, restored>>
        /\ UNCHANGED <<dbVars, stage, wsVars, workerVars, old>>

-----------------------------------------------------------------------------
Step(e) ==
    \/ Claim(e) \/ LeaseLate(e) \/ LoseLease(e)
    \/ Record(e) \/ RecordUnacknowledged(e)
    \/ \E n \in 1 .. 3 : PublishStage(e, n)
    \/ \E n \in 1 .. 5 : PublishLink(e, n)
    \/ \E n \in 1 .. 7 : Compensate(e, n)
    \/ PublishStageRaises(e) \/ PublishRaises(e)
    \/ \E n \in 1 .. 4 : PublishLinkRaises(e, n)
    \/ PublishReuse(e) \/ PublishReuseDies(e)
    \/ CompensateLeavesDirectory(e) \/ CompensateSkips(e) \/ Die(e)

BuildStep(e) ==
    \/ \E n \in 1 .. 4 : Allocate(e, n)
    \/ \E n \in 0 .. 4 : AllocateRaises(e, n)
    \/ OwnerCleanUp(e) \/ OwnerCleanUpDies(e)
    \/ RetainObject(e) \/ RetainEnd(e)

SweepStep ==
    \/ SweepBegin \/ SweepReadRows \/ SweepTurn \/ SweepEnd \/ Restart
    \/ \E r \in sweep.todo : SweepWorkspace(r) \/ SweepRaises(r)
    \/ \E r \in sweep.todo : SweepPublication(r) \/ SweepQuarantine(r)

Next ==
    \/ \E e \in Execs : Step(e)
    \/ \E e \in Builds : BuildStep(e)
    \/ SweepStep \/ TimePasses

Spec == Init /\ [][Next]_vars

-----------------------------------------------------------------------------
(* Properties.                                                              *)

Copies == [id : {Publication(e) : e \in Execs} \cup {Quarantine(e) : e \in Execs}
                  \cup {Workspace(e) : e \in Builds},
           generation : Nat, lane : Lanes, bound : BOOLEAN, sequence : Nat]

\* The variables have their types; the items workers keep are copies of their
\* own records.
TypeOK ==
    /\ lease \in [Execs -> {"queued", "live", "late", "lost", "closed"}]
    /\ rows \subseteq Builds /\ cleaning \subseteq Builds
    /\ pc \in [Execs -> {"start", "claimed", "working", "copying", "published",
                        "settled", "end", "dead"}]
    /\ stage \in [Execs -> {"none", "bare", "marked"}]
    /\ canon \in [Keys -> Execs \cup {Nobody}]
    /\ quar \in [Execs -> {"none", "bare", "noted", "full", "conflict", "stray"}]
    /\ moved \in [Execs -> Execs \cup {Nobody}]
    /\ ws \in [Builds -> {"none", "dir", "retired"}]
    /\ tree \in [Builds -> 0 .. Depth] /\ stack \in [Builds -> 0 .. Depth]
    /\ queue \subseteq Copies
    /\ \A e \in Execs : \A it \in intent[e] : it \in Copies /\ it.id = Publication(e)
    /\ \A e \in Builds : \A it \in owned[e] : it \in Copies /\ it.id = Workspace(e)
    /\ sweep.phase \in {"idle", "reading", "workspaces", "data"}
    /\ sweep.active \subseteq Execs /\ sweep.missed \subseteq Execs
    /\ sweep.rows \subseteq Builds
    /\ sweep.todo \subseteq Copies
    /\ restored \subseteq Keys

\* The file of an artifact the database lists stays: no sweep, whose snapshot may
\* be older than the row, no compensation of another execution and no
\* quarantine moved back ever takes it away (_recover_queued_publication,
\* delete_if_owned).  Besides retention there are two exceptions: the
\* compensation of the execution that recorded it, when the answer of the
\* commit was lost, and a sweep by a worker on whose clock the lease had run
\* out when the snapshot was taken.
RecordedKept ==
    [][\A e \in rows : canon[e] = e =>
          \/ canon'[e] = e
          \/ RetainObject(e)
          \/ \E n \in 1 .. 7 : Compensate(e, n)
          \/ e \in sweep.missed \ sweep.rows /\ sweep.phase = "data"]_vars

\* While its lease is live on every clock a build keeps its workspace and what it
\* is publishing, whatever a sweep of another worker makes of the records
\* (WorkspaceManager.sweep_abandoned, _recover_queued_publication).
LiveKept ==
    \A e \in Execs : lease[e] = "live" =>
       /\ e \in Builds /\ pc[e] \in {"working", "copying", "published"} => ws[e] = "dir"
       /\ pc[e] = "copying" => stage[e] = "marked"
       /\ e \in Builds /\ pc[e] = "published" => canon[e] = e

Tracked(id) == CopiesIn(queue, id) # {}

\* A file or directory nobody will ask for again has a record that leads a
\* later sweep to it: stages, quarantines, workspaces and artifacts that are
\* not recorded, after a crash at any step of _publish, delete_if_owned,
\* allocate or a sweep.  A file moved back out of quarantine is one exception,
\* an empty quarantine directory that could not be removed the other.
NothingUntracked ==
    /\ \A e \in Execs : stage[e] # "none" => Tracked(Publication(e))
    /\ \A e \in Execs : quar[e] \notin {"none", "stray"} => Tracked(Quarantine(e))
    /\ \A e \in Builds : ws[e] # "none" => Tracked(Workspace(e))
    /\ \A e \in Builds \ (rows \cup restored) : canon[e] = e => Tracked(Publication(e))

\* A cleanup that was interrupted can be resumed: the persisted stack names
\* directories that are still there (_open_workspace_stack).  The code does not
\* keep this: a process that dies between the rmdir of a directory and the
\* write of the popped stack leaves a workspace on which every later sweep
\* raises.
ClearResumes == \A e \in Builds : ws[e] = "retired" => stack[e] <= tree[e]
=============================================================================
