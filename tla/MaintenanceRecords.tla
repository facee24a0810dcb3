-------------------------- MODULE MaintenanceRecords --------------------------
(***************************************************************************)
(* The maintenance queue as its users in jobs/storage.py see it: a set of   *)
(* record copies, changed by the calls of SegmentedQueue one at a time.     *)
(* Slots, cursors and counters are left out.  A copy is bound once it       *)
(* carries the identity of the file or directory it stands for (sourceDev,  *)
(* sourceIno); its sequence is kept relative to the other copies of its id. *)
(***************************************************************************)
EXTENDS Integers, FiniteSets, FiniteSetsExt

Lanes == {"ready", "deferred", "held"}

lane_priority == [ready |-> 0, deferred |-> 1, held |-> 2]

CopiesIn(queue, id) == {r \in queue : r.id = id}

Copy(queue, id, generation, lane, bound) ==
    [id |-> id, generation |-> generation, lane |-> lane, bound |-> bound,
     sequence |-> 1 + Max({0} \cup {r.sequence : r \in CopiesIn(queue, id)})]

Outranks(r, s) ==
    \/ r.generation > s.generation
    \/ r.generation = s.generation /\ r.sequence > s.sequence
    \/ /\ r.generation = s.generation /\ r.sequence = s.sequence
       /\ lane_priority[r.lane] > lane_priority[s.lane]

\* An id is a kind and an execution; the workspaces have a root, and so a
\* queue, of their own.
Root(id) == IF id[1] = "workspace" THEN "workspaces" ELSE "data"

\* reconcile: of the copies of an id the one of highest rank is kept.
Reconciled(queue, root) ==
    {r \in queue : Root(r.id) = root =>
                     \A s \in CopiesIn(queue, r.id) \ {r} : ~Outranks(s, r)}

\* _queue_enqueue of a record, generation 0.
Enqueue(queue, id) == queue \cup {Copy(queue, id, 0, "ready", FALSE)}

\* The enqueue of _queue_move: the next generation in the lane given, unless
\* it is there already.
MoveEnqueue(queue, item, lane, bound) ==
    IF \E r \in CopiesIn(queue, item.id) :
          r.lane = lane /\ r.generation = item.generation + 1
      THEN queue
      ELSE queue \cup {Copy(queue, item.id, item.generation + 1, lane, bound)}

\* _queue_complete, also the second half of _queue_move: the slot of the item
\* is unlinked, or found empty, which reconciles the queue.
CompleteItem(queue, item) ==
    IF item \in queue THEN queue \ {item} ELSE Reconciled(queue, Root(item.id))

MoveItem(queue, item, lane, bound) ==
    CompleteItem(MoveEnqueue(queue, item, lane, bound), item)
=============================================================================
