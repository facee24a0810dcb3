---------------------------- MODULE SegmentedQueue ----------------------------
(***************************************************************************)
(* The maintenance queue of jobs/segmented_queue.py: three lanes of slot    *)
(* files under one directory and, in an extended attribute of it, a state   *)
(* with the counters and cursors.  Every call runs under the exclusive gate *)
(* of the root (an flock), but the slot files and the state are written one *)
(* after the other, so a process that dies or raises in the middle of a     *)
(* call leaves them disagreeing for the processes that go on.               *)
(*                                                                         *)
(* A client is a worker process.  As a writer (RootedLocalStorage._publish, *)
(* WorkspaceManager.allocate) it keeps the item that enqueue or move        *)
(* returned after it has released the gate; as a sweeper it keeps the item  *)
(* it peeked only while it holds the gate.  Segments and slots are numbered *)
(* by one cursor (segment * segment_size + slot), a record is its id,       *)
(* generation and sequence, and max_record_bytes is left to MaxRecords.     *)
(***************************************************************************)
EXTENDS Integers, FiniteSets, FiniteSetsExt

CONSTANTS
    Clients,        \* worker processes
    Ids,            \* record ids
    Capacity,       \* QueueLimits.capacity, slots of one lane
    MaxRecords,     \* QueueLimits.max_records, records of all lanes
    MaxGeneration,  \* bound: generations a record is moved through
    MaxSequence,    \* bound: sequence numbers given out
    MaxFaults,      \* bound: crashes and exceptions inside a call
    NoClient, NoItem, Empty

ASSUME QueueAssumption ==
    /\ Capacity \in Nat \ {0}
    /\ MaxRecords \in Nat \ {0}
    /\ {MaxGeneration, MaxSequence, MaxFaults} \subseteq Nat
    /\ NoClient \notin Clients

VARIABLES
    slot,    \* the slot files: lane -> cursor -> record or Empty
    temp,    \* the .tmp files, as <<lane, cursor>>
    state,   \* the state attribute
    holder,  \* the client that holds the gate, or NoClient
    op,      \* the call in progress under the gate
    role,    \* what each client is doing
    item,    \* the queue item each client keeps, or NoItem
    used,    \* ids given out by uuid4 so far
    clean,   \* TRUE until a fault, and again after a reconcile
    faults

vars == <<slot, temp, state, holder, op, role, item, used, clean, faults>>

Lanes == {"ready", "deferred", "held"}

lane_priority == [ready |-> 0, deferred |-> 1, held |-> 2]

Cursors == 0 .. Capacity - 1

Record == [id : Ids, generation : Nat, sequence : Nat]

\* QueueItem: where a record was when the item was returned.
Item == [lane : Lanes, cursor : Cursors, id : Ids, generation : Nat]

ASSUME ValuesAssumption == Empty \notin Record /\ NoItem \notin Item

ItemAt(lane, cursor) ==
    [lane |-> lane, cursor |-> cursor, id |-> slot[lane][cursor].id,
     generation |-> slot[lane][cursor].generation]

Phases ==
    {"idle", "create", "link", "unlinkTemp", "enqueued",
     "complete", "completed", "reconcile", "raised"}

\* lane, cursor, tried and record belong to an enqueue, done to a complete;
\* result is the item the caller keeps when the whole call has returned.
Op == [phase : Phases, lane : Lanes, cursor : Cursors, tried : 0 .. Capacity,
       record : Record \cup {Empty}, done : Item \cup {NoItem},
       result : Item \cup {NoItem}, peek : BOOLEAN]

NoOp == [phase |-> "idle", lane |-> "ready", cursor |-> 0, tried |-> 0,
         record |-> Empty, done |-> NoItem, result |-> NoItem, peek |-> FALSE]

\* An exception leaves the call; the caller releases the gate next.
Raised == [NoOp EXCEPT !.phase = "raised"]

initial_state ==
    [nextSequence   |-> 0,
     capacityEvents |-> FALSE,
     count          |-> [lane \in Lanes |-> 0],
     headCursor     |-> [lane \in Lanes |-> 0],
     writeCursor    |-> [lane \in Lanes |-> 0]]

Occupied(lane) == {cursor \in Cursors : slot[lane][cursor] # Empty}

Places == {p \in Lanes \X Cursors : slot[p[1]][p[2]] # Empty}

Copies(id) == {p \in Places : slot[p[1]][p[2]].id = id}

Init ==
    /\ slot = [lane \in Lanes |-> [cursor \in Cursors |-> Empty]]
    /\ temp = {}
    /\ state = initial_state
    /\ holder = NoClient
    /\ op = NoOp
    /\ role = [c \in Clients |-> "idle"]
    /\ item = [c \in Clients |-> NoItem]
    /\ used = {}
    /\ clean = TRUE
    /\ faults = 0

-----------------------------------------------------------------------------
(* The gate: _exclusive_descriptor_gate.                                    *)

Enter(c) == op.phase = "idle" /\ holder \in {c, NoClient} /\ holder' = c

\* A sweep that ends forgets the item it peeked, a writer keeps its own.
Release(c) ==
    /\ holder = c /\ op.phase \in {"idle", "raised"}
    /\ holder' = NoClient
    /\ op' = NoOp
    /\ item' = [item EXCEPT ![c] = IF role[c] = "sweeper" THEN NoItem ELSE @]
    /\ role' = [role EXCEPT ![c] =
                   IF @ = "sweeper" \/ (@ = "writer" /\ item[c] = NoItem)
                     THEN "idle" ELSE @]
    /\ UNCHANGED <<slot, temp, state, used, clean, faults>>

\* A writer that is done leaves the record to the maintenance.
Forget(c) ==
    /\ role[c] = "writer" /\ holder # c
    /\ role' = [role EXCEPT ![c] = "idle"]
    /\ item' = [item EXCEPT ![c] = NoItem]
    /\ UNCHANGED <<slot, temp, state, holder, op, used, clean, faults>>

\* What the caller keeps when a call returns normally.
Return(c, result) ==
    /\ op' = NoOp
    /\ item' = [item EXCEPT ![c] = IF role[c] = "writer" THEN result ELSE NoItem]

-----------------------------------------------------------------------------
(* enqueue, and _queue_move, which is an enqueue of the next generation     *)
(* followed by a complete of the item it supersedes.                        *)

total_count == state.count["ready"] + state.count["deferred"] + state.count["held"]

\* The state with one more capacity event; its count is only ever compared
\* with zero.
CapacityEvent == [state EXCEPT !.capacityEvents = TRUE]

\* After the record of an enqueue is found or written at place p: a move goes
\* on with the complete of the old item, a plain enqueue returns.
Enqueued(c, at, old) ==
    IF old = NoItem
      THEN Return(c, at)
      ELSE /\ op' = [NoOp EXCEPT !.phase = "complete", !.done = old, !.result = at]
           /\ UNCHANGED item

\* enqueue up to the first file operation: deduplication, then the limits.
EnqueueStart(c, lane, id, generation, old, existing) ==
    \/ /\ existing # {}
       /\ \E p \in existing : Enqueued(c, ItemAt(p[1], p[2]), old)
       /\ UNCHANGED state
    \/ /\ existing = {} /\ total_count >= MaxRecords
       /\ state' = CapacityEvent
       /\ op' = Raised
       /\ UNCHANGED item
    \/ /\ existing = {} /\ total_count < MaxRecords
       /\ op' = [NoOp EXCEPT
                    !.phase = "create", !.lane = lane,
                    !.cursor = state.writeCursor[lane],
                    !.record = [id |-> id, generation |-> generation,
                                sequence |-> state.nextSequence],
                    !.done = old]
       /\ UNCHANGED <<state, item>>

\* A new intent: the record has no recordId, so a fresh one is made for it
\* and nothing is looked up.
EnqueueIntent(c, id) ==
    /\ role[c] = "idle" /\ id \notin used /\ state.nextSequence < MaxSequence
    /\ Enter(c)
    /\ role' = [role EXCEPT ![c] = "writer"]
    /\ used' = used \cup {id}
    /\ EnqueueStart(c, "ready", id, 0, NoItem, {})
    /\ UNCHANGED <<slot, temp, clean, faults>>

\* A record with a recordId of its own, queued again by a caller that does
\* not keep the item (legacy quarantines): deduplicated over all lanes.
EnqueueKnown(c, id) ==
    /\ role[c] = "idle" /\ id \in used /\ state.nextSequence < MaxSequence
    /\ Enter(c)
    /\ EnqueueStart(c, "ready", id, 0, NoItem, Copies(id))
    /\ UNCHANGED <<slot, temp, role, used, clean, faults>>

\* Mutant: a move looks for its record by id alone.
MoveDeduplicatesById(c, lane) ==
    /\ item[c] # NoItem
    /\ role[c] = "writer" => lane = "ready"
    /\ role[c] = "sweeper" => holder = c /\ lane # "ready"
    /\ item[c].generation < MaxGeneration /\ state.nextSequence < MaxSequence
    /\ Enter(c)
    /\ EnqueueStart(c, lane, item[c].id, item[c].generation + 1, item[c],
                    {p \in Copies(item[c].id) : p[1] = lane})
    /\ UNCHANGED <<slot, temp, role, used, clean, faults>>

\* _queue_move of the item the client keeps: deduplicated by generation in
\* the destination lane.
Move(c, lane) ==
    /\ item[c] # NoItem
    /\ role[c] = "writer" => lane = "ready"
    /\ role[c] = "sweeper" => holder = c /\ lane # "ready"
    /\ item[c].generation < MaxGeneration /\ state.nextSequence < MaxSequence
    /\ Enter(c)
    /\ EnqueueStart(c, lane, item[c].id, item[c].generation + 1, item[c],
           {p \in Copies(item[c].id) :
              p[1] = lane /\ slot[lane][p[2]].generation = item[c].generation + 1})
    /\ UNCHANGED <<slot, temp, role, used, clean, faults>>

\* Mutant: the cursor runs past the last slot.
NextCursorUnwrapped ==
    IF op.tried + 1 = Capacity
      THEN op' = Raised /\ state' = CapacityEvent
      ELSE /\ op' = [op EXCEPT !.phase = "create", !.tried = @ + 1, !.cursor = @ + 1]
           /\ UNCHANGED state

\* On to the next cursor, or out of slots.
NextCursor ==
    IF op.tried + 1 = Capacity
      THEN op' = Raised /\ state' = CapacityEvent
      ELSE /\ op' = [op EXCEPT !.phase = "create", !.tried = @ + 1,
                               !.cursor = (@ + 1) % Capacity]
           /\ UNCHANGED state

\* The O_EXCL open of slot.tmp; one that exists is passed over.
EnqueueCreate ==
    /\ op.phase = "create"
    /\ IF <<op.lane, op.cursor>> \in temp
         THEN NextCursor /\ UNCHANGED temp
         ELSE /\ temp' = temp \cup {<<op.lane, op.cursor>>}
              /\ op' = [op EXCEPT !.phase = "link"]
              /\ UNCHANGED state
    /\ UNCHANGED <<slot, holder, role, item, used, clean, faults>>

\* link(slot.tmp, slot); an occupied slot is passed over and the temp removed.
EnqueueLink ==
    /\ op.phase = "link"
    /\ IF slot[op.lane][op.cursor] = Empty
         THEN /\ slot' = [slot EXCEPT ![op.lane][op.cursor] = op.record]
              /\ op' = [op EXCEPT !.phase = "unlinkTemp"]
              /\ UNCHANGED <<temp, state>>
         ELSE /\ temp' = temp \ {<<op.lane, op.cursor>>}
              /\ NextCursor
              /\ UNCHANGED slot
    /\ UNCHANGED <<holder, role, item, used, clean, faults>>

EnqueueUnlinkTemp ==
    /\ op.phase = "unlinkTemp"
    /\ temp' = temp \ {<<op.lane, op.cursor>>}
    /\ op' = [op EXCEPT !.phase = "enqueued"]
    /\ UNCHANGED <<slot, state, holder, role, item, used, clean, faults>>

EnqueueWrite(c) ==
    /\ holder = c /\ op.phase = "enqueued"
    /\ state' = [state EXCEPT
                    !.count[op.lane] = @ + 1,
                    !.headCursor[op.lane] =
                        IF state.count[op.lane] = 0 THEN op.cursor ELSE @,
                    !.writeCursor[op.lane] = (op.cursor + 1) % Capacity,
                    !.nextSequence = @ + 1]
    /\ Enqueued(c, ItemAt(op.lane, op.cursor), op.done)
    /\ UNCHANGED <<slot, temp, holder, role, used, clean, faults>>

-----------------------------------------------------------------------------
(* complete.                                                                *)

Complete(c) ==
    /\ item[c] # NoItem
    /\ role[c] = "sweeper" => holder = c
    /\ Enter(c)
    /\ op' = [NoOp EXCEPT !.phase = "complete", !.done = item[c]]
    /\ UNCHANGED <<slot, temp, state, role, item, used, clean, faults>>

\* The slot is gone: another process completed or moved the record meanwhile.
CompleteMissing ==
    /\ op.phase = "complete" /\ slot[op.done.lane][op.done.cursor] = Empty
    /\ op' = [op EXCEPT !.phase = "reconcile"]
    /\ UNCHANGED <<slot, temp, state, holder, role, item, used, clean, faults>>

Owns(it) ==
    /\ slot[it.lane][it.cursor] # Empty
    /\ ItemAt(it.lane, it.cursor) = it

CompleteUnlink ==
    /\ op.phase = "complete" /\ Owns(op.done)
    /\ slot' = [slot EXCEPT ![op.done.lane][op.done.cursor] = Empty]
    /\ op' = [op EXCEPT !.phase = "completed"]
    /\ UNCHANGED <<temp, state, holder, role, item, used, clean, faults>>

\* "maintenance queue ownership changed": the caller keeps the old item.
CompleteRefuse ==
    /\ op.phase = "complete"
    /\ slot[op.done.lane][op.done.cursor] # Empty /\ ~Owns(op.done)
    /\ op' = Raised
    /\ UNCHANGED <<slot, temp, state, holder, role, item, used, clean, faults>>

CompleteWrite(c) ==
    /\ holder = c /\ op.phase = "completed"
    /\ state' = [state EXCEPT
                    !.count[op.done.lane] = IF @ = 0 THEN 0 ELSE @ - 1,
                    !.headCursor[op.done.lane] = (op.done.cursor + 1) % Capacity]
    /\ Return(c, op.result)
    /\ UNCHANGED <<slot, temp, holder, role, used, clean, faults>>

-----------------------------------------------------------------------------
(* peek and peek_due.                                                       *)

\* _find_item: the first record from the head cursor, cyclically.
FirstFrom(lane, head) ==
    LET Distance(cursor) == (cursor - head) % Capacity
    IN  CHOOSE cursor \in Occupied(lane) :
            \A other \in Occupied(lane) : Distance(cursor) <= Distance(other)

\* The records peek may return: the first one of the ready lane, any one of
\* the deferred lane (peek_due passes over the ones not yet due, at most as
\* many as are counted).
Visible(lane, st) ==
    IF st.count[lane] = 0 THEN {}
    ELSE IF lane = "ready" /\ Occupied(lane) # {}
      THEN {FirstFrom(lane, st.headCursor[lane])}
      ELSE {cursor \in Occupied(lane) :
              Cardinality({other \in Occupied(lane) :
                  (other - st.headCursor[lane]) % Capacity
                    < (cursor - st.headCursor[lane]) % Capacity}) < st.count[lane]}

Peek(c, lane) ==
    /\ role[c] \in {"idle", "sweeper"} /\ item[c] = NoItem
    /\ lane # "held"
    /\ state.count[lane] # 0
    /\ Enter(c)
    /\ role' = [role EXCEPT ![c] = "sweeper"]
    /\ \/ /\ \E cursor \in Visible(lane, state) :
               item' = [item EXCEPT ![c] = ItemAt(lane, cursor)]
          /\ UNCHANGED op
       \/ /\ Cardinality(Occupied(lane)) <
                  IF lane = "ready" THEN 1 ELSE state.count[lane]
          /\ op' = [NoOp EXCEPT !.phase = "reconcile", !.lane = lane,
                                !.peek = lane = "ready"]
          /\ UNCHANGED item
    /\ UNCHANGED <<slot, temp, state, used, clean, faults>>

-----------------------------------------------------------------------------
(* reconcile, and ensure, which runs it when a process starts.              *)

Rank(p) == [generation |-> slot[p[1]][p[2]].generation,
            sequence   |-> slot[p[1]][p[2]].sequence,
            priority   |-> lane_priority[p[1]]]

\* Mutant: copies are compared by sequence only.
OutranksBySequence(p, q) ==
    LET a == Rank(p)  b == Rank(q)
    IN  \/ a.sequence > b.sequence
        \/ a.sequence = b.sequence /\ a.priority > b.priority
        \/ a.sequence = b.sequence /\ a.priority = b.priority /\ p[2] < q[2]

Outranks(p, q) ==
    LET a == Rank(p)  b == Rank(q)
    IN  \/ a.generation > b.generation
        \/ a.generation = b.generation /\ a.sequence > b.sequence
        \/ /\ a.generation = b.generation /\ a.sequence = b.sequence
           /\ \/ a.priority > b.priority
              \/ a.priority = b.priority /\ p[2] < q[2]

\* The copies of an id that a copy of higher rank supersedes.
Losers == {p \in Places : \E q \in Copies(slot[p[1]][p[2]].id) : Outranks(q, p)}

ReconcileTemp ==
    /\ op.phase = "reconcile"
    /\ \E t \in temp : temp' = temp \ {t}
    /\ UNCHANGED <<slot, state, holder, op, role, item, used, clean, faults>>

\* More slot files than max_records: the reconcile raises, and with it the
\* start of the process.
ReconcileRefuse ==
    /\ op.phase = "reconcile" /\ Cardinality(Places) > MaxRecords
    /\ op' = Raised
    /\ UNCHANGED <<slot, temp, state, holder, role, item, used, clean, faults>>

ReconcileDrop ==
    /\ op.phase = "reconcile" /\ temp = {} /\ Cardinality(Places) <= MaxRecords
    /\ \E p \in Losers : slot' = [slot EXCEPT ![p[1]][p[2]] = Empty]
    /\ UNCHANGED <<temp, state, holder, op, role, item, used, clean, faults>>

Sequences(lane) == {slot[lane][cursor].sequence : cursor \in Occupied(lane)}

\* The first and the last record of a lane by sequence; two records may carry
\* the same sequence after a fault.
First(lane) ==
    Min({cursor \in Occupied(lane) :
           slot[lane][cursor].sequence = Min(Sequences(lane))})

Last(lane) ==
    Max({cursor \in Occupied(lane) :
           slot[lane][cursor].sequence = Max(Sequences(lane))})

\* Mutant: the next sequence is the last one again.
RebuiltLastSequence ==
    [nextSequence   |-> Max({0} \cup UNION {Sequences(lane) : lane \in Lanes}),
     capacityEvents |-> state.capacityEvents,
     count          |-> [lane \in Lanes |-> Cardinality(Occupied(lane))],
     headCursor     |-> [lane \in Lanes |-> 0],
     writeCursor    |-> [lane \in Lanes |-> 0]]

\* The state rebuilt from the slot files.
Rebuilt ==
    [nextSequence   |-> Max({-1} \cup UNION {Sequences(lane) : lane \in Lanes}) + 1,
     capacityEvents |-> state.capacityEvents,
     count          |-> [lane \in Lanes |-> Cardinality(Occupied(lane))],
     headCursor     |-> [lane \in Lanes |->
                           IF Occupied(lane) = {} THEN 0 ELSE First(lane)],
     writeCursor    |-> [lane \in Lanes |->
                           IF Occupied(lane) = {} THEN 0
                                                  ELSE (Last(lane) + 1) % Capacity]]

ReconcileWrite(c) ==
    /\ holder = c /\ op.phase = "reconcile"
    /\ temp = {} /\ Losers = {} /\ Cardinality(Places) <= MaxRecords
    /\ state' = Rebuilt
    /\ IF op.peek /\ Occupied(op.lane) # {}
         THEN \E cursor \in Visible(op.lane, Rebuilt) :
                /\ item' = [item EXCEPT ![c] = ItemAt(op.lane, cursor)]
                /\ op' = NoOp
         ELSE Return(c, op.result)
    /\ role' = [role EXCEPT ![c] = IF @ = "down" THEN "idle" ELSE @]
    /\ clean' = TRUE
    /\ UNCHANGED <<slot, temp, holder, used, faults>>

Ensure(c) ==
    /\ role[c] = "down"
    /\ Enter(c)
    /\ op' = [NoOp EXCEPT !.phase = "reconcile"]
    /\ UNCHANGED <<slot, temp, state, role, item, used, clean, faults>>

-----------------------------------------------------------------------------
(* Faults: a process dies at any time, or a file operation raises inside a  *)
(* call and the process goes on.                                            *)

Crash(c) ==
    /\ role[c] # "down" /\ faults < MaxFaults
    /\ role' = [role EXCEPT ![c] = "down"]
    /\ item' = [item EXCEPT ![c] = NoItem]
    /\ IF holder = c
         THEN holder' = NoClient /\ op' = NoOp /\ clean' = (clean /\ op.phase \in {"idle", "raised"})
         ELSE UNCHANGED <<holder, op, clean>>
    /\ faults' = faults + 1
    /\ UNCHANGED <<slot, temp, state, used>>

Raise(c) ==
    /\ holder = c /\ op.phase \notin {"idle", "raised"} /\ faults < MaxFaults
    /\ op' = Raised
    /\ clean' = FALSE
    /\ faults' = faults + 1
    /\ UNCHANGED <<slot, temp, state, holder, role, item, used>>

-----------------------------------------------------------------------------
FileStep == EnqueueCreate \/ EnqueueLink \/ EnqueueUnlinkTemp
               \/ CompleteMissing \/ CompleteUnlink \/ CompleteRefuse
               \/ ReconcileTemp \/ ReconcileRefuse \/ ReconcileDrop

ClientStep(c) ==
    \/ \E id \in Ids : EnqueueIntent(c, id) \/ EnqueueKnown(c, id)
    \/ \E lane \in Lanes : Move(c, lane) \/ Peek(c, lane)
    \/ Complete(c) \/ Release(c) \/ Forget(c) \/ Ensure(c)
    \/ EnqueueWrite(c) \/ CompleteWrite(c) \/ ReconcileWrite(c)
    \/ Crash(c) \/ Raise(c)

Next == FileStep \/ \E c \in Clients : ClientStep(c)

Spec == Init /\ [][Next]_vars

-----------------------------------------------------------------------------
\* The states read_state accepts; with any other the queue raises for good.
State == [nextSequence : Nat, capacityEvents : BOOLEAN,
          count : [Lanes -> 0 .. MaxRecords],
          headCursor : [Lanes -> Cursors], writeCursor : [Lanes -> Cursors]]

\* The variables have their types: whatever calls, stale items and faults come
\* together, enqueue, complete and reconcile write a state that read_state
\* accepts, with every count and cursor within its limits.
TypeOK ==
    /\ slot \in [Lanes -> [Cursors -> Record \cup {Empty}]]
    /\ temp \subseteq Lanes \X Cursors
    /\ state \in State
    /\ holder \in Clients \cup {NoClient}
    /\ op \in Op
    /\ role \in [Clients -> {"idle", "writer", "sweeper", "down"}]
    /\ item \in [Clients -> Item \cup {NoItem}]
    /\ used \subseteq Ids
    /\ clean \in BOOLEAN
    /\ faults \in 0 .. MaxFaults

\* A record leaves the queue only through a complete of one of its items that
\* is not the second half of a move: neither the reconcile of a starting
\* process, nor a move cut short, nor a call on a stale item takes the last
\* copy of a record away.
NothingDropped ==
    [][\A id \in Ids :
          Copies(id) # {} /\ Copies(id)' = {} =>
            /\ op.phase = "complete" /\ op.done.id = id
            /\ op.result = NoItem]_vars

\* As long as no call was cut short since the last reconcile, the state and
\* the slot files agree whenever no call is in progress, whatever stale items
\* writers complete or move: each lane's count is its number of slot files,
\* no temp file is left and every sequence given out is below nextSequence.
StateAgrees ==
    clean /\ op.phase = "idle" =>
        /\ \A lane \in Lanes : state.count[lane] = Cardinality(Occupied(lane))
        /\ \A lane \in Lanes : \A n \in Sequences(lane) : n < state.nextSequence
        /\ temp = {}

\* A reconcile leaves one copy of a record, the one of the highest generation:
\* no step of it removes a copy while it leaves a lower generation behind.
NewestSurvives ==
    [][op.phase = "reconcile" =>
         \A id \in Ids : \A p \in Copies(id) \ Copies(id)' :
            \E q \in Copies(id)' :
               slot[q[1]][q[2]].generation >= slot[p[1]][p[2]].generation]_vars
=============================================================================
