------------------------ MODULE SegmentedQueueProofs ------------------------
(***************************************************************************)
(* The safety of the segmented maintenance queue for any number of worker  *)
(* processes, records, lanes' slots and faults.                            *)
(***************************************************************************)
EXTENDS SegmentedQueue, NaturalBounds, FiniteSetTheorems, TLAPS

USE QueueAssumption

(***************************************************************************)
(* The inductive invariant.  A call writes slot files and state one after  *)
(* the other, so what it will write has to be right already while it runs: *)
(* an enqueue has room in the counts and carries the next sequence, and a  *)
(* move that is about to complete the old item has left the next           *)
(* generation in the queue.                                                *)
(***************************************************************************)
Enqueuing == op.phase \in {"create", "link", "unlinkTemp", "enqueued"}

\* The item is the next generation of the other.
Supersedes(new, old) == new.id = old.id /\ new.generation = old.generation + 1

EnqueueReady ==
    Enqueuing => /\ op.record \in Record
                 /\ op.record.sequence = state.nextSequence
                 /\ state.nextSequence < MaxSequence
                 /\ op.tried < Capacity
                 /\ total_count < MaxRecords
                 /\ op.done # NoItem => Supersedes(op.record, op.done)

RecordLinked ==
    op.phase \in {"unlinkTemp", "enqueued"} => slot[op.lane][op.cursor] = op.record

CompleteReady ==
    op.phase \in {"complete", "completed"} => op.done # NoItem

\* The second half of a move: the record is in the queue twice.
NextIsQueued ==
    op.phase = "complete" /\ op.result # NoItem =>
        Owns(op.result) /\ Supersedes(op.result, op.done)

SequencesBounded ==
    /\ state.nextSequence <= MaxSequence
    /\ \A lane \in Lanes : \A cursor \in Cursors :
          slot[lane][cursor] # Empty => slot[lane][cursor].sequence < MaxSequence

QueueInv ==
    /\ TypeOK
    /\ EnqueueReady
    /\ RecordLinked
    /\ CompleteReady
    /\ NextIsQueued
    /\ SequencesBounded

(***************************************************************************)
(* How far the state is behind the slot files of a lane in the middle of a *)
(* call.                                                                   *)
(***************************************************************************)
Linked(lane) == op.phase \in {"unlinkTemp", "enqueued"} /\ lane = op.lane
Unlinked(lane) == op.phase = "completed" /\ lane = op.done.lane

CountAgrees(lane) ==
    Cardinality(Occupied(lane)) = IF Linked(lane) THEN state.count[lane] + 1
                                  ELSE IF Unlinked(lane) THEN state.count[lane] - 1
                                  ELSE state.count[lane]

SequencesAgree(lane) ==
    \A n \in Sequences(lane) :
        n < state.nextSequence \/ (Linked(lane) /\ n = state.nextSequence)

TempAgrees ==
    temp = IF op.phase \in {"link", "unlinkTemp"} THEN {<<op.lane, op.cursor>>} ELSE {}

Agrees == TempAgrees /\ \A lane \in Lanes : CountAgrees(lane) /\ SequencesAgree(lane)

\* A reconcile may have removed copies already, but then it does not raise.
AgreeInv ==
    clean => \/ Agrees
             \/ op.phase = "reconcile" /\ Cardinality(Places) <= MaxRecords
-----------------------------------------------------------------------------
(***************************************************************************)
(* Calls and items.                                                        *)
(***************************************************************************)
\* The calls a step may leave behind.
LEMMA Calls ==
    /\ NoOp \in Op /\ NoOp.phase = "idle"
    /\ Raised \in Op /\ Raised.phase = "raised"
    /\ \A lane \in Lanes, b \in BOOLEAN :
          LET call == [NoOp EXCEPT !.phase = "reconcile", !.lane = lane, !.peek = b]
          IN  call \in Op /\ call.phase = "reconcile"
    /\ LET call == [NoOp EXCEPT !.phase = "reconcile"]
       IN  call \in Op /\ call.phase = "reconcile"
<1>1. 0 \in Cursors /\ 0 \in 0 .. Capacity
  BY DEF Cursors
<1> QED BY <1>1 DEF NoOp, Raised, Op, Phases, Lanes

\* The start of a complete, of its own and as the second half of a move.
LEMMA NewComplete ==
    ASSUME NEW old \in Item
    PROVE  LET call == [NoOp EXCEPT !.phase = "complete", !.done = old]
           IN  /\ call \in Op /\ call.phase = "complete"
               /\ call.done = old /\ call.result = NoItem
<1>1. 0 \in Cursors /\ 0 \in 0 .. Capacity
  BY DEF Cursors
<1> QED BY <1>1 DEF NoOp, Op, Phases, Lanes

\* The call a move is left with once the next generation is in.
LEMMA MoveCompletes ==
    ASSUME NEW old \in Item, NEW at \in Item
    PROVE  LET call == [NoOp EXCEPT !.phase = "complete", !.done = old, !.result = at]
           IN  /\ call \in Op /\ call.phase = "complete"
               /\ call.done = old /\ call.result = at
<1>1. 0 \in Cursors /\ 0 \in 0 .. Capacity
  BY DEF Cursors
<1> QED BY <1>1 DEF NoOp, Op, Phases, Lanes

\* A call that only moves on to its next phase.
LEMMA NextPhase ==
    ASSUME NEW call \in Op, NEW p \in Phases
    PROVE  LET next == [call EXCEPT !.phase = p]
           IN  /\ next \in Op /\ next.phase = p
               /\ next.lane = call.lane /\ next.cursor = call.cursor
               /\ next.tried = call.tried /\ next.record = call.record
               /\ next.done = call.done /\ next.result = call.result
               /\ next.peek = call.peek
BY DEF Op

\* The next cursor is one.
LEMMA NextIsCursor == \A n \in Cursors : (n + 1) % Capacity \in Cursors
BY DEF Cursors

\* An occupied slot holds a record, and an item can be made of it.
LEMMA SlotIsRecord ==
    ASSUME TypeOK, NEW lane \in Lanes, NEW cursor \in Cursors, slot[lane][cursor] # Empty
    PROVE  /\ slot[lane][cursor] \in Record
           /\ ItemAt(lane, cursor) \in Item
           /\ Owns(ItemAt(lane, cursor))
<1>1. slot[lane][cursor] \in Record
  BY DEF TypeOK
<1> QED BY <1>1 DEF Record, ItemAt, Item, Owns

\* Writing one slot keeps the slot files typed.
LEMMA SlotWritten ==
    ASSUME TypeOK, NEW lane \in Lanes, NEW cursor \in Cursors, NEW r \in Record \cup {Empty},
           slot' = [slot EXCEPT ![lane][cursor] = r]
    PROVE  /\ slot' \in [Lanes -> [Cursors -> Record \cup {Empty}]]
           /\ slot'[lane][cursor] = r
           /\ \A l \in Lanes, n \in Cursors :
                 l # lane \/ n # cursor => slot'[l][n] = slot[l][n]
BY DEF TypeOK

\* A client's item after a call.
LEMMA Returned ==
    ASSUME TypeOK, NEW c \in Clients, NEW result \in Item \cup {NoItem}, Return(c, result)
    PROVE  op' = NoOp /\ item' \in [Clients -> Item \cup {NoItem}]
BY DEF Return, TypeOK

\* Outside an enqueue and a complete only the types and the bound matter.
LEMMA QuietCall ==
    ASSUME TypeOK', SequencesBounded', op'.phase \in {"idle", "raised", "reconcile"}
    PROVE  QueueInv'
BY DEF QueueInv, EnqueueReady, Enqueuing, RecordLinked, CompleteReady, NextIsQueued
-----------------------------------------------------------------------------
(***************************************************************************)
(* Every step keeps the invariant.                                         *)
(***************************************************************************)
LEMMA InitQueueInv == Init => QueueInv
<1> SUFFICES ASSUME Init PROVE QueueInv
  OBVIOUS
<1>1. 0 \in Cursors /\ 0 \in 0 .. MaxRecords
  BY DEF Cursors
<1>2. initial_state \in State
  BY <1>1 DEF initial_state, State
<1>3. TypeOK
  <2>1. slot \in [Lanes -> [Cursors -> Record \cup {Empty}]]
    BY DEF Init
  <2>2. op \in Op /\ state \in State
    BY <1>2, Calls DEF Init
  <2>3. item \in [Clients -> Item \cup {NoItem}]
    BY DEF Init
  <2>4. role \in [Clients -> {"idle", "writer", "sweeper", "down"}]
    BY DEF Init
  <2>5. temp = {} /\ used = {} /\ holder = NoClient /\ clean = TRUE /\ faults \in 0 .. MaxFaults
    BY DEF Init
  <2> QED BY <2>1, <2>2, <2>3, <2>4, <2>5 DEF TypeOK
<1>4. SequencesBounded
  BY DEF Init, SequencesBounded, initial_state
<1>5. op.phase = "idle"
  BY Calls DEF Init
<1> QED BY <1>3, <1>4, <1>5
     DEF QueueInv, EnqueueReady, Enqueuing, RecordLinked, CompleteReady, NextIsQueued

\* The record of an enqueue was found or written at a place.
LEMMA EnqueuedInv ==
    ASSUME QueueInv, NEW c \in Clients, NEW lane \in Lanes, NEW cursor \in Cursors,
           NEW old \in Item \cup {NoItem},
           slot[lane][cursor] # Empty,
           old # NoItem => Supersedes(slot[lane][cursor], old),
           Enqueued(c, ItemAt(lane, cursor), old),
           UNCHANGED slot
    PROVE  /\ op' \in Op
           /\ item' \in [Clients -> Item \cup {NoItem}]
           /\ op'.phase \in {"idle", "complete"}
           /\ CompleteReady' /\ NextIsQueued'
<1>0. PICK at \in Item : at = ItemAt(lane, cursor)
  BY SlotIsRecord DEF QueueInv
<1>1. TypeOK /\ Owns(at)
  BY <1>0, SlotIsRecord DEF QueueInv
<1>2. CASE old = NoItem
  <2>1. op' = NoOp /\ item' \in [Clients -> Item \cup {NoItem}]
    BY <1>0, <1>1, <1>2, Returned DEF Enqueued
  <2> QED BY <2>1, Calls DEF CompleteReady, NextIsQueued
<1>3. CASE old # NoItem
  <2>1. op' = [NoOp EXCEPT !.phase = "complete", !.done = old, !.result = at]
    BY <1>0, <1>3 DEF Enqueued
  <2>2. op' \in Op /\ op'.phase = "complete" /\ op'.done = old /\ op'.result = at
    <3>1. old \in Item
      BY <1>3
    <3> QED BY <1>1, <2>1, <3>1, MoveCompletes
  <2>3. item' \in [Clients -> Item \cup {NoItem}]
    BY <1>1, <1>3 DEF Enqueued, TypeOK
  <2>4. Supersedes(at, old)
    BY <1>0, <1>3 DEF Supersedes, ItemAt
  <2>5. Owns(at)'
    BY <1>1 DEF Owns, ItemAt
  <2>6. CompleteReady'
    BY <1>3, <2>2 DEF CompleteReady
  <2>7. NextIsQueued'
    <3>1. Owns(op.result)'
      BY <2>2, <1>1 DEF Owns, ItemAt
    <3>2. Supersedes(op.result, op.done)'
      BY <2>2, <2>4 DEF Supersedes
    <3> QED BY <3>1, <3>2 DEF NextIsQueued
  <2> QED BY <2>2, <2>3, <2>6, <2>7
<1> QED BY <1>2, <1>3

\* A capacity event leaves the counters as they are.
LEMMA CapacityEventState ==
    ASSUME TypeOK
    PROVE  /\ CapacityEvent \in State
           /\ CapacityEvent.nextSequence = state.nextSequence
           /\ CapacityEvent.count = state.count
BY DEF TypeOK, State, CapacityEvent

\* A place is a slot that holds a record.
LEMMA PlaceIsSlot ==
    ASSUME NEW p \in Places
    PROVE  p[1] \in Lanes /\ p[2] \in Cursors /\ slot[p[1]][p[2]] # Empty
BY DEF Places

\* An enqueue that found room has it in the counts and takes the next sequence.
LEMMA EnqueueStartInv ==
    ASSUME QueueInv, NEW c \in Clients, NEW lane \in Lanes, NEW id \in Ids,
           NEW generation \in Nat, NEW old \in Item \cup {NoItem}, NEW existing,
           existing \subseteq Places,
           old # NoItem => old.id = id /\ generation = old.generation + 1,
           old # NoItem => \A p \in existing : Supersedes(slot[p[1]][p[2]], old),
           state.nextSequence < MaxSequence,
           EnqueueStart(c, lane, id, generation, old, existing),
           UNCHANGED <<slot, temp, clean, faults>>,
           holder' \in Clients \cup {NoClient},
           role' \in [Clients -> {"idle", "writer", "sweeper", "down"}],
           used' \subseteq Ids
    PROVE  QueueInv'
<1> USE DEF QueueInv
<1>1. CASE /\ \E p \in existing : Enqueued(c, ItemAt(p[1], p[2]), old)
           /\ UNCHANGED state
  <2>1. PICK p \in existing : Enqueued(c, ItemAt(p[1], p[2]), old)
    BY <1>1
  <2>2. p[1] \in Lanes /\ p[2] \in Cursors /\ slot[p[1]][p[2]] # Empty
    BY PlaceIsSlot
  <2>3. /\ op' \in Op
        /\ item' \in [Clients -> Item \cup {NoItem}]
        /\ op'.phase \in {"idle", "complete"}
        /\ CompleteReady' /\ NextIsQueued'
    BY <2>1, <2>2, EnqueuedInv
  <2>4. TypeOK'
    BY <1>1, <2>3 DEF TypeOK
  <2>5. SequencesBounded'
    BY <1>1 DEF SequencesBounded
  <2> QED BY <2>3, <2>4, <2>5 DEF EnqueueReady, Enqueuing, RecordLinked
<1>2. CASE state' = CapacityEvent /\ op' = Raised /\ UNCHANGED item
  <2>1. TypeOK'
    BY <1>2, Calls, CapacityEventState DEF TypeOK
  <2>2. SequencesBounded'
    BY <1>2, CapacityEventState DEF SequencesBounded
  <2> QED BY <1>2, <2>1, <2>2, Calls, QuietCall
<1>3. CASE /\ total_count < MaxRecords
           /\ op' = [NoOp EXCEPT
                    !.phase = "create", !.lane = lane,
                    !.cursor = state.writeCursor[lane],
                    !.record = [id |-> id, generation |-> generation,
                                sequence |-> state.nextSequence],
                    !.done = old]
           /\ UNCHANGED <<state, item>>
  <2>1. PICK record \in Record :
            record = [id |-> id, generation |-> generation, sequence |-> state.nextSequence]
    BY DEF Record, TypeOK, State
  <2>2. PICK cursor \in Cursors : cursor = state.writeCursor[lane]
    BY DEF TypeOK, State
  <2>3. /\ op' \in Op /\ op'.phase = "create" /\ op'.tried = 0
        /\ op'.lane = lane /\ op'.cursor = cursor
        /\ op'.record = record /\ op'.done = old /\ op'.result = NoItem
    <3>1. op' = [NoOp EXCEPT !.phase = "create", !.lane = lane, !.cursor = cursor,
                             !.record = record, !.done = old]
      BY <1>3, <2>1, <2>2
    <3>2. 0 \in 0 .. Capacity
      OBVIOUS
    <3> HIDE DEF QueueInv
    <3> QED BY <3>1, <3>2 DEF NoOp, Op, Phases
  <2>4. TypeOK'
    BY <1>3, <2>3 DEF TypeOK
  <2>5. EnqueueReady'
    <3>1. op'.record.sequence = state'.nextSequence
      BY <1>3, <2>1, <2>3
    <3>2. op'.tried < Capacity
      BY <2>3
    <3>3. (total_count < MaxRecords)'
      BY <1>3 DEF total_count
    <3>4. op'.done # NoItem => Supersedes(op'.record, op'.done)
      BY <2>1, <2>3 DEF Supersedes
    <3> QED BY <1>3, <2>3, <3>1, <3>2, <3>3, <3>4 DEF EnqueueReady, Supersedes
  <2>6. SequencesBounded'
    BY <1>3 DEF SequencesBounded
  <2> QED BY <2>3, <2>4, <2>5, <2>6 DEF RecordLinked, CompleteReady, NextIsQueued
<1> QED BY <1>1, <1>2, <1>3 DEF EnqueueStart

\* _queue_enqueue of a new record.
LEMMA EnqueueIntentInv ==
    ASSUME QueueInv, NEW c \in Clients, NEW id \in Ids, EnqueueIntent(c, id)
    PROVE  QueueInv'
<1>1. TypeOK
  BY DEF QueueInv
<1>2. /\ holder' \in Clients \cup {NoClient}
      /\ role' \in [Clients -> {"idle", "writer", "sweeper", "down"}]
      /\ used' \subseteq Ids
  BY <1>1 DEF EnqueueIntent, Enter, TypeOK
<1>3. /\ state.nextSequence < MaxSequence
      /\ EnqueueStart(c, "ready", id, 0, NoItem, {})
      /\ UNCHANGED <<slot, temp, clean, faults>>
  BY DEF EnqueueIntent
<1>4. "ready" \in Lanes /\ {} \subseteq Places
  BY DEF Lanes
<1> QED BY <1>2, <1>3, <1>4, EnqueueStartInv

\* _queue_enqueue of a record that is there already returns it.
LEMMA EnqueueKnownInv ==
    ASSUME QueueInv, NEW c \in Clients, NEW id \in Ids, EnqueueKnown(c, id)
    PROVE  QueueInv'
<1>1. TypeOK
  BY DEF QueueInv
<1>2. /\ holder' \in Clients \cup {NoClient}
      /\ role' \in [Clients -> {"idle", "writer", "sweeper", "down"}]
      /\ used' \subseteq Ids
  BY <1>1 DEF EnqueueKnown, Enter, TypeOK
<1>3. /\ state.nextSequence < MaxSequence
      /\ EnqueueStart(c, "ready", id, 0, NoItem, Copies(id))
      /\ UNCHANGED <<slot, temp, clean, faults>>
  BY DEF EnqueueKnown
<1>4. "ready" \in Lanes /\ Copies(id) \subseteq Places
  BY DEF Lanes, Copies
<1> QED BY <1>2, <1>3, <1>4, EnqueueStartInv

\* _queue_move enqueues the next generation before it completes the old item.
LEMMA MoveInv ==
    ASSUME QueueInv, NEW c \in Clients, NEW lane \in Lanes, Move(c, lane)
    PROVE  QueueInv'
<1>1. TypeOK
  BY DEF QueueInv
<1>2. PICK old \in Item : old = item[c]
  BY <1>1 DEF Move, TypeOK
<1>3. PICK existing \in SUBSET Places :
          existing = {p \in Copies(old.id) :
              p[1] = lane /\ slot[lane][p[2]].generation = old.generation + 1}
  BY DEF Copies
<1>4. /\ state.nextSequence < MaxSequence
      /\ EnqueueStart(c, lane, old.id, old.generation + 1, old, existing)
      /\ UNCHANGED <<slot, temp, clean, faults>>
  BY <1>2, <1>3 DEF Move
<1>5. old.id \in Ids /\ old.generation + 1 \in Nat /\ old # NoItem
  BY <1>2 DEF Item, Move
<1>6. \A p \in existing : Supersedes(slot[p[1]][p[2]], old)
  BY <1>3 DEF Copies, Supersedes
<1>7. /\ holder' \in Clients \cup {NoClient}
      /\ role' \in [Clients -> {"idle", "writer", "sweeper", "down"}]
      /\ used' \subseteq Ids
  BY <1>1 DEF Move, Enter, TypeOK
<1> QED BY <1>2, <1>3, <1>4, <1>5, <1>6, <1>7, EnqueueStartInv

\* The search for a free slot goes on, or the enqueue raises.
LEMMA NextCursorInv ==
    ASSUME QueueInv, op.phase \in {"create", "link"}, NextCursor,
           UNCHANGED <<slot, holder, role, item, used, clean, faults>>,
           temp' \subseteq Lanes \X Cursors
    PROVE  QueueInv'
<1>1. /\ TypeOK /\ SequencesBounded /\ op.record \in Record
      /\ op.record.sequence = state.nextSequence
      /\ state.nextSequence < MaxSequence
      /\ op.tried < Capacity
      /\ total_count < MaxRecords
      /\ op.done # NoItem => Supersedes(op.record, op.done)
  BY DEF QueueInv, EnqueueReady, Enqueuing
<1>2. CASE op' = Raised /\ state' = CapacityEvent
  <2>1. TypeOK'
    BY <1>1, <1>2, Calls, CapacityEventState DEF TypeOK
  <2>2. SequencesBounded'
    BY <1>1, <1>2, CapacityEventState DEF SequencesBounded
  <2> QED BY <1>2, <2>1, <2>2, Calls, QuietCall
<1>3. CASE /\ op.tried + 1 # Capacity
           /\ op' = [op EXCEPT !.phase = "create", !.tried = @ + 1,
                               !.cursor = (@ + 1) % Capacity]
           /\ UNCHANGED state
  <2>1. op \in Op /\ op.tried \in 0 .. Capacity /\ op.cursor \in Cursors
    BY <1>1 DEF TypeOK, Op
  <2>2. PICK cursor \in Cursors : cursor = (op.cursor + 1) % Capacity
    BY <2>1, NextIsCursor
  <2>3. PICK tried \in 0 .. Capacity : tried = op.tried + 1 /\ tried < Capacity
    BY <1>1, <1>3, <2>1
  <2>4. op' = [op EXCEPT !.phase = "create", !.tried = tried, !.cursor = cursor]
    BY <1>3, <2>2, <2>3
  <2>5. /\ op' \in Op /\ op'.phase = "create" /\ op'.tried = tried
        /\ op'.record = op.record /\ op'.done = op.done
    BY <2>1, <2>4 DEF Op, Phases
  <2>6. TypeOK'
    BY <1>1, <1>3, <2>5 DEF TypeOK
  <2>7. EnqueueReady'
    BY <1>1, <1>3, <2>3, <2>5 DEF EnqueueReady, total_count, Supersedes
  <2>8. SequencesBounded'
    BY <1>1, <1>3 DEF SequencesBounded
  <2> QED BY <2>5, <2>6, <2>7, <2>8 DEF QueueInv, RecordLinked, CompleteReady, NextIsQueued
<1> QED BY <1>2, <1>3 DEF NextCursor

\* The record is written to a temp file first.
LEMMA EnqueueCreateInv ==
    ASSUME QueueInv, EnqueueCreate
    PROVE  QueueInv'
<1>1. TypeOK /\ op.phase = "create" /\ <<op.lane, op.cursor>> \in Lanes \X Cursors
  BY DEF QueueInv, TypeOK, Op, EnqueueCreate
<1>2. UNCHANGED <<slot, holder, role, item, used, clean, faults>>
  BY DEF EnqueueCreate
<1>3. CASE NextCursor /\ UNCHANGED temp
  <2>1. temp' \subseteq Lanes \X Cursors
    BY <1>1, <1>3 DEF TypeOK
  <2> QED BY <1>1, <1>2, <1>3, <2>1, NextCursorInv
<1>4. CASE /\ temp' = temp \cup {<<op.lane, op.cursor>>}
           /\ op' = [op EXCEPT !.phase = "link"]
           /\ UNCHANGED state
  <2>1. /\ op' \in Op /\ op'.phase = "link" /\ op'.tried = op.tried
        /\ op'.record = op.record /\ op'.done = op.done
    BY <1>1, <1>4, NextPhase DEF TypeOK, Phases
  <2>2. TypeOK'
    BY <1>1, <1>2, <1>4, <2>1 DEF TypeOK
  <2>3. EnqueueReady'
    BY <1>1, <1>4, <2>1 DEF QueueInv, EnqueueReady, Enqueuing, total_count, Supersedes
  <2>4. SequencesBounded'
    BY <1>2, <1>4 DEF QueueInv, SequencesBounded
  <2> QED BY <2>1, <2>2, <2>3, <2>4 DEF QueueInv, RecordLinked, CompleteReady, NextIsQueued
<1> QED BY <1>3, <1>4 DEF EnqueueCreate

\* The temp file is linked into the next free slot of its lane.
LEMMA EnqueueLinkInv ==
    ASSUME QueueInv, EnqueueLink
    PROVE  QueueInv'
<1>1. TypeOK /\ op.phase = "link" /\ op.lane \in Lanes /\ op.cursor \in Cursors
  BY DEF QueueInv, TypeOK, Op, EnqueueLink
<1>2. UNCHANGED <<holder, role, item, used, clean, faults>>
  BY DEF EnqueueLink
<1>3. CASE temp' = temp \ {<<op.lane, op.cursor>>} /\ NextCursor /\ UNCHANGED slot
  <2>1. temp' \subseteq Lanes \X Cursors
    BY <1>1, <1>3 DEF TypeOK
  <2> QED BY <1>1, <1>2, <1>3, <2>1, NextCursorInv
<1>4. CASE /\ slot' = [slot EXCEPT ![op.lane][op.cursor] = op.record]
           /\ op' = [op EXCEPT !.phase = "unlinkTemp"]
           /\ UNCHANGED <<temp, state>>
  <2>1. /\ op.record \in Record /\ op.record.sequence < MaxSequence
    BY <1>1 DEF QueueInv, EnqueueReady, Enqueuing
  <2>2. /\ op' \in Op /\ op'.phase = "unlinkTemp" /\ op'.tried = op.tried
        /\ op'.record = op.record /\ op'.done = op.done
        /\ op'.lane = op.lane /\ op'.cursor = op.cursor
    BY <1>1, <1>4, NextPhase DEF TypeOK, Phases
  <2>3. /\ slot' \in [Lanes -> [Cursors -> Record \cup {Empty}]]
        /\ slot'[op.lane][op.cursor] = op.record
        /\ \A l \in Lanes, n \in Cursors :
              l # op.lane \/ n # op.cursor => slot'[l][n] = slot[l][n]
    BY <1>1, <1>4, <2>1 DEF TypeOK
  <2>4. TypeOK'
    BY <1>1, <1>2, <1>4, <2>2, <2>3 DEF TypeOK
  <2>5. EnqueueReady'
    BY <1>1, <1>4, <2>2 DEF QueueInv, EnqueueReady, Enqueuing, total_count, Supersedes
  <2>6. RecordLinked'
    BY <2>2, <2>3 DEF RecordLinked
  <2>7. SequencesBounded'
    BY <1>4, <2>1, <2>3 DEF QueueInv, SequencesBounded
  <2> QED BY <2>2, <2>4, <2>5, <2>6, <2>7 DEF QueueInv, CompleteReady, NextIsQueued
<1> QED BY <1>3, <1>4 DEF EnqueueLink

\* The temp file goes once the slot holds the record.
LEMMA EnqueueUnlinkTempInv ==
    ASSUME QueueInv, EnqueueUnlinkTemp
    PROVE  QueueInv'
<1>1. TypeOK /\ op.phase = "unlinkTemp"
  BY DEF QueueInv, EnqueueUnlinkTemp
<1>2. /\ op' \in Op /\ op'.phase = "enqueued" /\ op'.tried = op.tried
      /\ op'.record = op.record /\ op'.done = op.done
      /\ op'.lane = op.lane /\ op'.cursor = op.cursor
  BY <1>1, NextPhase DEF TypeOK, Phases, EnqueueUnlinkTemp
<1>3. TypeOK'
  BY <1>1, <1>2 DEF EnqueueUnlinkTemp, TypeOK
<1>4. EnqueueReady'
  BY <1>1, <1>2 DEF QueueInv, EnqueueReady, Enqueuing, total_count, Supersedes, EnqueueUnlinkTemp
<1>5. RecordLinked'
  BY <1>1, <1>2 DEF QueueInv, RecordLinked, EnqueueUnlinkTemp
<1>6. SequencesBounded'
  BY DEF QueueInv, SequencesBounded, EnqueueUnlinkTemp
<1> QED BY <1>2, <1>3, <1>4, <1>5, <1>6 DEF QueueInv, CompleteReady, NextIsQueued

\* The state the enqueue writes.
LEMMA EnqueueWriteState ==
    ASSUME QueueInv, NEW c \in Clients, EnqueueWrite(c)
    PROVE  /\ state' \in State
           /\ state'.nextSequence = state.nextSequence + 1
           /\ state'.count[op.lane] = state.count[op.lane] + 1
           /\ \A lane \in Lanes : lane # op.lane => state'.count[lane] = state.count[lane]
<1>1. TypeOK /\ op.phase = "enqueued" /\ op.lane \in Lanes /\ op.cursor \in Cursors
  BY DEF QueueInv, TypeOK, Op, EnqueueWrite
<1>2. state \in State /\ state.nextSequence \in Nat
  BY <1>1 DEF TypeOK, State
<1>3. PICK n \in 0 .. MaxRecords : n = state.count[op.lane] + 1
  <2>1. total_count < MaxRecords
    BY <1>1 DEF QueueInv, EnqueueReady, Enqueuing
  <2>2. \A lane \in Lanes : state.count[lane] \in 0 .. MaxRecords
    BY <1>2 DEF State
  <2> QED BY <1>1, <2>1, <2>2 DEF total_count, Lanes
<1>4. PICK w \in Cursors : w = (op.cursor + 1) % Capacity
  BY <1>1, NextIsCursor
<1>5. PICK h \in Cursors :
          h = IF state.count[op.lane] = 0 THEN op.cursor ELSE state.headCursor[op.lane]
  BY <1>1, <1>2 DEF State
<1>6. state' = [state EXCEPT !.count[op.lane] = n, !.headCursor[op.lane] = h,
                             !.writeCursor[op.lane] = w, !.nextSequence = @ + 1]
  BY <1>3, <1>4, <1>5 DEF EnqueueWrite
<1>7. /\ state'.count = [state.count EXCEPT ![op.lane] = n]
      /\ state'.nextSequence = state.nextSequence + 1
  BY <1>2, <1>6 DEF State
<1>8. state' \in State
  <2>1. [state.count EXCEPT ![op.lane] = n] \in [Lanes -> 0 .. MaxRecords]
    BY <1>1, <1>2 DEF State
  <2>2. [state.headCursor EXCEPT ![op.lane] = h] \in [Lanes -> Cursors]
    BY <1>1, <1>2 DEF State
  <2>3. [state.writeCursor EXCEPT ![op.lane] = w] \in [Lanes -> Cursors]
    BY <1>1, <1>2 DEF State
  <2>4. state' = [nextSequence   |-> state.nextSequence + 1,
                  capacityEvents |-> state.capacityEvents,
                  count          |-> [state.count EXCEPT ![op.lane] = n],
                  headCursor     |-> [state.headCursor EXCEPT ![op.lane] = h],
                  writeCursor    |-> [state.writeCursor EXCEPT ![op.lane] = w]]
    BY <1>2, <1>6 DEF State
  <2> QED BY <1>2, <2>1, <2>2, <2>3, <2>4 DEF State
<1> QED BY <1>1, <1>2, <1>3, <1>7, <1>8 DEF State

\* The state counts the new record; a move goes on to complete the old item.
LEMMA EnqueueWriteInv ==
    ASSUME QueueInv, NEW c \in Clients, EnqueueWrite(c)
    PROVE  QueueInv'
<1>1. /\ TypeOK /\ op.phase = "enqueued" /\ op.lane \in Lanes /\ op.cursor \in Cursors
      /\ op.done \in Item \cup {NoItem}
  BY DEF QueueInv, TypeOK, Op, EnqueueWrite
<1>2. /\ op.record \in Record /\ slot[op.lane][op.cursor] = op.record
      /\ op.done # NoItem => Supersedes(op.record, op.done)
      /\ state.nextSequence < MaxSequence
  BY <1>1 DEF QueueInv, EnqueueReady, Enqueuing, RecordLinked
<1>3. slot[op.lane][op.cursor] # Empty
  BY <1>2, ValuesAssumption
<1>4. Enqueued(c, ItemAt(op.lane, op.cursor), op.done) /\ UNCHANGED slot
  BY DEF EnqueueWrite
<1>5. /\ op' \in Op
      /\ item' \in [Clients -> Item \cup {NoItem}]
      /\ op'.phase \in {"idle", "complete"}
      /\ CompleteReady' /\ NextIsQueued'
  BY <1>1, <1>2, <1>3, <1>4, EnqueuedInv
<1>6. state' \in State /\ state'.nextSequence = state.nextSequence + 1
  BY EnqueueWriteState
<1>7. TypeOK'
  BY <1>1, <1>5, <1>6 DEF TypeOK, EnqueueWrite
<1>8. SequencesBounded'
  <2>1. state.nextSequence \in Nat
    BY <1>1 DEF TypeOK, State
  <2> QED BY <1>2, <1>4, <1>6, <2>1 DEF QueueInv, SequencesBounded
<1> QED BY <1>5, <1>7, <1>8 DEF QueueInv, EnqueueReady, Enqueuing, RecordLinked

\* A step that leaves the slots, the state and the call alone.
LEMMA OtherStep ==
    ASSUME QueueInv, TypeOK', UNCHANGED <<slot, state, op>>
    PROVE  QueueInv'
BY DEF QueueInv, EnqueueReady, Enqueuing, RecordLinked, CompleteReady, NextIsQueued,
       SequencesBounded, total_count, Supersedes, Owns, ItemAt

\* A step that leaves the slots and the state alone and ends or restarts the call.
LEMMA QuietStep ==
    ASSUME QueueInv, TypeOK', UNCHANGED <<slot, state>>,
           op'.phase \in {"idle", "raised", "reconcile"}
    PROVE  QueueInv'
<1>1. SequencesBounded'
  BY DEF QueueInv, SequencesBounded
<1> QED BY <1>1, QuietCall

\* _queue_complete of an item a writer holds.
LEMMA CompleteInv ==
    ASSUME QueueInv, NEW c \in Clients, Complete(c)
    PROVE  QueueInv'
<1>1. TypeOK
  BY DEF QueueInv
<1>2. PICK old \in Item : old = item[c]
  BY <1>1 DEF Complete, TypeOK
<1>3. op' = [NoOp EXCEPT !.phase = "complete", !.done = old]
  BY <1>2 DEF Complete
<1>4. /\ op' \in Op /\ op'.phase = "complete"
      /\ op'.done = old /\ op'.result = NoItem
  BY <1>3, NewComplete
<1>5. TypeOK'
  BY <1>1, <1>4 DEF TypeOK, Complete, Enter
<1>6. SequencesBounded'
  BY DEF QueueInv, SequencesBounded, Complete
<1> QED BY <1>2, <1>4, <1>5, <1>6, ValuesAssumption
     DEF QueueInv, EnqueueReady, Enqueuing, RecordLinked, CompleteReady, NextIsQueued

\* complete of an item whose slot is empty goes on to reconcile.
LEMMA CompleteMissingInv ==
    ASSUME QueueInv, CompleteMissing
    PROVE  QueueInv'
<1>1. op' \in Op /\ op'.phase = "reconcile"
  BY NextPhase DEF CompleteMissing, QueueInv, TypeOK, Phases
<1>2. TypeOK'
  BY <1>1 DEF CompleteMissing, QueueInv, TypeOK
<1> QED BY <1>1, <1>2, QuietStep DEF CompleteMissing

\* complete of an item whose slot was reused raises.
LEMMA CompleteRefuseInv ==
    ASSUME QueueInv, CompleteRefuse
    PROVE  QueueInv'
<1>1. op' \in Op /\ op'.phase = "raised"
  BY Calls DEF CompleteRefuse
<1>2. TypeOK'
  BY <1>1 DEF CompleteRefuse, QueueInv, TypeOK
<1> QED BY <1>1, <1>2, QuietStep DEF CompleteRefuse

\* Taking slot files away keeps the sequences bounded.
LEMMA CompleteUnlinkInv ==
    ASSUME QueueInv, CompleteUnlink
    PROVE  QueueInv'
<1>1. TypeOK /\ op.phase = "complete" /\ op.done # NoItem
  BY DEF QueueInv, CompleteReady, CompleteUnlink
<1>2. op.done.lane \in Lanes /\ op.done.cursor \in Cursors
  <2>1. op.done \in Item
    BY <1>1 DEF TypeOK, Op
  <2> QED BY <2>1 DEF Item
<1>3. op' \in Op /\ op'.phase = "completed" /\ op'.done = op.done
  BY <1>1, NextPhase DEF TypeOK, Phases, CompleteUnlink
<1>4. /\ slot' \in [Lanes -> [Cursors -> Record \cup {Empty}]]
      /\ \A l \in Lanes, n \in Cursors : slot'[l][n] \in {slot[l][n], Empty}
  BY <1>1, <1>2 DEF TypeOK, CompleteUnlink
<1>5. TypeOK'
  BY <1>1, <1>3, <1>4 DEF TypeOK, CompleteUnlink
<1>6. SequencesBounded'
  BY <1>4 DEF QueueInv, SequencesBounded, CompleteUnlink
<1> QED BY <1>1, <1>3, <1>5, <1>6
     DEF QueueInv, EnqueueReady, Enqueuing, RecordLinked, CompleteReady, NextIsQueued

\* The state the complete writes.
LEMMA CompleteWriteState ==
    ASSUME QueueInv, NEW c \in Clients, CompleteWrite(c)
    PROVE  /\ op.done \in Item /\ op.done.lane \in Lanes
           /\ state' \in State
           /\ state'.nextSequence = state.nextSequence
           /\ state'.count[op.done.lane] =
                 IF state.count[op.done.lane] = 0 THEN 0 ELSE state.count[op.done.lane] - 1
           /\ \A lane \in Lanes : lane # op.done.lane => state'.count[lane] = state.count[lane]
<1>1. TypeOK /\ op.done \in Item
  BY DEF QueueInv, TypeOK, Op, CompleteReady, CompleteWrite
<1>2. op.done.lane \in Lanes /\ op.done.cursor \in Cursors
  BY <1>1 DEF Item
<1>3. state \in State
  BY <1>1 DEF TypeOK
<1>4. PICK n \in 0 .. MaxRecords :
          n = IF state.count[op.done.lane] = 0 THEN 0 ELSE state.count[op.done.lane] - 1
  BY <1>2, <1>3 DEF State
<1>5. PICK h \in Cursors : h = (op.done.cursor + 1) % Capacity
  BY <1>2, NextIsCursor
<1>6. state' = [state EXCEPT !.count[op.done.lane] = n, !.headCursor[op.done.lane] = h]
  BY <1>4, <1>5 DEF CompleteWrite
<1>7. /\ state'.count = [state.count EXCEPT ![op.done.lane] = n]
      /\ state'.nextSequence = state.nextSequence
  BY <1>3, <1>6 DEF State
<1>8. state' \in State
  <2>1. [state.count EXCEPT ![op.done.lane] = n] \in [Lanes -> 0 .. MaxRecords]
    BY <1>2, <1>3 DEF State
  <2>2. [state.headCursor EXCEPT ![op.done.lane] = h] \in [Lanes -> Cursors]
    BY <1>2, <1>3 DEF State
  <2>3. state' = [nextSequence   |-> state.nextSequence,
                  capacityEvents |-> state.capacityEvents,
                  count          |-> [state.count EXCEPT ![op.done.lane] = n],
                  headCursor     |-> [state.headCursor EXCEPT ![op.done.lane] = h],
                  writeCursor    |-> state.writeCursor]
    BY <1>3, <1>6 DEF State
  <2> QED BY <1>3, <2>1, <2>2, <2>3 DEF State
<1>9. state'.count[op.done.lane] = n
  BY <1>2, <1>3, <1>7 DEF State
<1>10. \A lane \in Lanes : lane # op.done.lane => state'.count[lane] = state.count[lane]
  BY <1>2, <1>3, <1>7 DEF State
<1> QED BY <1>1, <1>2, <1>4, <1>7, <1>8, <1>9, <1>10

\* The state no longer counts the completed record.
LEMMA CompleteWriteInv ==
    ASSUME QueueInv, NEW c \in Clients, CompleteWrite(c)
    PROVE  QueueInv'
<1>1. TypeOK /\ op.result \in Item \cup {NoItem} /\ Return(c, op.result)
  BY DEF QueueInv, TypeOK, Op, CompleteWrite
<1>2. op' = NoOp /\ item' \in [Clients -> Item \cup {NoItem}]
  BY <1>1 DEF Return, TypeOK
<1>3. state' \in State /\ state'.nextSequence = state.nextSequence
  BY CompleteWriteState
<1>4. TypeOK'
  BY <1>1, <1>2, <1>3, Calls DEF TypeOK, CompleteWrite
<1>5. SequencesBounded'
  BY <1>3 DEF QueueInv, SequencesBounded, CompleteWrite
<1> QED BY <1>2, <1>4, <1>5, Calls, QuietCall

\* A client leaves the gate.
LEMMA ReleaseInv ==
    ASSUME QueueInv, NEW c \in Clients, Release(c)
    PROVE  QueueInv'
<1>1. TypeOK /\ op' = NoOp
  BY DEF QueueInv, Release
<1>2. item' \in [Clients -> Item \cup {NoItem}]
  BY <1>1 DEF TypeOK, Release
<1>3. role' \in [Clients -> {"idle", "writer", "sweeper", "down"}]
  BY <1>1 DEF TypeOK, Release
<1>4. TypeOK'
  BY <1>1, <1>2, <1>3, Calls DEF TypeOK, Release
<1> QED BY <1>1, <1>4, Calls, QuietStep DEF Release

\* A writer is done with its item.
LEMMA ForgetInv ==
    ASSUME QueueInv, NEW c \in Clients, Forget(c)
    PROVE  QueueInv'
<1>1. TypeOK'
  BY DEF QueueInv, TypeOK, Forget
<1> QED BY <1>1, OtherStep DEF Forget

\* A process that starts reconciles the queue.
LEMMA EnsureInv ==
    ASSUME QueueInv, NEW c \in Clients, Ensure(c)
    PROVE  QueueInv'
<1>1. op' \in Op /\ op'.phase = "reconcile"
  BY Calls DEF Ensure
<1>2. TypeOK'
  BY <1>1 DEF QueueInv, TypeOK, Ensure, Enter
<1> QED BY <1>1, <1>2, QuietStep DEF Ensure

\* A process dies between two file operations: the call is lost, the files stay.
LEMMA CrashInv ==
    ASSUME QueueInv, NEW c \in Clients, Crash(c)
    PROVE  QueueInv'
<1>1. TypeOK
  BY DEF QueueInv
<1>2. item' \in [Clients -> Item \cup {NoItem}]
  BY <1>1 DEF TypeOK, Crash
<1>3. role' \in [Clients -> {"idle", "writer", "sweeper", "down"}]
  BY <1>1 DEF TypeOK, Crash
<1>4. faults' \in 0 .. MaxFaults
  BY <1>1 DEF TypeOK, Crash
<1>5. CASE holder = c
  <2>1. holder' = NoClient /\ op' = NoOp /\ clean' \in BOOLEAN
    BY <1>1, <1>5 DEF Crash, TypeOK
  <2>2. TypeOK'
    BY <1>1, <1>2, <1>3, <1>4, <2>1, Calls DEF TypeOK, Crash
  <2> QED BY <2>1, <2>2, Calls, QuietStep DEF Crash
<1>6. CASE holder # c
  <2>1. TypeOK'
    BY <1>1, <1>2, <1>3, <1>4, <1>6 DEF TypeOK, Crash
  <2> QED BY <1>6, <2>1, OtherStep DEF Crash
<1> QED BY <1>5, <1>6

\* A file operation raises: the call ends where it is.
LEMMA RaiseInv ==
    ASSUME QueueInv, NEW c \in Clients, Raise(c)
    PROVE  QueueInv'
<1>1. op' \in Op /\ op'.phase = "raised"
  BY Calls DEF Raise
<1>2. faults' \in 0 .. MaxFaults
  BY DEF QueueInv, TypeOK, Raise
<1>3. TypeOK'
  BY <1>1, <1>2 DEF QueueInv, TypeOK, Raise
<1> QED BY <1>1, <1>3, QuietStep DEF Raise

\* reconcile removes a temp file left behind.
LEMMA ReconcileTempInv ==
    ASSUME QueueInv, ReconcileTemp
    PROVE  QueueInv'
<1>1. temp' \subseteq Lanes \X Cursors
  BY DEF QueueInv, TypeOK, ReconcileTemp
<1>2. TypeOK'
  BY <1>1 DEF QueueInv, TypeOK, ReconcileTemp
<1> QED BY <1>2, OtherStep DEF ReconcileTemp

\* reconcile refuses a queue above its limit.
LEMMA ReconcileRefuseInv ==
    ASSUME QueueInv, ReconcileRefuse
    PROVE  QueueInv'
<1>1. op' \in Op /\ op'.phase = "raised"
  BY Calls DEF ReconcileRefuse
<1>2. TypeOK'
  BY <1>1 DEF QueueInv, TypeOK, ReconcileRefuse
<1> QED BY <1>1, <1>2, QuietStep DEF ReconcileRefuse

\* reconcile drops a copy that another outranks.
LEMMA ReconcileDropInv ==
    ASSUME QueueInv, ReconcileDrop
    PROVE  QueueInv'
<1>1. TypeOK /\ op' = op /\ op.phase = "reconcile"
  BY DEF QueueInv, ReconcileDrop
<1>2. PICK p \in Losers : slot' = [slot EXCEPT ![p[1]][p[2]] = Empty]
  BY DEF ReconcileDrop
<1>3. p[1] \in Lanes /\ p[2] \in Cursors
  BY PlaceIsSlot DEF Losers
<1>4. /\ slot' \in [Lanes -> [Cursors -> Record \cup {Empty}]]
      /\ \A l \in Lanes, n \in Cursors : slot'[l][n] \in {slot[l][n], Empty}
  BY <1>1, <1>2, <1>3 DEF TypeOK
<1>5. TypeOK'
  BY <1>1, <1>4 DEF TypeOK, ReconcileDrop
<1>6. SequencesBounded'
  BY <1>4 DEF QueueInv, SequencesBounded, ReconcileDrop
<1> QED BY <1>1, <1>5, <1>6, QuietCall
-----------------------------------------------------------------------------
(***************************************************************************)
(* The rebuilt state and peek.                                             *)
(***************************************************************************)
\* The slot files of a lane are finitely many, and no more than all of them.
LEMMA SlotsFinite ==
    /\ IsFiniteSet(Places) /\ Cardinality(Places) \in Nat
    /\ \A lane \in Lanes :
          /\ IsFiniteSet(Occupied(lane)) /\ Cardinality(Occupied(lane)) \in Nat
          /\ Cardinality(Occupied(lane)) <= Cardinality(Places)
<1>1. IsFiniteSet(Cursors)
  <2>1. 0 \in Int /\ Capacity - 1 \in Int
    OBVIOUS
  <2> QED BY <2>1, FS_Interval DEF Cursors
<1>2. IsFiniteSet(Lanes)
  <2>1. IsFiniteSet({"ready"})
    BY FS_Singleton
  <2>2. IsFiniteSet({"ready"} \cup {"deferred"})
    BY <2>1, FS_AddElement
  <2>3. IsFiniteSet(({"ready"} \cup {"deferred"}) \cup {"held"})
    BY <2>2, FS_AddElement
  <2>4. Lanes = ({"ready"} \cup {"deferred"}) \cup {"held"}
    BY DEF Lanes
  <2> QED BY <2>3, <2>4
<1>3. IsFiniteSet(Lanes \X Cursors)
  BY <1>1, <1>2, FS_Product
<1>4. IsFiniteSet(Places)
  <2>1. Places \in SUBSET (Lanes \X Cursors)
    BY DEF Places
  <2> QED BY <1>3, <2>1, FS_Subset
<1>5. Cardinality(Places) \in Nat
  BY <1>4, FS_CardinalityType
<1>6. ASSUME NEW lane \in Lanes
      PROVE  /\ IsFiniteSet(Occupied(lane)) /\ Cardinality(Occupied(lane)) \in Nat
             /\ Cardinality(Occupied(lane)) <= Cardinality(Places)
  <2>1. Occupied(lane) \in SUBSET Cursors
    BY DEF Occupied
  <2>2. IsFiniteSet(Occupied(lane))
    BY <1>1, <2>1, FS_Subset
  <2>3. PICK f : f = [cursor \in Occupied(lane) |-> <<lane, cursor>>]
    OBVIOUS
  <2>4. f \in Injection(Occupied(lane), Places)
    <3>1. \A cursor \in Occupied(lane) : <<lane, cursor>> \in Places
      BY DEF Occupied, Places
    <3>2. f \in [Occupied(lane) -> Places]
      BY <2>3, <3>1
    <3>3. \A a, b \in Occupied(lane) : f[a] = f[b] => a = b
      BY <2>3
    <3> QED BY <3>2, <3>3 DEF Injection, IsInjective
  <2>5. Cardinality(Occupied(lane)) <= Cardinality(Places)
    BY <1>4, <2>4, FS_Injection
  <2> QED BY <2>2, <2>5, FS_CardinalityType
<1> QED BY <1>4, <1>5, <1>6

\* The first record from the head cursor.
LEMMA FirstFromOccupied ==
    ASSUME NEW lane \in Lanes, NEW head \in Cursors, Occupied(lane) # {}
    PROVE  FirstFrom(lane, head) \in Occupied(lane)
<1> DEFINE D == {(cursor - head) % Capacity : cursor \in Occupied(lane)}
<1>1. \A cursor \in Occupied(lane) : (cursor - head) % Capacity \in Nat
  BY DEF Occupied, Cursors
<1>2. D \in SUBSET Nat /\ D # {}
  BY <1>1
<1>3. PICK d \in D : \A n \in D : d <= n
  BY <1>2, LeastNatural
<1>4. PICK first \in Occupied(lane) : d = (first - head) % Capacity
  BY <1>3
<1>5. \A other \in Occupied(lane) :
         (first - head) % Capacity <= (other - head) % Capacity
  BY <1>3, <1>4
<1> QED BY <1>4, <1>5 DEF FirstFrom

\* Peek returns an item of an occupied slot.
LEMMA VisibleOccupied ==
    ASSUME NEW st \in State, NEW lane \in Lanes
    PROVE  Visible(lane, st) \subseteq Occupied(lane)
<1>1. st.headCursor[lane] \in Cursors
  BY DEF State
<1>2. PICK head \in Cursors : head = st.headCursor[lane]
  BY <1>1
<1>3. Occupied(lane) # {} => FirstFrom(lane, head) \in Occupied(lane)
  BY FirstFromOccupied
<1> QED BY <1>2, <1>3 DEF Visible

\* A sweeper takes a due item, or reconciles when the counts promise more than the
\* slots hold.
LEMMA PeekInv ==
    ASSUME QueueInv, NEW c \in Clients, NEW lane \in Lanes, Peek(c, lane)
    PROVE  QueueInv'
<1>1. TypeOK /\ state \in State
  BY DEF QueueInv, TypeOK
<1>2. /\ role' \in [Clients -> {"idle", "writer", "sweeper", "down"}]
      /\ holder' \in Clients
  BY <1>1 DEF TypeOK, Peek, Enter
<1>3. CASE /\ \E cursor \in Visible(lane, state) :
                 item' = [item EXCEPT ![c] = ItemAt(lane, cursor)]
           /\ UNCHANGED op
  <2>1. PICK cursor \in Visible(lane, state) :
                 item' = [item EXCEPT ![c] = ItemAt(lane, cursor)]
    BY <1>3
  <2>2. cursor \in Cursors /\ slot[lane][cursor] # Empty
    BY <1>1, VisibleOccupied DEF Occupied
  <2>3. ItemAt(lane, cursor) \in Item
    BY <1>1, <2>2, SlotIsRecord
  <2>4. item' \in [Clients -> Item \cup {NoItem}]
    BY <1>1, <2>1, <2>3 DEF TypeOK
  <2>5. TypeOK'
    BY <1>1, <1>2, <1>3, <2>4 DEF TypeOK, Peek
  <2> QED BY <1>3, <2>5, OtherStep DEF Peek
<1>4. CASE /\ op' = [NoOp EXCEPT !.phase = "reconcile", !.lane = lane,
                                 !.peek = lane = "ready"]
           /\ UNCHANGED item
  <2>1. op' \in Op /\ op'.phase = "reconcile"
    <3>1. 0 \in Cursors /\ 0 \in 0 .. Capacity
      BY DEF Cursors
    <3>2. PICK b \in BOOLEAN : b = (lane = "ready")
      OBVIOUS
    <3>3. op' = [NoOp EXCEPT !.phase = "reconcile", !.lane = lane, !.peek = b]
      BY <1>4, <3>2
    <3> QED BY <3>1, <3>3 DEF NoOp, Op, Phases
  <2>2. TypeOK'
    BY <1>1, <1>2, <1>4, <2>1 DEF TypeOK, Peek
  <2> QED BY <2>1, <2>2, QuietStep DEF Peek
<1> QED BY <1>3, <1>4 DEF Peek

\* Every sequence in a slot is a natural number below the bound.
LEMMA SequencesTyped ==
    ASSUME TypeOK, SequencesBounded
    PROVE  \A lane \in Lanes : \A n \in Sequences(lane) : n \in Nat /\ n < MaxSequence
<1> SUFFICES ASSUME NEW lane \in Lanes, NEW cursor \in Occupied(lane)
             PROVE  /\ slot[lane][cursor].sequence \in Nat
                    /\ slot[lane][cursor].sequence < MaxSequence
  BY DEF Sequences
<1>1. cursor \in Cursors /\ slot[lane][cursor] # Empty
  BY DEF Occupied
<1>2. slot[lane][cursor] \in Record
  BY <1>1, SlotIsRecord
<1> QED BY <1>1, <1>2 DEF Record, SequencesBounded

\* The cursors of the first and the last record of a lane.
LEMMA FirstLast ==
    ASSUME TypeOK, SequencesBounded, NEW lane \in Lanes, Occupied(lane) # {}
    PROVE  First(lane) \in Cursors /\ Last(lane) \in Cursors
<1>1. Sequences(lane) \in SUBSET Nat /\ Sequences(lane) \in SUBSET (-1 .. MaxSequence)
  BY SequencesTyped
<1>2. Sequences(lane) # {}
  BY DEF Sequences
<1>3. Min(Sequences(lane)) \in Sequences(lane) /\ Max(Sequences(lane)) \in Sequences(lane)
  BY <1>1, <1>2, MinMax
<1>4. ASSUME NEW n \in Sequences(lane)
      PROVE  LET S == {cursor \in Occupied(lane) : slot[lane][cursor].sequence = n}
             IN  Min(S) \in Cursors /\ Max(S) \in Cursors
  <2> DEFINE S == {cursor \in Occupied(lane) : slot[lane][cursor].sequence = n}
  <2>1. S \in SUBSET Nat /\ S \in SUBSET (-1 .. Capacity) /\ S \in SUBSET Cursors
    BY DEF Occupied, Cursors
  <2>2. S # {}
    BY DEF Sequences
  <2> HIDE DEF S
  <2>3. Min(S) \in S /\ Max(S) \in S
    BY <2>1, <2>2, MinMax
  <2>4. Min(S) \in Cursors /\ Max(S) \in Cursors
    BY <2>1, <2>3
  <2> QED BY <2>4 DEF S
<1> QED BY <1>3, <1>4 DEF First, Last

\* The next sequence is above every sequence in a slot.
LEMMA RebuiltSequence ==
    ASSUME TypeOK, SequencesBounded
    PROVE  /\ Rebuilt.nextSequence \in Nat
           /\ Rebuilt.nextSequence <= MaxSequence
           /\ \A lane \in Lanes : \A n \in Sequences(lane) : n < Rebuilt.nextSequence
<1> DEFINE S == {-1} \cup UNION {Sequences(lane) : lane \in Lanes}
<1>1. \A n \in S : n \in Int /\ -1 <= n /\ n < MaxSequence
  BY SequencesTyped
<1>2. -1 \in S /\ S # {}
  OBVIOUS
<1>3. \A lane \in Lanes : \A n \in Sequences(lane) : n \in S
  OBVIOUS
<1>4. Rebuilt.nextSequence = Max(S) + 1
  BY DEF Rebuilt
<1> HIDE DEF S
<1>5. MaxSequence \in Nat
  OBVIOUS
<1>6. S \in SUBSET (-1 .. MaxSequence)
  BY <1>1, <1>5
<1>7. Max(S) \in S /\ \A n \in S : Max(S) >= n
  BY <1>2, <1>5, <1>6, MinMax
<1>8. PICK m \in Int : m = Max(S) /\ -1 <= m /\ m < MaxSequence /\ \A n \in S : m >= n
  BY <1>1, <1>7
<1>9. \A n \in S : n < m + 1
  BY <1>1, <1>8
<1> QED BY <1>3, <1>4, <1>5, <1>8, <1>9

\* The state reconcile rebuilds is one read_state accepts.
LEMMA RebuiltState ==
    ASSUME TypeOK, SequencesBounded, Cardinality(Places) <= MaxRecords
    PROVE  Rebuilt \in State
<1>1. \A lane \in Lanes : Cardinality(Occupied(lane)) \in 0 .. MaxRecords
  BY SlotsFinite
<1>2. \A lane \in Lanes : (IF Occupied(lane) = {} THEN 0 ELSE First(lane)) \in Cursors
  BY FirstLast DEF Cursors
<1>3. \A lane \in Lanes :
         (IF Occupied(lane) = {} THEN 0 ELSE (Last(lane) + 1) % Capacity) \in Cursors
  <2>1. 0 \in Cursors
    BY DEF Cursors
  <2> QED BY <2>1, FirstLast, NextIsCursor
<1>4. Rebuilt.nextSequence \in Nat
  BY RebuiltSequence
<1>5. state.capacityEvents \in BOOLEAN
  BY DEF TypeOK, State
<1>6. PICK n : n = Max({-1} \cup UNION {Sequences(lane) : lane \in Lanes}) + 1
  OBVIOUS
<1>7. n \in Nat
  BY <1>4, <1>6 DEF Rebuilt
<1>8. PICK count \in [Lanes -> 0 .. MaxRecords] :
         count = [lane \in Lanes |-> Cardinality(Occupied(lane))]
  BY <1>1
<1>9. PICK head \in [Lanes -> Cursors] :
         head = [lane \in Lanes |-> IF Occupied(lane) = {} THEN 0 ELSE First(lane)]
  BY <1>2
<1>10. PICK write \in [Lanes -> Cursors] :
         write = [lane \in Lanes |-> IF Occupied(lane) = {} THEN 0
                                       ELSE (Last(lane) + 1) % Capacity]
  BY <1>3
<1>11. Rebuilt = [nextSequence |-> n, capacityEvents |-> state.capacityEvents,
                  count |-> count, headCursor |-> head, writeCursor |-> write]
  BY <1>6, <1>8, <1>9, <1>10 DEF Rebuilt
<1> QED BY <1>5, <1>7, <1>11 DEF State

\* reconcile writes the rebuilt state.
LEMMA ReconcileWriteInv ==
    ASSUME QueueInv, NEW c \in Clients, ReconcileWrite(c)
    PROVE  QueueInv' /\ op' = NoOp
<1>1. TypeOK /\ SequencesBounded /\ state' = Rebuilt
  BY DEF QueueInv, ReconcileWrite
<1>2. Rebuilt \in State
  BY <1>1, RebuiltState DEF ReconcileWrite
<1>3. op.lane \in Lanes /\ op.result \in Item \cup {NoItem}
  BY <1>1 DEF TypeOK, Op
<1>4. op' = NoOp /\ item' \in [Clients -> Item \cup {NoItem}]
  <2>1. CASE \E cursor \in Visible(op.lane, Rebuilt) :
                /\ item' = [item EXCEPT ![c] = ItemAt(op.lane, cursor)]
                /\ op' = NoOp
    <3>1. PICK cursor \in Visible(op.lane, Rebuilt) :
                /\ item' = [item EXCEPT ![c] = ItemAt(op.lane, cursor)]
                /\ op' = NoOp
      BY <2>1
    <3>2. cursor \in Cursors /\ slot[op.lane][cursor] # Empty
      BY <1>2, <1>3, VisibleOccupied DEF Occupied
    <3>3. ItemAt(op.lane, cursor) \in Item
      BY <1>1, <1>3, <3>2, SlotIsRecord
    <3> QED BY <1>1, <3>1, <3>3 DEF TypeOK
  <2>2. CASE Return(c, op.result)
    BY <1>1, <1>3, <2>2, Returned
  <2> QED BY <2>1, <2>2 DEF ReconcileWrite
<1>5. role' \in [Clients -> {"idle", "writer", "sweeper", "down"}]
  BY <1>1 DEF TypeOK, ReconcileWrite
<1>6. TypeOK'
  BY <1>1, <1>2, <1>4, <1>5, Calls DEF TypeOK, ReconcileWrite
<1>7. SequencesBounded'
  BY <1>1, RebuiltSequence DEF SequencesBounded, ReconcileWrite
<1> QED BY <1>4, <1>6, <1>7, Calls, QuietCall
-----------------------------------------------------------------------------
\* Every step keeps the invariant.
LEMMA QueueStep == QueueInv /\ [Next]_vars => QueueInv'
<1> SUFFICES ASSUME QueueInv, [Next]_vars PROVE QueueInv'
  OBVIOUS
<1>1. CASE UNCHANGED vars
  <2>1. TypeOK'
    BY <1>1 DEF QueueInv, TypeOK, vars
  <2> QED BY <1>1, <2>1, OtherStep DEF vars
<1>2. CASE FileStep
  BY <1>2, EnqueueCreateInv, EnqueueLinkInv, EnqueueUnlinkTempInv, CompleteMissingInv,
     CompleteUnlinkInv, CompleteRefuseInv, ReconcileTempInv, ReconcileRefuseInv,
     ReconcileDropInv DEF FileStep
<1>3. ASSUME NEW c \in Clients, ClientStep(c)
      PROVE  QueueInv'
  BY <1>3, EnqueueIntentInv, EnqueueKnownInv, MoveInv, PeekInv, CompleteInv, ReleaseInv,
     ForgetInv, EnsureInv, EnqueueWriteInv, CompleteWriteInv, ReconcileWriteInv, CrashInv,
     RaiseInv DEF ClientStep
<1> QED BY <1>1, <1>2, <1>3 DEF Next

\* The invariant of the calls in progress holds in every state.
THEOREM QueueInvariant == Spec => []QueueInv
BY InitQueueInv, QueueStep, PTL DEF Spec

\* enqueue, complete and reconcile never write a state that read_state would
\* refuse, whatever calls, stale items and faults come together.
THEOREM StateAlwaysReadable == Spec => []TypeOK
<1>1. QueueInv => TypeOK
  BY DEF QueueInv
<1> QED BY <1>1, QueueInvariant, PTL
-----------------------------------------------------------------------------
(***************************************************************************)
(* Which steps take slot files away.                                       *)
(***************************************************************************)
\* Every other step leaves the slots alone or fills an empty one.
LEMMA SlotsLeft ==
    ASSUME QueueInv, [Next]_vars, ~CompleteUnlink, ~ReconcileDrop, NEW id \in Ids
    PROVE  Copies(id) \subseteq Copies(id)'
<1>1. CASE slot' = slot
  BY <1>1 DEF Copies, Places
<1>2. CASE slot' # slot
  <2>1. EnqueueLink /\ slot[op.lane][op.cursor] = Empty
    <3>1. ASSUME NEW c \in Clients, ClientStep(c) PROVE slot' = slot
      BY <3>1 DEF ClientStep, EnqueueIntent, EnqueueKnown, Move, Peek, Complete, Release,
            Forget, Ensure, EnqueueWrite, CompleteWrite, ReconcileWrite, Crash, Raise
    <3>2. CASE FileStep
      BY <1>2, <3>2 DEF FileStep, EnqueueCreate, EnqueueLink, EnqueueUnlinkTemp,
            CompleteMissing, CompleteRefuse, ReconcileTemp, ReconcileRefuse
    <3>3. CASE UNCHANGED vars
      BY <1>2, <3>3 DEF vars
    <3> QED BY <1>2, <3>1, <3>2, <3>3 DEF Next
  <2>2. slot' = [slot EXCEPT ![op.lane][op.cursor] = op.record]
    BY <1>2, <2>1 DEF EnqueueLink
  <2>3. \A l \in Lanes, n \in Cursors : slot[l][n] # Empty => slot'[l][n] = slot[l][n]
    BY <2>1, <2>2 DEF QueueInv, TypeOK
  <2> QED BY <2>3 DEF Copies, Places
<1> QED BY <1>1, <1>2

\* A copy that reconcile drops leaves another copy behind, of no lower
\* generation.
LEMMA DropLeavesNewer ==
    ASSUME QueueInv, ReconcileDrop, NEW id \in Ids, NEW p \in Copies(id), p \notin Copies(id)'
    PROVE  \E q \in Copies(id)' : slot[q[1]][q[2]].generation >= slot[p[1]][p[2]].generation
<1>1. PICK d \in Losers : slot' = [slot EXCEPT ![d[1]][d[2]] = Empty]
  BY DEF ReconcileDrop
<1>2. d \in Places /\ d[1] \in Lanes /\ d[2] \in Cursors /\ slot[d[1]][d[2]] # Empty
  BY PlaceIsSlot DEF Losers
<1>3. /\ p \in Places /\ p[1] \in Lanes /\ p[2] \in Cursors /\ slot[p[1]][p[2]] # Empty
      /\ slot[p[1]][p[2]].id = id
  BY PlaceIsSlot DEF Copies
<1>4. \A l \in Lanes, n \in Cursors : l # d[1] \/ n # d[2] => slot'[l][n] = slot[l][n]
  BY <1>1, <1>2 DEF QueueInv, TypeOK
<1>5. p[1] = d[1] /\ p[2] = d[2]
  <2> SUFFICES ASSUME p[1] # d[1] \/ p[2] # d[2] PROVE FALSE
    OBVIOUS
  <2>1. slot'[p[1]][p[2]] = slot[p[1]][p[2]]
    BY <1>3, <1>4
  <2> QED BY <1>3, <2>1 DEF Copies, Places
<1>6. PICK q \in Copies(id) : Outranks(q, d)
  BY <1>3, <1>5 DEF Losers
<1>7. /\ q \in Places /\ q[1] \in Lanes /\ q[2] \in Cursors /\ slot[q[1]][q[2]] # Empty
      /\ slot[q[1]][q[2]].id = id
  BY PlaceIsSlot DEF Copies
<1>8. slot[q[1]][q[2]] \in Record /\ slot[d[1]][d[2]] \in Record
  BY <1>2, <1>7, SlotIsRecord DEF QueueInv
<1>9. /\ slot[q[1]][q[2]].generation \in Nat /\ slot[d[1]][d[2]].generation \in Nat
      /\ slot[q[1]][q[2]].sequence \in Nat /\ slot[d[1]][d[2]].sequence \in Nat
  BY <1>8 DEF Record
<1>10. slot[q[1]][q[2]].generation >= slot[d[1]][d[2]].generation
  BY <1>6, <1>9 DEF Outranks, Rank
<1>11. q[1] # d[1] \/ q[2] # d[2]
  <2> SUFFICES ASSUME q[1] = d[1], q[2] = d[2] PROVE FALSE
    OBVIOUS
  <2>1. lane_priority[d[1]] \in Nat /\ d[2] \in Nat
    BY <1>2 DEF lane_priority, Lanes, Cursors
  <2> QED BY <1>6, <1>9, <2>1 DEF Outranks, Rank
<1>12. q \in Copies(id)'
  <2>1. slot'[q[1]][q[2]] = slot[q[1]][q[2]]
    BY <1>4, <1>7, <1>11
  <2> QED BY <1>7, <2>1 DEF Copies, Places
<1> QED BY <1>5, <1>10, <1>12

\* The second half of a move leaves the next generation behind.
LEMMA UnlinkLeavesNext ==
    ASSUME QueueInv, CompleteUnlink, NEW id \in Ids, Copies(id) # {}, Copies(id)' = {}
    PROVE  op.phase = "complete" /\ op.done.id = id /\ op.result = NoItem
<1>1. /\ op.phase = "complete" /\ Owns(op.done)
      /\ slot' = [slot EXCEPT ![op.done.lane][op.done.cursor] = Empty]
  BY DEF CompleteUnlink
<1>2. op.done \in Item /\ op.done.lane \in Lanes /\ op.done.cursor \in Cursors
  <2>1. op.done \in Item
    BY <1>1 DEF QueueInv, TypeOK, Op, CompleteReady
  <2> QED BY <2>1 DEF Item
<1>3. \A l \in Lanes, n \in Cursors :
         l # op.done.lane \/ n # op.done.cursor => slot'[l][n] = slot[l][n]
  BY <1>1, <1>2 DEF QueueInv, TypeOK
<1>4. ASSUME NEW l \in Lanes, NEW n \in Cursors, slot[l][n] # Empty, slot[l][n].id = id
      PROVE  l = op.done.lane /\ n = op.done.cursor
  <2> SUFFICES ASSUME l # op.done.lane \/ n # op.done.cursor PROVE FALSE
    OBVIOUS
  <2>1. slot'[l][n] = slot[l][n]
    BY <1>3
  <2>2. <<l, n>> \in Copies(id)'
    BY <1>4, <2>1 DEF Copies, Places
  <2> QED BY <2>2
<1>5. op.done.id = id
  <2>1. PICK p \in Copies(id) : TRUE
    OBVIOUS
  <2>2. /\ p[1] \in Lanes /\ p[2] \in Cursors /\ slot[p[1]][p[2]] # Empty
        /\ slot[p[1]][p[2]].id = id
    BY PlaceIsSlot DEF Copies
  <2>3. p[1] = op.done.lane /\ p[2] = op.done.cursor
    BY <1>4, <2>2
  <2> QED BY <1>1, <2>2, <2>3 DEF Owns, ItemAt
<1>6. op.result = NoItem
  <2> SUFFICES ASSUME op.result # NoItem PROVE FALSE
    OBVIOUS
  <2>1. Owns(op.result) /\ Supersedes(op.result, op.done)
    BY <1>1 DEF QueueInv, NextIsQueued
  <2>2. op.result \in Item
    BY DEF QueueInv, TypeOK, Op
  <2>3. op.result.lane \in Lanes /\ op.result.cursor \in Cursors /\ op.done.generation \in Nat
    BY <1>2, <2>2 DEF Item
  <2>4. op.result.lane = op.done.lane /\ op.result.cursor = op.done.cursor
    BY <1>4, <1>5, <2>1, <2>3 DEF Owns, ItemAt, Supersedes
  <2>5. op.result.generation = op.done.generation
    BY <1>1, <2>1, <2>4 DEF Owns, ItemAt
  <2> QED BY <2>1, <2>3, <2>5 DEF Supersedes
<1> QED BY <1>1, <1>5, <1>6

\* The last copy of a record goes only through a complete of its own that is
\* not the second half of a move.
THEOREM NoRecordIsDropped == Spec => NothingDropped
<1>1. ASSUME QueueInv, [Next]_vars, NEW id \in Ids, Copies(id) # {}, Copies(id)' = {}
      PROVE  op.phase = "complete" /\ op.done.id = id /\ op.result = NoItem
  <2>1. CASE CompleteUnlink
    BY <1>1, <2>1, UnlinkLeavesNext
  <2>2. CASE ReconcileDrop
    <3>1. PICK p \in Copies(id) : TRUE
      BY <1>1
    <3>2. \E q \in Copies(id)' : TRUE
      BY <1>1, <2>2, <3>1, DropLeavesNewer
    <3> QED BY <1>1, <3>2
  <2>3. CASE ~CompleteUnlink /\ ~ReconcileDrop
    BY <1>1, <2>3, SlotsLeft
  <2> QED BY <2>1, <2>2, <2>3
<1>2. QueueInv /\ [Next]_vars =>
        [\A id \in Ids :
          Copies(id) # {} /\ Copies(id)' = {} =>
            /\ op.phase = "complete" /\ op.done.id = id
            /\ op.result = NoItem]_vars
  BY <1>1
<1> QED BY <1>2, QueueInvariant, PTL DEF Spec, NothingDropped

\* A reconcile leaves the copy of the highest generation of every record.
THEOREM NewestCopySurvives == Spec => NewestSurvives
<1>1. ASSUME QueueInv, [Next]_vars, op.phase = "reconcile", NEW id \in Ids,
             NEW p \in Copies(id) \ Copies(id)'
      PROVE  \E q \in Copies(id)' :
                slot[q[1]][q[2]].generation >= slot[p[1]][p[2]].generation
  <2>1. ~CompleteUnlink
    BY <1>1 DEF CompleteUnlink
  <2>2. ReconcileDrop
    BY <1>1, <2>1, SlotsLeft
  <2> QED BY <1>1, <2>2, DropLeavesNewer
<1>2. QueueInv /\ [Next]_vars =>
        [op.phase = "reconcile" =>
         \A id \in Ids : \A p \in Copies(id) \ Copies(id)' :
            \E q \in Copies(id)' :
               slot[q[1]][q[2]].generation >= slot[p[1]][p[2]].generation]_vars
  BY <1>1
<1> QED BY <1>2, QueueInvariant, PTL DEF Spec, NewestSurvives
-----------------------------------------------------------------------------
(***************************************************************************)
(* State and slot files agree as long as no call is cut short.             *)
(***************************************************************************)
\* The phases in which the state is not behind the slot files.
Quiet == {"idle", "raised", "create", "complete", "reconcile"}

Settled ==
    /\ temp = {}
    /\ \A lane \in Lanes : /\ Cardinality(Occupied(lane)) = state.count[lane]
                           /\ \A n \in Sequences(lane) : n < state.nextSequence

\* In a phase with no write half done, agreement is that of files and counts.
LEMMA QuietAgrees ==
    /\ op.phase \in Quiet => (Agrees <=> Settled)
    /\ op'.phase \in Quiet => (Agrees' <=> Settled')
BY DEF Quiet, Agrees, Settled, TempAgrees, CountAgrees, SequencesAgree, Linked, Unlinked

\* A step between two such phases that leaves slots, temps and counters alone.
LEMMA QuietAgreeStep ==
    ASSUME AgreeInv, op.phase \in Quiet \ {"reconcile"}, op'.phase \in Quiet,
           UNCHANGED <<slot, temp>>, state'.count = state.count,
           state'.nextSequence = state.nextSequence, clean' => clean
    PROVE  AgreeInv'
<1> SUFFICES ASSUME clean PROVE Agrees'
  BY DEF AgreeInv
<1>1. Settled
  BY QuietAgrees DEF AgreeInv
<1>2. Settled'
  BY <1>1 DEF Settled, Occupied, Sequences
<1> QED BY <1>2, QuietAgrees

\* A step that leaves files, state and call alone.
LEMMA OtherAgreeStep ==
    ASSUME AgreeInv, UNCHANGED <<slot, temp, state, op>>, clean' => clean
    PROVE  AgreeInv'
BY DEF AgreeInv, Agrees, TempAgrees, CountAgrees, SequencesAgree, Linked, Unlinked,
       Occupied, Sequences, Places

\* An enqueue that begins has written nothing yet.
LEMMA EnqueueStartAgrees ==
    ASSUME QueueInv, AgreeInv, NEW c, NEW lane, NEW id, NEW generation, NEW old, NEW existing,
           op.phase = "idle", EnqueueStart(c, lane, id, generation, old, existing),
           UNCHANGED <<slot, temp, clean>>
    PROVE  AgreeInv'
<1>1. op'.phase \in {"idle", "complete", "raised", "create"}
  <2>1. ASSUME NEW at, Enqueued(c, at, old) PROVE op'.phase \in {"idle", "complete"}
    <3>1. CASE op' = NoOp
      BY <3>1 DEF NoOp
    <3>2. CASE op' = [NoOp EXCEPT !.phase = "complete", !.done = old, !.result = at]
      BY <3>2 DEF NoOp
    <3> QED BY <2>1, <3>1, <3>2 DEF Enqueued, Return
  <2> QED BY <2>1 DEF EnqueueStart, NoOp, Raised
<1>2. state'.count = state.count /\ state'.nextSequence = state.nextSequence
  BY CapacityEventState DEF EnqueueStart, QueueInv
<1> QED BY <1>1, <1>2, QuietAgreeStep DEF Quiet

\* What filling and emptying a slot does to the lanes.
LEMMA SlotFilled ==
    ASSUME TypeOK, NEW lane \in Lanes, NEW cursor \in Cursors, NEW r \in Record,
           slot[lane][cursor] = Empty, slot' = [slot EXCEPT ![lane][cursor] = r]
    PROVE  /\ Cardinality(Occupied(lane)') = Cardinality(Occupied(lane)) + 1
           /\ Sequences(lane)' \subseteq Sequences(lane) \cup {r.sequence}
           /\ \A l \in Lanes \ {lane} : /\ Occupied(l)' = Occupied(l)
                                        /\ Sequences(l)' = Sequences(l)
<1>1. /\ slot'[lane][cursor] = r
      /\ \A l \in Lanes, n \in Cursors : l # lane \/ n # cursor => slot'[l][n] = slot[l][n]
  BY DEF TypeOK
<1>2. r # Empty
  BY ValuesAssumption
<1>3. Occupied(lane)' = Occupied(lane) \cup {cursor} /\ cursor \notin Occupied(lane)
  BY <1>1, <1>2 DEF Occupied
<1>4. Cardinality(Occupied(lane) \cup {cursor}) = Cardinality(Occupied(lane)) + 1
  BY <1>3, SlotsFinite, FS_AddElement
<1>5. Sequences(lane)' \subseteq Sequences(lane) \cup {r.sequence}
  BY <1>1, <1>3 DEF Sequences, Occupied
<1>6. ASSUME NEW l \in Lanes, l # lane
      PROVE  Occupied(l)' = Occupied(l) /\ Sequences(l)' = Sequences(l)
  <2>1. \A n \in Cursors : slot'[l][n] = slot[l][n]
    BY <1>1, <1>6
  <2> QED BY <2>1 DEF Occupied, Sequences
<1> QED BY <1>3, <1>4, <1>5, <1>6

\* Emptying a slot takes one record from its lane and none from the others.
LEMMA SlotEmptied ==
    ASSUME TypeOK, NEW lane \in Lanes, NEW cursor \in Cursors,
           slot[lane][cursor] # Empty, slot' = [slot EXCEPT ![lane][cursor] = Empty]
    PROVE  /\ Cardinality(Occupied(lane)') = Cardinality(Occupied(lane)) - 1
           /\ Sequences(lane)' \subseteq Sequences(lane)
           /\ \A l \in Lanes \ {lane} : /\ Occupied(l)' = Occupied(l)
                                        /\ Sequences(l)' = Sequences(l)
           /\ Places' \subseteq Places
<1>1. /\ slot'[lane][cursor] = Empty
      /\ \A l \in Lanes, n \in Cursors : l # lane \/ n # cursor => slot'[l][n] = slot[l][n]
  BY DEF TypeOK
<1>2. Occupied(lane)' = Occupied(lane) \ {cursor} /\ cursor \in Occupied(lane)
  BY <1>1 DEF Occupied
<1>3. Cardinality(Occupied(lane) \ {cursor}) = Cardinality(Occupied(lane)) - 1
  BY <1>2, SlotsFinite, FS_RemoveElement
<1>4. Sequences(lane)' \subseteq Sequences(lane)
  BY <1>1, <1>2 DEF Sequences, Occupied
<1>5. ASSUME NEW l \in Lanes, l # lane
      PROVE  Occupied(l)' = Occupied(l) /\ Sequences(l)' = Sequences(l)
  <2>1. \A n \in Cursors : slot'[l][n] = slot[l][n]
    BY <1>1, <1>5
  <2> QED BY <2>1 DEF Occupied, Sequences
<1>6. Places' \subseteq Places
  BY <1>1 DEF Places
<1> QED BY <1>2, <1>3, <1>4, <1>5, <1>6

\* With the temp file written, the counts still fit the slots.
LEMMA EnqueueCreateAgrees ==
    ASSUME QueueInv, AgreeInv, EnqueueCreate
    PROVE  AgreeInv'
<1>1. TypeOK /\ op.phase = "create" /\ UNCHANGED <<slot, clean>>
  BY DEF QueueInv, EnqueueCreate
<1>2. CASE NextCursor /\ UNCHANGED temp
  <2>1. op'.phase \in {"raised", "create"}
    BY <1>1, <1>2, Calls DEF NextCursor, TypeOK, Op
  <2>2. state'.count = state.count /\ state'.nextSequence = state.nextSequence
    BY <1>1, <1>2, CapacityEventState DEF NextCursor
  <2> QED BY <1>1, <1>2, <2>1, <2>2, QuietAgreeStep DEF Quiet
<1>3. CASE /\ temp' = temp \cup {<<op.lane, op.cursor>>}
           /\ op' = [op EXCEPT !.phase = "link"]
           /\ UNCHANGED state
  <2> SUFFICES ASSUME clean PROVE Agrees'
    BY <1>1 DEF AgreeInv
  <2>1. Settled
    BY <1>1, QuietAgrees DEF AgreeInv, Quiet
  <2>2. op'.phase = "link" /\ op'.lane = op.lane /\ op'.cursor = op.cursor
    BY <1>1, <1>3, NextPhase DEF TypeOK, Phases
  <2> QED BY <1>1, <1>3, <2>1, <2>2
       DEF Settled, Agrees, TempAgrees, CountAgrees, SequencesAgree, Linked, Unlinked,
           Occupied, Sequences
<1> QED BY <1>2, <1>3 DEF EnqueueCreate

\* With the slot linked, the counts are behind by this record.
LEMMA EnqueueLinkAgrees ==
    ASSUME QueueInv, AgreeInv, EnqueueLink
    PROVE  AgreeInv'
<1>1. /\ TypeOK /\ op.phase = "link" /\ op.lane \in Lanes /\ op.cursor \in Cursors
      /\ op.record \in Record /\ op.record.sequence = state.nextSequence
      /\ clean' = clean
  BY DEF QueueInv, TypeOK, Op, EnqueueLink, EnqueueReady, Enqueuing
<1> SUFFICES ASSUME clean PROVE Agrees'
  BY <1>1 DEF AgreeInv
<1>2. /\ temp = {<<op.lane, op.cursor>>}
      /\ \A l \in Lanes : /\ Cardinality(Occupied(l)) = state.count[l]
                          /\ \A n \in Sequences(l) : n < state.nextSequence
  BY <1>1 DEF AgreeInv, Agrees, TempAgrees, CountAgrees, SequencesAgree, Linked, Unlinked
<1>3. CASE temp' = temp \ {<<op.lane, op.cursor>>} /\ NextCursor /\ UNCHANGED slot
  <2>1. op'.phase \in {"raised", "create"}
    BY <1>1, <1>3, Calls DEF NextCursor, TypeOK, Op
  <2>2. state'.count = state.count /\ state'.nextSequence = state.nextSequence
    BY <1>1, <1>3, CapacityEventState DEF NextCursor
  <2>3. Settled'
    BY <1>2, <1>3, <2>2 DEF Settled, Occupied, Sequences
  <2> QED BY <2>1, <2>3, QuietAgrees DEF Quiet
<1>4. CASE /\ slot[op.lane][op.cursor] = Empty
           /\ slot' = [slot EXCEPT ![op.lane][op.cursor] = op.record]
           /\ op' = [op EXCEPT !.phase = "unlinkTemp"]
           /\ UNCHANGED <<temp, state>>
  <2>1. op'.phase = "unlinkTemp" /\ op'.lane = op.lane /\ op'.cursor = op.cursor
    BY <1>1, <1>4, NextPhase DEF TypeOK, Phases
  <2>2. PICK lane \in Lanes, cursor \in Cursors, r \in Record :
            lane = op.lane /\ cursor = op.cursor /\ r = op.record
    BY <1>1
  <2>3. slot[lane][cursor] = Empty /\ slot' = [slot EXCEPT ![lane][cursor] = r]
    BY <1>4, <2>2
  <2>4. /\ Cardinality(Occupied(lane)') = Cardinality(Occupied(lane)) + 1
        /\ Sequences(lane)' \subseteq Sequences(lane) \cup {r.sequence}
        /\ \A l \in Lanes \ {lane} : /\ Occupied(l)' = Occupied(l)
                                     /\ Sequences(l)' = Sequences(l)
    BY <1>1, <2>3, SlotFilled
  <2>5. TempAgrees'
    BY <1>2, <1>4, <2>1 DEF TempAgrees
  <2>6. \A l \in Lanes : CountAgrees(l)'
    BY <1>2, <1>4, <2>1, <2>2, <2>4 DEF CountAgrees, Linked, Unlinked
  <2>7. \A l \in Lanes : SequencesAgree(l)'
    <3> SUFFICES ASSUME NEW l \in Lanes, NEW n \in Sequences(l)'
                 PROVE  n < state'.nextSequence \/ (Linked(l)' /\ n = state'.nextSequence)
      BY DEF SequencesAgree
    <3>1. CASE n \in Sequences(l)
      BY <1>2, <1>4, <3>1
    <3>2. CASE n \notin Sequences(l)
      <4>1. l = lane /\ n = r.sequence
        BY <2>4, <3>2
      <4> QED BY <1>1, <1>4, <2>1, <2>2, <4>1 DEF Linked
    <3> QED BY <3>1, <3>2
  <2> QED BY <2>5, <2>6, <2>7 DEF Agrees
<1> QED BY <1>3, <1>4 DEF EnqueueLink

\* With the temp file gone, the counts are behind by this record.
LEMMA EnqueueUnlinkTempAgrees ==
    ASSUME QueueInv, AgreeInv, EnqueueUnlinkTemp
    PROVE  AgreeInv'
<1>1. TypeOK /\ op.phase = "unlinkTemp" /\ UNCHANGED <<slot, state, clean>>
  BY DEF QueueInv, EnqueueUnlinkTemp
<1>2. op'.phase = "enqueued" /\ op'.lane = op.lane /\ op'.cursor = op.cursor
  BY <1>1, NextPhase DEF TypeOK, Phases, EnqueueUnlinkTemp
<1> SUFFICES ASSUME clean PROVE Agrees'
  BY <1>1 DEF AgreeInv
<1>3. Agrees
  BY <1>1 DEF AgreeInv
<1>4. TempAgrees'
  BY <1>1, <1>2, <1>3 DEF Agrees, TempAgrees, EnqueueUnlinkTemp
<1>5. ASSUME NEW l \in Lanes PROVE CountAgrees(l)' /\ SequencesAgree(l)'
  <2>1. Occupied(l)' = Occupied(l) /\ Sequences(l)' = Sequences(l)
    BY <1>1 DEF Occupied, Sequences
  <2>2. Linked(l)' = Linked(l) /\ ~Unlinked(l)' /\ ~Unlinked(l)
    BY <1>1, <1>2 DEF Linked, Unlinked
  <2>3. CountAgrees(l) /\ SequencesAgree(l)
    BY <1>3 DEF Agrees
  <2> QED BY <1>1, <2>1, <2>2, <2>3 DEF CountAgrees, SequencesAgree
<1> QED BY <1>4, <1>5 DEF Agrees

\* With the state written, counts and slots are level again.
LEMMA EnqueueWriteAgrees ==
    ASSUME QueueInv, AgreeInv, NEW c \in Clients, EnqueueWrite(c)
    PROVE  AgreeInv'
<1>1. /\ TypeOK /\ op.phase = "enqueued" /\ op.lane \in Lanes
      /\ UNCHANGED <<slot, temp, clean>>
  BY DEF QueueInv, TypeOK, Op, EnqueueWrite
<1>2. op'.phase \in Quiet
  <2>1. CASE op' = NoOp
    BY <2>1 DEF NoOp, Quiet
  <2>2. CASE op' = [NoOp EXCEPT !.phase = "complete", !.done = op.done,
                                !.result = ItemAt(op.lane, op.cursor)]
    BY <2>2 DEF NoOp, Quiet
  <2> QED BY <2>1, <2>2 DEF EnqueueWrite, Enqueued, Return
<1> SUFFICES ASSUME clean PROVE Agrees'
  BY <1>1 DEF AgreeInv
<1>3. Agrees
  BY <1>1 DEF AgreeInv
<1>4. /\ state'.nextSequence = state.nextSequence + 1
      /\ state'.count[op.lane] = state.count[op.lane] + 1
      /\ \A lane \in Lanes : lane # op.lane => state'.count[lane] = state.count[lane]
  BY EnqueueWriteState
<1>5. temp' = {}
  BY <1>1, <1>3 DEF Agrees, TempAgrees
<1>6. \A lane \in Lanes : Cardinality(Occupied(lane)) = state'.count[lane]
  BY <1>1, <1>3, <1>4 DEF Agrees, CountAgrees, Linked, Unlinked
<1>7. \A lane \in Lanes : \A n \in Sequences(lane) : n < state'.nextSequence
  <2>1. state.nextSequence \in Nat /\ \A lane \in Lanes : \A n \in Sequences(lane) : n \in Nat
    BY SequencesTyped DEF QueueInv, TypeOK, State
  <2> QED BY <1>3, <1>4, <2>1 DEF Agrees, SequencesAgree
<1>8. Settled'
  BY <1>1, <1>5, <1>6, <1>7 DEF Settled, Occupied, Sequences
<1> QED BY <1>2, <1>8, QuietAgrees

\* With the slot emptied, the counts are ahead by its record.
LEMMA CompleteUnlinkAgrees ==
    ASSUME QueueInv, AgreeInv, CompleteUnlink
    PROVE  AgreeInv'
<1>1. /\ TypeOK /\ op.phase = "complete" /\ Owns(op.done) /\ op.done \in Item
      /\ UNCHANGED <<temp, state, clean>>
  BY DEF QueueInv, TypeOK, Op, CompleteReady, CompleteUnlink
<1>2. PICK lane \in Lanes, cursor \in Cursors : lane = op.done.lane /\ cursor = op.done.cursor
  BY <1>1 DEF Item
<1>3. op'.phase = "completed" /\ op'.done = op.done
  BY <1>1, NextPhase DEF TypeOK, Phases, CompleteUnlink
<1> SUFFICES ASSUME clean PROVE Agrees'
  BY <1>1 DEF AgreeInv
<1>4. Settled
  BY <1>1, QuietAgrees DEF AgreeInv, Quiet
<1>5. slot[lane][cursor] # Empty /\ slot' = [slot EXCEPT ![lane][cursor] = Empty]
  BY <1>1, <1>2 DEF CompleteUnlink, Owns
<1>6. /\ Cardinality(Occupied(lane)') = Cardinality(Occupied(lane)) - 1
      /\ Sequences(lane)' \subseteq Sequences(lane)
      /\ \A l \in Lanes \ {lane} : /\ Occupied(l)' = Occupied(l)
                                   /\ Sequences(l)' = Sequences(l)
  BY <1>1, <1>5, SlotEmptied
<1>7. TempAgrees'
  BY <1>1, <1>3, <1>4 DEF Settled, TempAgrees
<1>8. \A l \in Lanes : CountAgrees(l)'
  BY <1>1, <1>2, <1>3, <1>4, <1>6 DEF Settled, CountAgrees, Linked, Unlinked
<1>9. \A l \in Lanes : SequencesAgree(l)'
  BY <1>1, <1>4, <1>6 DEF Settled, SequencesAgree
<1> QED BY <1>7, <1>8, <1>9 DEF Agrees

\* With the state written, counts and slots are level again.
LEMMA CompleteWriteAgrees ==
    ASSUME QueueInv, AgreeInv, NEW c \in Clients, CompleteWrite(c)
    PROVE  AgreeInv'
<1>1. /\ TypeOK /\ op.phase = "completed" /\ op' = NoOp
      /\ UNCHANGED <<slot, temp, clean>>
  BY DEF QueueInv, CompleteWrite, Return
<1> SUFFICES ASSUME clean PROVE Agrees'
  BY <1>1 DEF AgreeInv
<1>2. Agrees
  BY <1>1 DEF AgreeInv
<1>3. /\ op.done.lane \in Lanes
      /\ state'.nextSequence = state.nextSequence
      /\ state'.count[op.done.lane] =
            IF state.count[op.done.lane] = 0 THEN 0 ELSE state.count[op.done.lane] - 1
      /\ \A lane \in Lanes : lane # op.done.lane => state'.count[lane] = state.count[lane]
  BY CompleteWriteState
<1>4. \A lane \in Lanes : Cardinality(Occupied(lane)) = state'.count[lane]
  <2>1. \A lane \in Lanes : Cardinality(Occupied(lane)) \in Nat
    BY SlotsFinite
  <2>2. \A lane \in Lanes : state.count[lane] \in Nat
    BY <1>1 DEF TypeOK, State
  <2> QED BY <1>1, <1>2, <1>3, <2>1, <2>2 DEF Agrees, CountAgrees, Linked, Unlinked
<1>5. \A lane \in Lanes : \A n \in Sequences(lane) : n < state'.nextSequence
  BY <1>1, <1>2, <1>3 DEF Agrees, SequencesAgree, Linked
<1>6. temp' = {}
  BY <1>1, <1>2 DEF Agrees, TempAgrees
<1>7. Settled'
  BY <1>1, <1>4, <1>5, <1>6 DEF Settled, Occupied, Sequences
<1>8. op'.phase \in Quiet
  BY <1>1, Calls DEF Quiet
<1> QED BY <1>7, <1>8, QuietAgrees

\* Until it writes the state, reconcile leaves at most max_records places.
LEMMA ReconcileAgrees ==
    ASSUME QueueInv, AgreeInv,
           ReconcileTemp \/ ReconcileRefuse \/ ReconcileDrop
    PROVE  AgreeInv'
<1>1. op.phase = "reconcile" /\ clean' = clean
  BY DEF ReconcileTemp, ReconcileRefuse, ReconcileDrop
<1> SUFFICES ASSUME clean
             PROVE  Agrees' \/ (op'.phase = "reconcile" /\ Cardinality(Places)' <= MaxRecords)
  BY <1>1 DEF AgreeInv
<1>2. Agrees <=> Settled
  BY <1>1, QuietAgrees DEF Quiet
<1>3. CASE ReconcileTemp
  <2>1. ~Agrees
    BY <1>2, <1>3 DEF ReconcileTemp, Settled
  <2>2. Places' = Places
    BY <1>3 DEF ReconcileTemp, Places
  <2> QED BY <1>1, <1>3, <2>1, <2>2 DEF AgreeInv, ReconcileTemp
<1>4. CASE ReconcileRefuse
  <2>1. Settled
    BY <1>2, <1>4, SlotsFinite DEF AgreeInv, ReconcileRefuse
  <2>2. Settled'
    BY <1>4, <2>1 DEF Settled, ReconcileRefuse, Occupied, Sequences
  <2>3. op'.phase \in Quiet
    BY <1>4, Calls DEF ReconcileRefuse, Quiet
  <2> QED BY <2>2, <2>3, QuietAgrees
<1>5. CASE ReconcileDrop
  <2>1. PICK p \in Losers : slot' = [slot EXCEPT ![p[1]][p[2]] = Empty]
    BY <1>5 DEF ReconcileDrop
  <2>2. PICK lane \in Lanes, cursor \in Cursors :
            lane = p[1] /\ cursor = p[2] /\ slot[lane][cursor] # Empty
    BY PlaceIsSlot DEF Losers
  <2>3. Places' \subseteq Places
    BY <2>1, <2>2, SlotEmptied DEF QueueInv
  <2>4. Cardinality(Places') <= Cardinality(Places) /\ Cardinality(Places') \in Nat
    BY <2>3, SlotsFinite, FS_Subset, FS_CardinalityType
  <2> QED BY <1>1, <1>5, <2>4, SlotsFinite DEF ReconcileDrop
<1> QED BY <1>3, <1>4, <1>5

\* The rebuilt state agrees with the slots it was built from.
LEMMA ReconcileWriteAgrees ==
    ASSUME QueueInv, NEW c \in Clients, ReconcileWrite(c)
    PROVE  AgreeInv'
<1>1. TypeOK /\ SequencesBounded /\ state' = Rebuilt /\ temp = {} /\ UNCHANGED <<slot, temp>>
  BY DEF QueueInv, ReconcileWrite
<1>2. \A lane \in Lanes : Rebuilt.count[lane] = Cardinality(Occupied(lane))
  BY DEF Rebuilt
<1>3. \A lane \in Lanes : \A n \in Sequences(lane) : n < Rebuilt.nextSequence
  BY <1>1, RebuiltSequence
<1>4. Settled'
  BY <1>1, <1>2, <1>3 DEF Settled, Occupied, Sequences
<1>5. op'.phase \in Quiet
  BY ReconcileWriteInv, Calls DEF Quiet
<1> QED BY <1>4, <1>5, QuietAgrees DEF AgreeInv

\* A process that dies inside a call leaves a queue that is not known to agree.
LEMMA CrashAgrees ==
    ASSUME AgreeInv, NEW c \in Clients, Crash(c) \/ Raise(c)
    PROVE  AgreeInv'
<1>1. CASE Raise(c)
  BY <1>1 DEF Raise, AgreeInv
<1>2. CASE Crash(c) /\ holder # c
  BY <1>2, OtherAgreeStep DEF Crash
<1>3. CASE Crash(c) /\ holder = c /\ op.phase \in {"idle", "raised"}
  <2>1. op'.phase \in Quiet
    BY <1>3, Calls DEF Crash, Quiet
  <2> QED BY <1>3, <2>1, QuietAgreeStep DEF Crash, Quiet
<1>4. CASE Crash(c) /\ holder = c /\ op.phase \notin {"idle", "raised"}
  BY <1>4 DEF Crash, AgreeInv
<1> QED BY <1>1, <1>2, <1>3, <1>4

\* The calls and returns that touch neither slots nor state.
LEMMA CallAgrees ==
    ASSUME AgreeInv, NEW c \in Clients,
           Complete(c) \/ Release(c) \/ Ensure(c)
    PROVE  AgreeInv'
<1>1. UNCHANGED <<slot, temp, state, clean>>
  BY DEF Complete, Release, Ensure
<1>2. op.phase \in Quiet \ {"reconcile"}
  BY DEF Complete, Release, Ensure, Enter, Quiet
<1>3. op'.phase \in Quiet
  <2>1. CASE Complete(c)
    BY <2>1 DEF Complete, Quiet, NoOp
  <2>2. CASE Release(c)
    BY <2>2 DEF Release, Quiet, NoOp
  <2>3. CASE Ensure(c)
    BY <2>3 DEF Ensure, Quiet, NoOp
  <2> QED BY <2>1, <2>2, <2>3
<1> QED BY <1>1, <1>2, <1>3, QuietAgreeStep

\* Taking an item changes neither slots nor counts.
LEMMA PeekAgrees ==
    ASSUME AgreeInv, NEW c \in Clients, NEW lane \in Lanes, Peek(c, lane)
    PROVE  AgreeInv'
<1>1. UNCHANGED <<slot, temp, state, clean>> /\ op.phase = "idle"
  BY DEF Peek, Enter
<1>2. op'.phase \in Quiet
  <2>1. CASE op' = op
    BY <1>1, <2>1 DEF Quiet
  <2>2. CASE op' = [NoOp EXCEPT !.phase = "reconcile", !.lane = lane,
                                !.peek = lane = "ready"]
    BY <2>2 DEF NoOp, Quiet
  <2> QED BY <2>1, <2>2 DEF Peek
<1> QED BY <1>1, <1>2, QuietAgreeStep DEF Quiet

\* An empty queue agrees with its state.
LEMMA InitAgrees == Init => AgreeInv
<1> SUFFICES ASSUME Init PROVE Agrees
  BY DEF AgreeInv
<1>1. \A lane \in Lanes : Occupied(lane) = {}
  BY DEF Init, Occupied
<1>2. \A lane \in Lanes : Sequences(lane) = {} /\ Cardinality(Occupied(lane)) = 0
  BY <1>1, FS_EmptySet DEF Sequences
<1>3. \A lane \in Lanes : state.count[lane] = 0
  BY DEF Init, initial_state
<1>4. Settled
  BY <1>2, <1>3 DEF Init, Settled
<1>5. op.phase \in Quiet
  BY Calls DEF Init, Quiet
<1> QED BY <1>4, <1>5, QuietAgrees

\* Every step keeps state and files in agreement.
LEMMA AgreeStep == QueueInv /\ AgreeInv /\ [Next]_vars => AgreeInv'
<1> SUFFICES ASSUME QueueInv, AgreeInv, [Next]_vars PROVE AgreeInv'
  OBVIOUS
<1>1. CASE UNCHANGED vars
  BY <1>1, OtherAgreeStep DEF vars
<1>2. CASE FileStep
  <2>1. CASE CompleteMissing
    <3>1. op.phase \in Quiet \ {"reconcile"} /\ op'.phase \in Quiet
      BY <2>1, NextPhase DEF CompleteMissing, Quiet, QueueInv, TypeOK, Phases
    <3> QED BY <2>1, <3>1, QuietAgreeStep DEF CompleteMissing
  <2>2. CASE CompleteRefuse
    <3>1. op.phase \in Quiet \ {"reconcile"} /\ op'.phase \in Quiet
      BY <2>2, Calls DEF CompleteRefuse, Quiet
    <3> QED BY <2>2, <3>1, QuietAgreeStep DEF CompleteRefuse
  <2> QED BY <1>2, <2>1, <2>2, EnqueueCreateAgrees, EnqueueLinkAgrees,
        EnqueueUnlinkTempAgrees, CompleteUnlinkAgrees, ReconcileAgrees DEF FileStep
<1>3. ASSUME NEW c \in Clients, ClientStep(c) PROVE AgreeInv'
  <2>1. ASSUME NEW id \in Ids, EnqueueIntent(c, id) \/ EnqueueKnown(c, id)
        PROVE  AgreeInv'
    <3>1. op.phase = "idle" /\ UNCHANGED <<slot, temp, clean>>
      BY <2>1 DEF EnqueueIntent, EnqueueKnown, Enter
    <3>2. PICK existing : EnqueueStart(c, "ready", id, 0, NoItem, existing)
      BY <2>1 DEF EnqueueIntent, EnqueueKnown
    <3> QED BY <3>1, <3>2, EnqueueStartAgrees
  <2>2. ASSUME NEW lane \in Lanes, Move(c, lane)
        PROVE  AgreeInv'
    <3>1. op.phase = "idle" /\ UNCHANGED <<slot, temp, clean>>
      BY <2>2 DEF Move, Enter
    <3>2. PICK existing, id, generation, old :
              EnqueueStart(c, lane, id, generation, old, existing)
      BY <2>2 DEF Move
    <3> QED BY <3>1, <3>2, EnqueueStartAgrees
  <2>3. CASE Forget(c)
    BY <2>3, OtherAgreeStep DEF Forget
  <2> QED BY <1>3, <2>1, <2>2, <2>3, PeekAgrees, CallAgrees, EnqueueWriteAgrees,
        CompleteWriteAgrees, ReconcileWriteAgrees, CrashAgrees DEF ClientStep
<1> QED BY <1>1, <1>2, <1>3 DEF Next

\* Whatever stale items writers complete or move, the counts, the sequences
\* and the temp files agree with the slot files between calls as long as no
\* call was cut short since the last reconcile.
THEOREM StateAgreesBetweenCalls == Spec => []StateAgrees
<1>1. QueueInv /\ AgreeInv => StateAgrees
  <2> SUFFICES ASSUME AgreeInv, clean, op.phase = "idle" PROVE Settled
    BY DEF StateAgrees, Settled
  <2> QED BY QuietAgrees DEF AgreeInv, Quiet
<1> QED BY <1>1, InitAgrees, AgreeStep, QueueInvariant, PTL DEF Spec
=============================================================================
