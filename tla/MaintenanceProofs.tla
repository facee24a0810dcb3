-------------------------- MODULE MaintenanceProofs --------------------------
(***************************************************************************)
(* The safety of the maintenance of a worker's files for any number of     *)
(* builds, parses, sweeps and crashes: what a live execution works with     *)
(* stays, what the database lists goes in named ways only, and whatever is  *)
(* left behind is recorded.                                                *)
(***************************************************************************)
EXTENDS Maintenance, NaturalBounds, TLAPS

USE MaintenanceAssumption

(***************************************************************************)
(* The inductive invariant.                                                *)
(***************************************************************************)
\* The execution has published nothing yet.
Early(e) == pc[e] \in {"start", "claimed", "working", "copying"}

\* The parts of the state TypeOK leaves open.
Shapes ==
    /\ intent \in [Execs -> SUBSET Copies]
    /\ owned \in [Builds -> SUBSET Copies]
    /\ sweep \in [phase : {"idle", "reading", "workspaces", "data"},
                  active : SUBSET Execs, missed : SUBSET Execs, rows : SUBSET Builds,
                  old : SUBSET ({"file", "quarantine", "workspace"} \X Execs),
                  todo : SUBSET Copies]
    /\ old \subseteq {"file", "quarantine", "workspace"} \X Execs

\* Generations and sequences have a bound, so every record has a copy of
\* highest rank.
GoodQueue(q) ==
    /\ q \subseteq Copies
    /\ \E b \in Nat : \A r \in q : r.generation <= b /\ r.sequence <= b

\* The sweep of the workspaces looks at their records only.
TodoKind ==
    sweep.phase = "workspaces" => \A r \in sweep.todo : r.id[1] = "workspace"

\* Who published the file under a key, or the one in a quarantine.
OwnKeys ==
    /\ \A e \in Builds : {canon[e], moved[e]} \subseteq {e, Nobody}
    /\ canon[Normalized] \in Parses \cup {Nobody}
    /\ \A e \in Parses : moved[e] \in Parses \cup {Nobody}

\* An execution that was never claimed has left nothing behind.
Untouched(e) ==
    /\ pc[e] \in {"start", "end"}
    /\ stage[e] = "none"
    /\ canon[Key(e)] # e /\ \A x \in Execs : moved[x] # e
    /\ e \in Builds => ws[e] = "none"
    /\ <<"file", e>> \notin old /\ <<"workspace", e>> \notin old

\* What the lease of an execution says about it.
Leases ==
    \A e \in Execs :
       /\ lease[e] = "queued" => Untouched(e)
       /\ lease[e] = "closed" => pc[e] \in {"published", "settled", "end", "dead"}
       /\ e \in rows => lease[e] = "closed"

\* Before it is published a build has no object, and nothing binds the intent
\* of the publication to a file.
Unpublished ==
    \A e \in Execs : Early(e) =>
       /\ e \in Builds => canon[e] = Nobody /\ moved[e] = Nobody
       /\ \A r \in CopiesIn(queue, Publication(e)) : ~r.bound

\* What the snapshot of a sweep is good for while the database moves on: an
\* execution it does not show alive is over or has no file that was old when
\* the snapshot was taken, and so has an artifact it does not list.  It has
\* missed only leases that have run out on some clock.
Snapshot ==
    /\ sweep.phase # "idle" =>
         \A e \in Execs :
            /\ e \in sweep.missed => lease[e] \in {"late", "lost", "closed"}
            /\ \/ e \in sweep.active \cup sweep.missed
               \/ lease[e] \in {"lost", "closed"}
               \/ <<"file", e>> \notin sweep.old /\ <<"workspace", e>> \notin sweep.old
    /\ sweep.phase \in {"workspaces", "data"} =>
         \A e \in rows :
            \/ e \in sweep.rows \cup sweep.active \cup sweep.missed
            \/ <<"file", e>> \notin sweep.old

\* The object of a row that retention is cleaning is gone, or has been moved back
\* out of a quarantine.
Cleaned == \A e \in cleaning : e \in rows /\ (canon[e] = e => e \in restored)

MaintenanceInv ==
    /\ TypeOK /\ Shapes /\ GoodQueue(queue)
    /\ TodoKind /\ OwnKeys /\ Leases /\ Unpublished /\ Snapshot /\ LiveKept
-----------------------------------------------------------------------------
(***************************************************************************)
(* The calls of the queue.                                                 *)
(***************************************************************************)
RecordIds == {Publication(e) : e \in Execs} \cup {Quarantine(e) : e \in Execs}
                \cup {Workspace(e) : e \in Builds}

\* The fields of a copy.
LEMMA CopyFields ==
    \A r \in Copies : /\ r.id \in RecordIds /\ r.generation \in Nat /\ r.lane \in Lanes
                      /\ r.bound \in BOOLEAN /\ r.sequence \in Nat
BY DEF Copies, RecordIds

\* A new copy of a record.
LEMMA CopyGood ==
    ASSUME NEW q, GoodQueue(q), NEW id \in RecordIds, NEW g \in Nat, NEW lane \in Lanes,
           NEW bound \in BOOLEAN
    PROVE  \A c : c = Copy(q, id, g, lane, bound) =>
              /\ c \in Copies /\ GoodQueue(q \cup {c})
              /\ c.id = id /\ c.generation = g /\ c.lane = lane /\ c.bound = bound
<1> SUFFICES ASSUME NEW c, c = Copy(q, id, g, lane, bound)
             PROVE  /\ c \in Copies /\ GoodQueue(q \cup {c})
                    /\ c.id = id /\ c.generation = g /\ c.lane = lane /\ c.bound = bound
  OBVIOUS
<1> DEFINE S == {0} \cup {r.sequence : r \in CopiesIn(q, id)}
<1>1. PICK b \in Nat : \A r \in q : r.generation <= b /\ r.sequence <= b
  BY DEF GoodQueue
<1>2. \A r \in q : r \in Copies /\ r.generation \in Nat /\ r.sequence \in Nat
  BY CopyFields DEF GoodQueue
<1>3. S \in SUBSET (-1 .. b) /\ S # {} /\ \A n \in S : n \in Nat /\ n <= b
  BY <1>1, <1>2 DEF CopiesIn
<1>5. c = [id |-> id, generation |-> g, lane |-> lane, bound |-> bound,
           sequence |-> 1 + Max(S)]
  BY DEF Copy
<1> HIDE DEF S
<1>6. Max(S) \in S
  BY <1>3, MinMax
<1>7. PICK m \in Nat : m = Max(S) /\ m <= b
  BY <1>3, <1>6
<1>8. 1 + m \in Nat
  OBVIOUS
<1>9. /\ c \in Copies /\ c.id = id /\ c.generation = g /\ c.lane = lane
      /\ c.bound = bound /\ c.sequence = 1 + m
  BY <1>5, <1>7, <1>8 DEF Copies, RecordIds
<1>10. b + 1 + g \in Nat /\ \A r \in q \cup {c} : r.generation <= b + 1 + g /\ r.sequence <= b + 1 + g
  BY <1>1, <1>2, <1>7, <1>9
<1>11. GoodQueue(q \cup {c})
  BY <1>2, <1>9, <1>10 DEF GoodQueue
<1> QED BY <1>9, <1>11

\* A reconcile keeps a copy of every record.
LEMMA ReconciledKeeps ==
    ASSUME NEW q, GoodQueue(q), NEW root
    PROVE  /\ Reconciled(q, root) \subseteq q
           /\ \A id : CopiesIn(q, id) # {} => CopiesIn(Reconciled(q, root), id) # {}
<1>1. PICK b \in Nat : \A r \in q : r.generation <= b /\ r.sequence <= b
  BY DEF GoodQueue
<1>2. \A r \in q : r \in Copies /\ r.generation \in Nat /\ r.sequence \in Nat /\ r.lane \in Lanes
  BY CopyFields DEF GoodQueue
<1>3. \A lane \in Lanes : lane_priority[lane] \in 0 .. 2
  BY DEF Lanes, lane_priority
<1>4. ASSUME NEW id, CopiesIn(q, id) # {}
      PROVE  CopiesIn(Reconciled(q, root), id) # {}
  <2> DEFINE C == CopiesIn(q, id)
             G == {r.generation : r \in C}
  <2>1. G \in SUBSET (-1 .. b) /\ G # {}
    BY <1>1, <1>2, <1>4 DEF CopiesIn
  <2>2. PICK g \in G : \A n \in G : g >= n
    BY <2>1, GreatestBelow
  <2> DEFINE C1 == {r \in C : r.generation = g}
             S == {r.sequence : r \in C1}
  <2>3. S \in SUBSET (-1 .. b) /\ S # {}
    BY <1>1, <1>2, <2>2 DEF CopiesIn
  <2>4. PICK s \in S : \A n \in S : s >= n
    BY <2>3, GreatestBelow
  <2> DEFINE C2 == {r \in C1 : r.sequence = s}
             P == {lane_priority[r.lane] : r \in C2}
  <2>5. P \in SUBSET (-1 .. 2) /\ P # {}
    BY <1>2, <1>3, <2>4 DEF CopiesIn
  <2>6. PICK p \in P : \A n \in P : p >= n
    BY <2>5, GreatestBelow
  <2>7. PICK m \in C2 : p = lane_priority[m.lane]
    BY <2>6
  <2>8. m \in q /\ m.id = id /\ m.generation = g /\ m.sequence = s
    BY DEF CopiesIn
  <2>9. ASSUME NEW x \in C PROVE ~Outranks(x, m)
    <3>1. x.generation <= g
      BY <2>2
    <3>2. x.generation = g => x.sequence <= s
      BY <2>4
    <3>3. x.generation = g /\ x.sequence = s => lane_priority[x.lane] <= p
      BY <2>6
    <3>4. x \in q /\ g \in Int /\ s \in Int /\ lane_priority[x.lane] \in Int /\ p \in Int
      BY <1>2, <1>3, <2>1, <2>3, <2>5 DEF CopiesIn
    <3>5. x.generation \in Int /\ x.sequence \in Int
      BY <1>2, <3>4
    <3> QED BY <2>7, <2>8, <3>1, <3>2, <3>3, <3>4, <3>5 DEF Outranks
  <2>10. m \in Reconciled(q, root)
    BY <2>8, <2>9 DEF Reconciled
  <2> QED BY <2>8, <2>10 DEF CopiesIn
<1> QED BY <1>4 DEF Reconciled

\* The next generation of the item is in the queue.
HasNext(q, it) == \E r \in q : r.id = it.id /\ r.generation = it.generation + 1

\* The second queue has a copy of every record of the first but one.
KeepsOthers(q, p, id) == \A i \in RecordIds \ {id} : CopiesIn(q, i) # {} => CopiesIn(p, i) # {}
KeepsAll(q, p) == \A i \in RecordIds : CopiesIn(q, i) # {} => CopiesIn(p, i) # {}

\* Dropping copies leaves a good queue.
LEMMA FewerCopies ==
    ASSUME NEW q, GoodQueue(q), NEW p, p \subseteq q
    PROVE  GoodQueue(p)
BY DEF GoodQueue

\* A queue that only grows keeps every record.
LEMMA MoreCopies ==
    ASSUME NEW q, NEW p, q \subseteq p
    PROVE  KeepsAll(q, p)
BY DEF KeepsAll, CopiesIn

\* A new intent.
LEMMA EnqueueGood ==
    ASSUME NEW q, GoodQueue(q), NEW id \in RecordIds
    PROVE  \A first : first = Copy(q, id, 0, "ready", FALSE) =>
              /\ first \in Copies /\ first.id = id /\ ~first.bound
              /\ GoodQueue(q \cup {first})
<1>1. PICK g \in Nat, lane \in Lanes, bound \in BOOLEAN :
         g = 0 /\ lane = "ready" /\ bound = FALSE
  BY DEF Lanes
<1>2. \A c : c = Copy(q, id, g, lane, bound) =>
         c \in Copies /\ GoodQueue(q \cup {c}) /\ c.id = id /\ c.bound = bound
  BY CopyGood
<1> QED BY <1>1, <1>2

\* The first half of a move.
LEMMA MoveEnqueueGood ==
    ASSUME NEW q, GoodQueue(q), NEW it \in Copies, NEW lane \in Lanes, NEW bound \in BOOLEAN
    PROVE  \A p : p = MoveEnqueue(q, it, lane, bound) =>
              /\ GoodQueue(p) /\ q \subseteq p
              /\ \E r \in p : /\ r.id = it.id /\ r.lane = lane
                              /\ r.generation = it.generation + 1
              /\ HasNext(p, it)
              /\ \A r \in p \ q : r.id = it.id /\ r.bound = bound
<1> SUFFICES ASSUME NEW p, p = MoveEnqueue(q, it, lane, bound)
             PROVE  /\ GoodQueue(p) /\ q \subseteq p
                    /\ \E r \in p : /\ r.id = it.id /\ r.lane = lane
                                    /\ r.generation = it.generation + 1
                    /\ \A r \in p \ q : r.id = it.id /\ r.bound = bound
  BY DEF HasNext
<1>1. CASE \E r \in CopiesIn(q, it.id) : r.lane = lane /\ r.generation = it.generation + 1
  <2>1. p = q
    BY <1>1 DEF MoveEnqueue
  <2> QED BY <1>1, <2>1 DEF CopiesIn
<1>2. CASE ~\E r \in CopiesIn(q, it.id) : r.lane = lane /\ r.generation = it.generation + 1
  <2>1. PICK id \in RecordIds, g \in Nat : id = it.id /\ g = it.generation + 1
    BY CopyFields
  <2>2. PICK c : c = Copy(q, id, g, lane, bound)
    OBVIOUS
  <2>3. /\ GoodQueue(q \cup {c}) /\ c.id = id /\ c.generation = g
        /\ c.lane = lane /\ c.bound = bound
    BY <2>2, CopyGood
  <2>4. p = q \cup {c}
    BY <1>2, <2>1, <2>2 DEF MoveEnqueue
  <2> QED BY <2>1, <2>3, <2>4
<1> QED BY <1>1, <1>2

\* The move that binds an intent.
Bind(q, it) == MoveEnqueue(q, it, "ready", TRUE)

\* Binding an intent to its file leaves the next generation in the ready lane.
LEMMA BindGood ==
    ASSUME NEW q, GoodQueue(q), NEW it \in Copies
    PROVE  \A p : p = Bind(q, it) =>
              /\ GoodQueue(p) /\ q \subseteq p
              /\ \E r \in p : /\ r.id = it.id /\ r.lane = "ready"
                              /\ r.generation = it.generation + 1
              /\ HasNext(p, it)
              /\ \A r \in p \ q : r.id = it.id
<1>1. PICK lane \in Lanes, bound \in BOOLEAN : lane = "ready" /\ bound = TRUE
  BY DEF Lanes
<1>2. \A p : p = MoveEnqueue(q, it, lane, bound) =>
              /\ GoodQueue(p) /\ q \subseteq p
              /\ \E r \in p : /\ r.id = it.id /\ r.lane = lane
                              /\ r.generation = it.generation + 1
              /\ HasNext(p, it)
              /\ \A r \in p \ q : r.id = it.id
  BY MoveEnqueueGood
<1> QED BY <1>1, <1>2 DEF Bind

\* A complete, and the second half of a move.
LEMMA CompleteGood ==
    ASSUME NEW q, GoodQueue(q), NEW it \in Copies
    PROVE  \A p : p = CompleteItem(q, it) =>
              /\ GoodQueue(p) /\ p \subseteq q
              /\ KeepsOthers(q, p, it.id)
              /\ HasNext(q, it) => KeepsAll(q, p)
<1> SUFFICES ASSUME NEW p, p = CompleteItem(q, it)
             PROVE  /\ GoodQueue(p) /\ p \subseteq q
                    /\ KeepsOthers(q, p, it.id)
                    /\ HasNext(q, it) => KeepsAll(q, p)
  OBVIOUS
<1>1. CASE it \in q
  <2>1. p = q \ {it}
    BY <1>1 DEF CompleteItem
  <2>2. GoodQueue(p) /\ p \subseteq q
    BY <2>1, FewerCopies
  <2>3. KeepsOthers(q, p, it.id)
    BY <2>1 DEF KeepsOthers, CopiesIn
  <2>4. HasNext(q, it) => CopiesIn(p, it.id) # {}
    <3>1. it.generation \in Nat
      BY CopyFields
    <3> QED BY <2>1, <3>1 DEF HasNext, CopiesIn
  <2> QED BY <2>2, <2>3, <2>4 DEF KeepsOthers, KeepsAll
<1>2. CASE it \notin q
  <2>1. PICK root : root = Root(it.id)
    OBVIOUS
  <2>2. p = Reconciled(q, root)
    BY <1>2, <2>1 DEF CompleteItem
  <2>3. p \subseteq q /\ \A id : CopiesIn(q, id) # {} => CopiesIn(p, id) # {}
    BY <2>2, ReconciledKeeps
  <2> QED BY <2>3, FewerCopies DEF KeepsOthers, KeepsAll
<1> QED BY <1>1, <1>2

\* A whole move.
LEMMA MoveGood ==
    ASSUME NEW q, GoodQueue(q), NEW it \in Copies, NEW lane \in Lanes, NEW bound \in BOOLEAN
    PROVE  \A p : p = MoveItem(q, it, lane, bound) =>
              /\ GoodQueue(p) /\ KeepsAll(q, p)
              /\ \E r \in p : r.id = it.id
              /\ \A r \in p \ q : r.id = it.id /\ r.bound = bound
<1> SUFFICES ASSUME NEW p, p = MoveItem(q, it, lane, bound)
             PROVE  /\ GoodQueue(p) /\ KeepsAll(q, p)
                    /\ \E r \in p : r.id = it.id
                    /\ \A r \in p \ q : r.id = it.id /\ r.bound = bound
  OBVIOUS
<1>1. PICK q1 : q1 = MoveEnqueue(q, it, lane, bound)
  OBVIOUS
<1>2. /\ GoodQueue(q1) /\ q \subseteq q1 /\ HasNext(q1, it)
      /\ \A r \in q1 \ q : r.id = it.id /\ r.bound = bound
  BY <1>1, MoveEnqueueGood
<1>3. p = CompleteItem(q1, it)
  BY <1>1 DEF MoveItem
<1>4. GoodQueue(p) /\ p \subseteq q1 /\ KeepsAll(q1, p)
  BY <1>2, <1>3, CompleteGood
<1>5. it.id \in RecordIds
  BY CopyFields
<1>6. CopiesIn(p, it.id) # {}
  BY <1>2, <1>4, <1>5 DEF KeepsAll, HasNext, CopiesIn
<1>7. KeepsAll(q, p)
  BY <1>2, <1>4, MoreCopies DEF KeepsAll
<1> QED BY <1>2, <1>4, <1>6, <1>7 DEF CopiesIn
-----------------------------------------------------------------------------
(***************************************************************************)
(* A step of one worker: it changes what belongs to its execution only, so *)
(* most of the invariant follows for all of them at once.                  *)
(***************************************************************************)
Working == {"claimed", "working", "copying", "published", "settled"}

OwnStep(e) ==
    /\ pc[e] \in Working
    /\ pc'[e] \notin {"start", "claimed"}
    /\ pc[e] = "settled" => pc'[e] \in {"settled", "end", "dead"}
    /\ pc[e] = "published" => pc'[e] \in {"settled", "dead"}
    /\ ~Early(e) => canon'[Key(e)] \in {canon[Key(e)], Nobody}
    /\ Early(e)' => Early(e) /\ UNCHANGED <<canon, moved>>
    /\ \A x \in Execs \ {e} : pc'[x] = pc[x] /\ stage'[x] = stage[x] /\ moved'[x] = moved[x]
    /\ \A x \in Builds \ {e} : ws'[x] = ws[x]
    /\ \A k \in Keys \ {Key(e)} : canon'[k] = canon[k]
    /\ canon'[Key(e)] \in {canon[Key(e)], e, Nobody}
    /\ moved'[e] \in {moved[e], canon[Key(e)], Nobody}
    /\ old' \subseteq old
    /\ UNCHANGED <<lease, rows, cleaning, sweep>>

\* What the step has to leave behind for its own execution.
OwnKept(e) ==
    lease[e] = "live" =>
       /\ e \in Builds /\ pc'[e] \in {"working", "copying", "published"} => ws'[e] = "dir"
       /\ pc'[e] = "copying" => stage'[e] = "marked"
       /\ e \in Builds /\ pc'[e] = "published" => canon'[e] = e

\* The new copies are bound only for the publication of a worker that is past
\* it.
OwnCopies(e) ==
    \A r \in queue' \ queue : r.bound =>
       \A x \in Execs : r.id = Publication(x) => x = e /\ ~Early(e)'

\* Keys and executions.
LEMMA KeyFacts ==
    /\ \A e \in Builds : Key(e) = e /\ e \in Execs /\ e \in Keys
    /\ \A e \in Parses : Key(e) = Normalized /\ e \in Execs /\ e \notin Builds
    /\ \A e \in Execs : Key(e) \in Keys /\ e # Nobody /\ e # Normalized
    /\ Normalized \in Keys
BY DEF Key, Keys, Execs

\* A step of one worker keeps the invariant if it keeps the part about its own
\* execution.
LEMMA OwnStepKeeps ==
    ASSUME MaintenanceInv, NEW e \in Execs, OwnStep(e), OwnKept(e), OwnCopies(e),
           TypeOK', Shapes', GoodQueue(queue')
    PROVE  MaintenanceInv'
<1> USE DEF MaintenanceInv
<1>1. pc[e] \in Working /\ lease[e] # "queued"
  BY DEF OwnStep, Leases, Untouched, Working
<1>2. TodoKind'
  BY DEF OwnStep, TodoKind
<1>3. OwnKeys'
  <2>1. ASSUME NEW x \in Builds PROVE {canon'[x], moved'[x]} \subseteq {x, Nobody}
    <3>1. CASE x = e
      BY <3>1, KeyFacts DEF OwnStep, OwnKeys
    <3>2. CASE x # e
      <4>1. x \in Keys \ {Key(e)}
        BY <3>2, KeyFacts DEF Execs
      <4> QED BY <3>2, <4>1, KeyFacts DEF OwnStep, OwnKeys
    <3> QED BY <3>1, <3>2
  <2>2. canon'[Normalized] \in Parses \cup {Nobody}
    <3>1. CASE e \in Parses
      BY <3>1, KeyFacts DEF OwnStep, OwnKeys
    <3>2. CASE e \notin Parses
      <4>1. Normalized \in Keys \ {Key(e)}
        BY <3>2, KeyFacts DEF Execs
      <4> QED BY <4>1 DEF OwnStep, OwnKeys
    <3> QED BY <3>1, <3>2
  <2>3. ASSUME NEW x \in Parses PROVE moved'[x] \in Parses \cup {Nobody}
    <3>1. CASE x = e
      BY <3>1, KeyFacts DEF OwnStep, OwnKeys
    <3>2. CASE x # e
      BY <3>2, KeyFacts DEF OwnStep, OwnKeys
    <3> QED BY <3>1, <3>2
  <2> QED BY <2>1, <2>2, <2>3 DEF OwnKeys
<1>4. Leases'
  <2>1. ASSUME NEW x \in Execs, lease'[x] = "queued" PROVE Untouched(x)'
    <3>1. x # e /\ lease[x] = "queued"
      BY <1>1, <2>1 DEF OwnStep
    <3>2. Untouched(x)
      BY <3>1 DEF Leases
    <3>3. canon[Key(e)] # x
      <4>1. CASE Key(e) = Key(x)
        BY <3>2, <4>1 DEF Untouched
      <4>2. CASE e \in Builds
        BY <3>1, <4>2, KeyFacts DEF OwnKeys
      <4>3. CASE e \in Parses /\ x \in Builds
        BY <4>3, KeyFacts DEF OwnKeys, Execs
      <4> QED BY <4>1, <4>2, <4>3, KeyFacts DEF Execs
    <3>4. canon'[Key(x)] # x
      <4>1. CASE Key(x) = Key(e)
        BY <3>1, <3>3, <4>1, KeyFacts DEF OwnStep
      <4>2. CASE Key(x) # Key(e)
        BY <3>2, <4>2, KeyFacts DEF OwnStep, Untouched
      <4> QED BY <4>1, <4>2
    <3>5. \A y \in Execs : moved'[y] # x
      BY <3>2, <3>3, KeyFacts DEF OwnStep, Untouched
    <3>6. pc'[x] = pc[x] /\ stage'[x] = stage[x] /\ (x \in Builds => ws'[x] = ws[x])
      BY <3>1 DEF OwnStep
    <3>7. <<"file", x>> \notin old' /\ <<"workspace", x>> \notin old'
      BY <3>2 DEF OwnStep, Untouched
    <3> QED BY <3>2, <3>4, <3>5, <3>6, <3>7 DEF Untouched
  <2>2. ASSUME NEW x \in Execs, lease'[x] = "closed"
        PROVE  pc'[x] \in {"published", "settled", "end", "dead"}
    <3>1. pc[x] \in {"published", "settled", "end", "dead"}
      BY <2>2 DEF OwnStep, Leases
    <3> QED BY <1>1, <3>1 DEF OwnStep, Working
  <2>3. ASSUME NEW x \in Execs, x \in rows' PROVE lease'[x] = "closed"
    BY <2>3 DEF OwnStep, Leases
  <2> QED BY <2>1, <2>2, <2>3 DEF Leases
<1>5. Unpublished'
  <2> SUFFICES ASSUME NEW x \in Execs, Early(x)'
               PROVE  /\ x \in Builds => canon'[x] = Nobody /\ moved'[x] = Nobody
                      /\ \A r \in queue' : r.id = Publication(x) => ~r.bound
    BY DEF Unpublished, CopiesIn
  <2>1. Early(x)
    BY DEF OwnStep, Early
  <2>2. x \in Builds => canon'[x] = Nobody /\ moved'[x] = Nobody
    <3>1. CASE x = e
      BY <2>1, <3>1 DEF OwnStep, Unpublished
    <3>2. CASE x # e
      <4>1. x \in Builds => x \in Keys \ {Key(e)}
        BY <3>2, KeyFacts DEF Execs
      <4> QED BY <2>1, <3>2, <4>1 DEF OwnStep, Unpublished
    <3> QED BY <3>1, <3>2
  <2>3. ASSUME NEW r \in queue', r.id = Publication(x) PROVE ~r.bound
    <3>1. CASE r \in queue
      BY <2>1, <2>3, <3>1 DEF Unpublished, CopiesIn
    <3>2. CASE r \notin queue
      BY <2>3, <3>2 DEF OwnCopies
    <3> QED BY <3>1, <3>2
  <2> QED BY <2>2, <2>3
<1>6. Snapshot'
  BY DEF OwnStep, Snapshot
<1>7. LiveKept'
  <2> SUFFICES ASSUME NEW x \in Execs, lease[x] = "live"
               PROVE  /\ x \in Builds /\ pc'[x] \in {"working", "copying", "published"}
                            => ws'[x] = "dir"
                      /\ pc'[x] = "copying" => stage'[x] = "marked"
                      /\ x \in Builds /\ pc'[x] = "published" => canon'[x] = x
    BY DEF OwnStep, LiveKept
  <2>1. CASE x = e
    BY <2>1 DEF OwnKept
  <2>2. CASE x # e
    <3>1. x \in Builds => x \in Keys \ {Key(e)}
      BY <2>2, KeyFacts DEF Execs
    <3> QED BY <2>2, <3>1 DEF OwnStep, LiveKept
  <2> QED BY <2>1, <2>2
<1> QED BY <1>2, <1>3, <1>4, <1>5, <1>6, <1>7

\* What the step has to leave behind in the queue.
OwnTracked(e) ==
    /\ \A i \in RecordIds \ {Publication(e), Quarantine(e), Workspace(e)} :
          CopiesIn(queue, i) # {} => CopiesIn(queue', i) # {}
    /\ stage'[e] # "none" => CopiesIn(queue', Publication(e)) # {}
    /\ quar'[e] \notin {"none", "stray"} => CopiesIn(queue', Quarantine(e)) # {}
    /\ e \in Builds /\ ws'[e] # "none" => CopiesIn(queue', Workspace(e)) # {}
    /\ e \in Builds \ (rows \cup restored) /\ canon'[e] = e =>
          CopiesIn(queue', Publication(e)) # {}
    /\ \A x \in Execs \ {e} : quar'[x] = quar[x]
    /\ UNCHANGED restored

\* Records of different kinds or executions have different ids.
LEMMA Ids ==
    /\ \A x \in Execs : Publication(x) \in RecordIds /\ Quarantine(x) \in RecordIds
    /\ \A x \in Builds : Workspace(x) \in RecordIds
    /\ \A x, e \in Execs :
          /\ Publication(x) \notin {Quarantine(e), Workspace(e)}
          /\ Quarantine(x) \notin {Publication(e), Workspace(e)}
          /\ Workspace(x) \notin {Publication(e), Quarantine(e)}
          /\ x # e => /\ Publication(x) # Publication(e)
                      /\ Quarantine(x) # Quarantine(e)
                      /\ Workspace(x) # Workspace(e)
BY DEF RecordIds, Publication, Quarantine, Workspace

\* A step of one worker leaves nothing untracked if it leaves nothing of its own
\* execution untracked.
LEMMA OwnStepTracks ==
    ASSUME NothingUntracked, Cleaned, Leases, rows \subseteq Builds,
           NEW e \in Execs, OwnStep(e), OwnTracked(e)
    PROVE  NothingUntracked' /\ Cleaned'
<1>1. ASSUME NEW x \in Execs, x # e
      PROVE  /\ stage'[x] # "none" => CopiesIn(queue', Publication(x)) # {}
             /\ quar'[x] \notin {"none", "stray"} => CopiesIn(queue', Quarantine(x)) # {}
             /\ x \in Builds /\ ws'[x] # "none" => CopiesIn(queue', Workspace(x)) # {}
             /\ x \in Builds \ (rows \cup restored) /\ canon'[x] = x =>
                   CopiesIn(queue', Publication(x)) # {}
  <2>1. /\ Publication(x) \in RecordIds \ {Publication(e), Quarantine(e), Workspace(e)}
        /\ Quarantine(x) \in RecordIds \ {Publication(e), Quarantine(e), Workspace(e)}
        /\ x \in Builds =>
             Workspace(x) \in RecordIds \ {Publication(e), Quarantine(e), Workspace(e)}
    BY <1>1, Ids
  <2>2. x \in Builds => canon'[x] = canon[x]
    <3>1. x \in Builds => x \in Keys \ {Key(e)}
      BY <1>1, KeyFacts DEF Execs
    <3> QED BY <3>1 DEF OwnStep
  <2>3. stage'[x] = stage[x] /\ quar'[x] = quar[x] /\ (x \in Builds => ws'[x] = ws[x])
    BY <1>1 DEF OwnStep, OwnTracked
  <2> QED BY <2>1, <2>2, <2>3 DEF NothingUntracked, Tracked, OwnTracked
<1>2. rows' = rows /\ cleaning' = cleaning /\ restored' = restored /\ Builds \subseteq Execs
  BY DEF OwnStep, OwnTracked, Execs
<1>3. Cleaned'
  <2> SUFFICES ASSUME NEW x \in cleaning, canon'[x] = x PROVE x \in restored
    BY <1>2 DEF Cleaned
  <2>1. x \in rows /\ x \in Builds /\ lease[x] = "closed" /\ ~Early(x)
    BY <1>2 DEF Cleaned, Leases, Early
  <2>2. canon[x] = x
    <3>1. CASE x = e
      BY <2>1, <3>1, KeyFacts DEF OwnStep
    <3>2. CASE x # e
      <4>1. x \in Keys \ {Key(e)}
        BY <2>1, <3>2, KeyFacts DEF Execs
      <4> QED BY <4>1 DEF OwnStep
    <3> QED BY <3>1, <3>2
  <2> QED BY <2>2 DEF Cleaned
<1> QED BY <1>1, <1>2, <1>3 DEF NothingUntracked, Tracked, OwnTracked

PcStates == {"start", "claimed", "working", "copying", "published", "settled", "end", "dead"}

\* A call that gets to its last step goes on, otherwise its process dies.
LEMMA ReachesPc ==
    ASSUME TypeOK, NEW e \in Execs, NEW n \in Nat, NEW last \in Nat, NEW next \in PcStates,
           Reaches(e, n, last, next)
    PROVE  /\ pc' \in [Execs -> PcStates]
           /\ \A x \in Execs \ {e} : pc'[x] = pc[x]
           /\ \/ n = last /\ pc'[e] = next
              \/ n # last /\ pc'[e] = "dead"
<1>1. pc \in [Execs -> PcStates]
  BY DEF TypeOK, PcStates
<1>2. CASE n < last /\ Dies(e)
  BY <1>1, <1>2 DEF Dies, PcStates
<1>3. CASE n = last /\ pc' = [pc EXCEPT ![e] = next]
  BY <1>1, <1>3
<1> QED BY <1>2, <1>3 DEF Reaches

\* A call that goes on, breaks off, or dies.
LEMMA EndsPc ==
    ASSUME TypeOK, NEW e \in Execs, NEW next \in PcStates,
           Ends(e, next) \/ BreaksOff(e, next)
    PROVE  /\ pc' \in [Execs -> PcStates]
           /\ \A x \in Execs \ {e} : pc'[x] = pc[x]
           /\ pc'[e] \in {next, "dead"}
<1>1. pc \in [Execs -> PcStates]
  BY DEF TypeOK, PcStates
<1> QED BY <1>1 DEF Ends, BreaksOff, Dies, PcStates

MaintenanceOK == MaintenanceInv /\ NothingUntracked /\ Cleaned

\* Both at once.
LEMMA OwnStepInv ==
    ASSUME MaintenanceOK, NEW e \in Execs, OwnStep(e), OwnKept(e), OwnCopies(e),
           OwnTracked(e), TypeOK', Shapes', GoodQueue(queue')
    PROVE  MaintenanceOK'
<1>1. MaintenanceInv /\ NothingUntracked /\ Cleaned /\ Leases /\ rows \subseteq Builds
  BY DEF MaintenanceOK, MaintenanceInv, TypeOK
<1>2. MaintenanceInv'
  BY <1>1, OwnStepKeeps
<1>3. NothingUntracked' /\ Cleaned'
  BY <1>1, OwnStepTracks
<1> QED BY <1>2, <1>3 DEF MaintenanceOK

\* allocate enqueues the record before it makes the directory.
LEMMA AllocatedGood ==
    ASSUME GoodQueue(queue), NEW e \in Builds, NEW n \in 0 .. 4
    PROVE  \A q : q = Allocated(e, n) =>
              /\ GoodQueue(q) /\ KeepsAll(queue, q)
              /\ n # 0 => CopiesIn(q, Workspace(e)) # {}
              /\ \A r \in q \ queue : r.id = Workspace(e)
<1> SUFFICES ASSUME NEW q, q = Allocated(e, n)
             PROVE  /\ GoodQueue(q) /\ KeepsAll(queue, q)
                    /\ n # 0 => CopiesIn(q, Workspace(e)) # {}
                    /\ \A r \in q \ queue : r.id = Workspace(e)
  OBVIOUS
<1>1. PICK first : first = Copy(queue, Workspace(e), 0, "ready", FALSE)
  OBVIOUS
<1>2. PICK q1 : q1 = queue \cup {first}
  OBVIOUS
<1>3. PICK q3 : q3 = Bind(q1, first)
  OBVIOUS
<1>4. PICK q4 : q4 = CompleteItem(q3, first)
  OBVIOUS
<1>5. first \in Copies /\ first.id = Workspace(e) /\ ~first.bound /\ GoodQueue(q1)
  BY <1>1, <1>2, EnqueueGood, Ids
<1>6. /\ GoodQueue(q3) /\ q1 \subseteq q3 /\ HasNext(q3, first)
      /\ \A r \in q3 \ q1 : r.id = first.id
  BY <1>3, <1>5, BindGood
<1>7. GoodQueue(q4) /\ q4 \subseteq q3 /\ KeepsAll(q3, q4)
  BY <1>4, <1>5, <1>6, CompleteGood
<1>8. (n = 0 /\ q = queue) \/ (n # 0 /\ q \in {q1, q3, q4})
  <2>1. q = CASE n = 0 -> queue [] n \in {1, 2} -> q1 [] n = 3 -> q3 [] n = 4 -> q4
    BY <1>1, <1>2, <1>3, <1>4, Zenon DEF Allocated, Bind
  <2>2. n = 0 \/ n \in {1, 2} \/ n = 3 \/ n = 4
    OBVIOUS
  <2> QED BY <2>1, <2>2
<1>9. KeepsAll(queue, q1) /\ KeepsAll(queue, q3) /\ KeepsAll(q1, q3) /\ KeepsAll(queue, queue)
  BY <1>2, <1>6, MoreCopies
<1>10. CopiesIn(q1, Workspace(e)) # {} /\ Workspace(e) \in RecordIds
  BY <1>2, <1>5, Ids, KeyFacts DEF CopiesIn
<1> QED BY <1>2, <1>5, <1>6, <1>7, <1>8, <1>9, <1>10 DEF KeepsAll

\* An allocate that gets to its end, or dies.
LEMMA AllocateInv ==
    ASSUME MaintenanceOK, NEW e \in Builds, NEW n \in 1 .. 4, Allocate(e, n)
    PROVE  MaintenanceOK'
<1>1. /\ TypeOK /\ Shapes /\ GoodQueue(queue) /\ LiveKept /\ NothingUntracked /\ e \in Execs
  BY KeyFacts DEF MaintenanceOK, MaintenanceInv
<1>2. /\ GoodQueue(queue') /\ KeepsAll(queue, queue')
      /\ CopiesIn(queue', Workspace(e)) # {}
      /\ \A r \in queue' \ queue : r.id = Workspace(e)
  <2>1. PICK q : q = Allocated(e, n)
    OBVIOUS
  <2>2. n \in 0 .. 4 /\ n # 0 /\ queue' = q
    BY <2>1 DEF Allocate
  <2> QED BY <1>1, <2>1, <2>2, AllocatedGood
<1>3. /\ pc' \in [Execs -> PcStates] /\ \A x \in Execs \ {e} : pc'[x] = pc[x]
      /\ pc'[e] \in {"working", "dead"} /\ (pc'[e] = "working" => n = 4)
  <2>1. Reaches(e, n, 4, "working") /\ "working" \in PcStates /\ n \in Nat
    BY DEF Allocate, PcStates
  <2> QED BY <1>1, <2>1, ReachesPc
<1>4. /\ ws' \in [Builds -> {"none", "dir", "retired"}] /\ \A x \in Builds \ {e} : ws'[x] = ws[x]
      /\ n = 4 => ws'[e] = "dir"
  BY <1>1 DEF Allocate, TypeOK
<1>5. tree' \in [Builds -> 0 .. Depth]
  BY <1>1 DEF Allocate, TypeOK
<1>6. /\ owned' \in [Builds -> SUBSET Copies]
      /\ \A x \in Builds : \A it \in owned'[x] : it \in Copies /\ it.id = Workspace(x)
  <2>1. PICK own : own = IF n = 4 THEN queue' \ queue ELSE owned[e]
    OBVIOUS
  <2>2. own \in SUBSET Copies /\ \A it \in own : it.id = Workspace(e)
    BY <1>1, <1>2, <2>1 DEF Shapes, TypeOK, GoodQueue
  <2>3. owned' = [owned EXCEPT ![e] = own]
    BY <2>1 DEF Allocate
  <2> QED BY <1>1, <2>2, <2>3 DEF Shapes, TypeOK
<1>7. UNCHANGED <<lease, rows, cleaning, stage, canon, quar, moved, stack, intent, sweep, restored>>
  BY DEF Allocate, dbVars, dataVars
<1>8. old' \subseteq old
  BY DEF Allocate, Fresh
<1>9. TypeOK' /\ Shapes'
  BY <1>1, <1>2, <1>3, <1>4, <1>5, <1>6, <1>7, <1>8 DEF TypeOK, Shapes, GoodQueue, PcStates
<1>10. OwnStep(e)
  BY <1>3, <1>4, <1>7, <1>8 DEF OwnStep, Working, Early, Allocate
<1>11. OwnKept(e) /\ OwnCopies(e)
  BY <1>1, <1>2, <1>3, <1>4, Ids DEF OwnKept, OwnCopies
<1>12. OwnTracked(e)
  BY <1>1, <1>2, <1>7, Ids DEF OwnTracked, KeepsAll, NothingUntracked, Tracked
<1> QED BY <1>1, <1>2, <1>9, <1>10, <1>11, <1>12, OwnStepInv

\* An allocate that raises leaves its record with what it leaves.
LEMMA AllocateRaisesInv ==
    ASSUME MaintenanceOK, NEW e \in Builds, NEW n \in 0 .. 4, AllocateRaises(e, n)
    PROVE  MaintenanceOK'
<1>1. /\ TypeOK /\ Shapes /\ GoodQueue(queue) /\ NothingUntracked /\ e \in Execs
  BY KeyFacts DEF MaintenanceOK, MaintenanceInv
<1>2. /\ GoodQueue(queue') /\ KeepsAll(queue, queue')
      /\ n # 0 => CopiesIn(queue', Workspace(e)) # {}
      /\ \A r \in queue' \ queue : r.id = Workspace(e)
  <2>1. PICK q : q = Allocated(e, n)
    OBVIOUS
  <2>2. queue' = q
    BY <2>1 DEF AllocateRaises
  <2> QED BY <1>1, <2>1, <2>2, AllocatedGood
<1>3. /\ pc' \in [Execs -> PcStates] /\ \A x \in Execs \ {e} : pc'[x] = pc[x]
      /\ pc[e] = "claimed" /\ pc'[e] \in {"end", "dead"}
  <2>1. BreaksOff(e, "end") /\ "end" \in PcStates /\ pc[e] = "claimed"
    BY DEF AllocateRaises, PcStates
  <2> QED BY <1>1, <2>1, EndsPc
<1>4. PICK left \in {"none", "dir"} :
         ws' = [ws EXCEPT ![e] = left] /\ (left # "none" => n # 0)
  <2>1. PICK left \in IF n >= 2 THEN {"none", "dir"} ELSE {"none"} :
           ws' = [ws EXCEPT ![e] = left]
    BY DEF AllocateRaises
  <2>2. left \in {"none", "dir"} /\ (left # "none" => n # 0)
    <3>1. CASE n >= 2
      BY <2>1, <3>1
    <3>2. CASE ~(n >= 2)
      BY <2>1, <3>2
    <3> QED BY <3>1, <3>2
  <2> QED BY <2>1, <2>2
<1>5. /\ ws' \in [Builds -> {"none", "dir", "retired"}]
      /\ \A x \in Builds \ {e} : ws'[x] = ws[x]
      /\ ws'[e] # "none" => n # 0
  BY <1>1, <1>4 DEF TypeOK
<1>6. UNCHANGED <<lease, rows, cleaning, stage, canon, quar, moved, tree, stack, intent, owned,
                  sweep, restored>>
  BY DEF AllocateRaises, dbVars, dataVars
<1>7. old' \subseteq old
  BY DEF AllocateRaises, Fresh
<1>8. TypeOK' /\ Shapes'
  BY <1>1, <1>2, <1>3, <1>5, <1>6, <1>7 DEF TypeOK, Shapes, GoodQueue, PcStates
<1>9. OwnStep(e)
  BY <1>3, <1>5, <1>6, <1>7 DEF OwnStep, Working, Early
<1>10. OwnKept(e) /\ OwnCopies(e)
  BY <1>1, <1>2, <1>3, Ids DEF OwnKept, OwnCopies
<1>11. OwnTracked(e)
  BY <1>1, <1>2, <1>5, <1>6, Ids DEF OwnTracked, KeepsAll, NothingUntracked, Tracked
<1> QED BY <1>1, <1>2, <1>8, <1>9, <1>10, <1>11, OwnStepInv

\* A cleanup, wherever it stops.
LEMMA CleanUpTypes ==
    ASSUME TypeOK, NEW e \in Builds, NEW p \in Cleared(tree[e], stack[e]),
           NEW finished \in BOOLEAN, CleanUp(e, p, finished)
    PROVE  /\ ws' \in [Builds -> {"none", "dir", "retired"}]
           /\ tree' \in [Builds -> 0 .. Depth] /\ stack' \in [Builds -> 0 .. Depth]
           /\ \A x \in Builds \ {e} : ws'[x] = ws[x]
           /\ finished => ws'[e] = "none"
           /\ old' \subseteq old
<1>1. p[1] \in 0 .. Depth /\ p[2] \in 0 .. Depth
  <2>1. tree[e] \in 0 .. Depth /\ stack[e] \in 0 .. Depth
    BY DEF TypeOK
  <2> QED BY <2>1 DEF Cleared
<1>2. ws' \in [Builds -> {"none", "dir", "retired"}] /\ \A x \in Builds \ {e} : ws'[x] = ws[x]
  BY DEF TypeOK, CleanUp
<1>3. tree' \in [Builds -> 0 .. Depth] /\ stack' \in [Builds -> 0 .. Depth]
  BY <1>1 DEF TypeOK, CleanUp
<1> QED BY <1>2, <1>3 DEF CleanUp, TypeOK, Fresh

\* The owner removes its workspace before it completes the record.
LEMMA OwnerCleanUpInv ==
    ASSUME MaintenanceOK, NEW e \in Builds, OwnerCleanUp(e)
    PROVE  MaintenanceOK'
<1>1. /\ TypeOK /\ Shapes /\ GoodQueue(queue) /\ NothingUntracked /\ e \in Execs
  BY KeyFacts DEF MaintenanceOK, MaintenanceInv
<1>2. /\ pc' \in [Execs -> PcStates] /\ \A x \in Execs \ {e} : pc'[x] = pc[x]
      /\ pc[e] = "settled" /\ pc'[e] = "end"
  BY <1>1 DEF OwnerCleanUp, TypeOK, PcStates
<1>3. UNCHANGED <<lease, rows, cleaning, stage, canon, quar, moved, intent, owned, sweep, restored>>
  BY DEF OwnerCleanUp, dbVars, dataVars
<1>4. /\ ws' \in [Builds -> {"none", "dir", "retired"}]
      /\ tree' \in [Builds -> 0 .. Depth] /\ stack' \in [Builds -> 0 .. Depth]
      /\ \A x \in Builds \ {e} : ws'[x] = ws[x]
      /\ old' \subseteq old
      /\ GoodQueue(queue') /\ queue' \subseteq queue
      /\ KeepsOthers(queue, queue', Workspace(e))
      /\ ws'[e] # "none" => CopiesIn(queue', Workspace(e)) # {}
  <2>1. CASE UNCHANGED <<wsVars, queue, old>>
    BY <1>1, <2>1 DEF wsVars, TypeOK, KeepsOthers, NothingUntracked, Tracked
  <2>2. CASE /\ ws[e] = "none" /\ UNCHANGED <<wsVars, old>>
             /\ \E it \in owned[e] : queue' = CompleteItem(queue, it)
    <3>1. PICK it \in owned[e] : queue' = CompleteItem(queue, it)
      BY <2>2
    <3>2. it \in Copies /\ it.id = Workspace(e)
      BY <1>1 DEF TypeOK
    <3>3. GoodQueue(queue') /\ queue' \subseteq queue /\ KeepsOthers(queue, queue', Workspace(e))
      BY <1>1, <3>1, <3>2, CompleteGood
    <3> QED BY <1>1, <2>2, <3>3 DEF wsVars, TypeOK
  <2>3. CASE /\ ws[e] # "none"
             /\ \E p \in Settled(Cleared(tree[e], stack[e])), finished \in BOOLEAN :
                  /\ CleanUp(e, p, finished)
                  /\ \/ UNCHANGED queue
                     \/ \E it \in owned[e] : finished /\ queue' = CompleteItem(queue, it)
    <3>1. PICK p \in Cleared(tree[e], stack[e]), finished \in BOOLEAN :
                  /\ CleanUp(e, p, finished)
                  /\ \/ UNCHANGED queue
                     \/ \E it \in owned[e] : finished /\ queue' = CompleteItem(queue, it)
      BY <2>3 DEF Settled
    <3>2. /\ ws' \in [Builds -> {"none", "dir", "retired"}]
          /\ tree' \in [Builds -> 0 .. Depth] /\ stack' \in [Builds -> 0 .. Depth]
          /\ \A x \in Builds \ {e} : ws'[x] = ws[x]
          /\ finished => ws'[e] = "none"
          /\ old' \subseteq old
      BY <1>1, <3>1, CleanUpTypes
    <3>3. CASE UNCHANGED queue
      <4>1. GoodQueue(queue') /\ queue' = queue /\ KeepsOthers(queue, queue', Workspace(e))
        BY <1>1, <3>3 DEF KeepsOthers
      <4>2. CopiesIn(queue', Workspace(e)) # {}
        BY <1>1, <2>3, <4>1 DEF NothingUntracked, Tracked
      <4> QED BY <3>2, <4>1, <4>2
    <3>4. CASE \E it \in owned[e] : finished /\ queue' = CompleteItem(queue, it)
      <4>1. PICK it \in owned[e] : finished /\ queue' = CompleteItem(queue, it)
        BY <3>4
      <4>2. it \in Copies /\ it.id = Workspace(e)
        BY <1>1 DEF TypeOK
      <4>3. GoodQueue(queue') /\ queue' \subseteq queue /\ KeepsOthers(queue, queue', Workspace(e))
        BY <1>1, <4>1, <4>2, CompleteGood
      <4> QED BY <3>2, <4>1, <4>3
    <3> QED BY <3>1, <3>3, <3>4
  <2> QED BY <2>1, <2>2, <2>3 DEF OwnerCleanUp
<1>5. TypeOK' /\ Shapes'
  BY <1>1, <1>2, <1>3, <1>4 DEF TypeOK, Shapes, GoodQueue, PcStates
<1>6. OwnStep(e)
  BY <1>2, <1>3, <1>4 DEF OwnStep, Working, Early
<1>7. OwnKept(e) /\ OwnCopies(e)
  BY <1>2, <1>4 DEF OwnKept, OwnCopies
<1>8. OwnTracked(e)
  BY <1>1, <1>3, <1>4, Ids DEF OwnTracked, KeepsOthers, NothingUntracked, Tracked
<1> QED BY <1>1, <1>4, <1>5, <1>6, <1>7, <1>8, OwnStepInv

\* An owner that dies while it clears its workspace leaves the record.
LEMMA OwnerCleanUpDiesInv ==
    ASSUME MaintenanceOK, NEW e \in Builds, OwnerCleanUpDies(e)
    PROVE  MaintenanceOK'
<1>1. /\ TypeOK /\ Shapes /\ GoodQueue(queue) /\ NothingUntracked /\ e \in Execs
  BY KeyFacts DEF MaintenanceOK, MaintenanceInv
<1>2. /\ pc' \in [Execs -> PcStates] /\ \A x \in Execs \ {e} : pc'[x] = pc[x]
      /\ pc[e] = "settled" /\ pc'[e] = "dead"
  BY <1>1 DEF OwnerCleanUpDies, Dies, TypeOK, PcStates
<1>3. UNCHANGED <<lease, rows, cleaning, stage, canon, quar, moved, queue, intent, owned,
                  sweep, restored>>
  BY DEF OwnerCleanUpDies, dbVars, dataVars
<1>4. /\ ws' \in [Builds -> {"none", "dir", "retired"}]
      /\ tree' \in [Builds -> 0 .. Depth] /\ stack' \in [Builds -> 0 .. Depth]
      /\ \A x \in Builds \ {e} : ws'[x] = ws[x]
      /\ old' \subseteq old
  <2>1. PICK p \in Cleared(tree[e], stack[e]), finished \in BOOLEAN : CleanUp(e, p, finished)
    BY DEF OwnerCleanUpDies
  <2> QED BY <1>1, <2>1, CleanUpTypes
<1>5. TypeOK' /\ Shapes'
  BY <1>1, <1>2, <1>3, <1>4 DEF TypeOK, Shapes, PcStates
<1>6. OwnStep(e)
  BY <1>2, <1>3, <1>4 DEF OwnStep, Working, Early
<1>7. OwnKept(e) /\ OwnCopies(e)
  BY <1>2, <1>3 DEF OwnKept, OwnCopies
<1>8. OwnTracked(e)
  <2>1. CopiesIn(queue, Workspace(e)) # {}
    BY <1>1 DEF NothingUntracked, Tracked, OwnerCleanUpDies
  <2> QED BY <1>1, <1>3, <2>1 DEF OwnTracked, NothingUntracked, Tracked
<1>9. GoodQueue(queue')
  BY <1>1, <1>3
<1> QED BY <1>1, <1>5, <1>6, <1>7, <1>8, <1>9, OwnStepInv

\* A step of a worker that touches no file and no record.
LEMMA IdleStepInv ==
    ASSUME MaintenanceOK, NEW e \in Execs, pc[e] \in Working, NEW next \in {"settled", "dead"},
           pc' = [pc EXCEPT ![e] = next],
           UNCHANGED <<dbVars, dataVars, wsVars, queue, intent, owned, sweep, old, restored>>
    PROVE  MaintenanceOK'
<1>1. /\ TypeOK /\ Shapes /\ GoodQueue(queue) /\ NothingUntracked
  BY DEF MaintenanceOK, MaintenanceInv
<1>2. /\ pc' \in [Execs -> PcStates] /\ \A x \in Execs \ {e} : pc'[x] = pc[x]
      /\ pc'[e] = next
  BY <1>1 DEF TypeOK, PcStates
<1>3. UNCHANGED <<lease, rows, cleaning, stage, canon, quar, moved, ws, tree, stack, queue, intent,
                  owned, sweep, old, restored>>
  BY DEF dbVars, dataVars, wsVars
<1>4. GoodQueue(queue') /\ queue' = queue
  BY <1>1, <1>3
<1>5. TypeOK' /\ Shapes'
  BY <1>1, <1>2, <1>3, <1>4 DEF TypeOK, Shapes, GoodQueue, PcStates
<1>6. OwnStep(e)
  BY <1>2, <1>3 DEF OwnStep, Working, Early
<1>7. OwnKept(e) /\ OwnCopies(e)
  BY <1>2, <1>4 DEF OwnKept, OwnCopies
<1>8. OwnTracked(e)
  BY <1>1, <1>3, Ids DEF OwnTracked, NothingUntracked, Tracked
<1> QED BY <1>1, <1>4, <1>5, <1>6, <1>7, <1>8, OwnStepInv

\* Steps of a worker that touch no file: a compensation skipped, a death.
LEMMA IdleSteps ==
    ASSUME MaintenanceOK, NEW e \in Execs, CompensateSkips(e) \/ Die(e)
    PROVE  MaintenanceOK'
<1>1. CASE CompensateSkips(e)
  BY <1>1, IdleStepInv DEF CompensateSkips, Working
<1>2. CASE Die(e)
  BY <1>2, IdleStepInv DEF Die, Dies, Working
<1> QED BY <1>1, <1>2

\* _publish enqueues the intent before it creates the stage.
LEMMA PublishStageInv ==
    ASSUME MaintenanceOK, NEW e \in Execs, NEW n \in 1 .. 3, PublishStage(e, n)
    PROVE  MaintenanceOK'
<1>1. /\ TypeOK /\ Shapes /\ GoodQueue(queue) /\ NothingUntracked /\ LiveKept /\ Unpublished
  BY DEF MaintenanceOK, MaintenanceInv
<1>2. PICK first : first = Copy(queue, Publication(e), 0, "ready", FALSE)
  OBVIOUS
<1>3. first \in Copies /\ first.id = Publication(e) /\ ~first.bound /\ GoodQueue(queue \cup {first})
  BY <1>1, <1>2, EnqueueGood, Ids
<1>4. queue' = queue \cup {first} /\ intent' = [intent EXCEPT ![e] = IF n = 3 THEN {first} ELSE {}]
  BY <1>2 DEF PublishStage
<1>5. /\ pc' \in [Execs -> PcStates] /\ \A x \in Execs \ {e} : pc'[x] = pc[x]
      /\ pc'[e] \in {"copying", "dead"} /\ (pc'[e] = "copying" => n = 3)
      /\ pc[e] = "working"
  <2>1. Reaches(e, n, 3, "copying") /\ "copying" \in PcStates /\ n \in Nat
    BY DEF PublishStage, PcStates
  <2> QED BY <1>1, <2>1, ReachesPc DEF PublishStage
<1>6. /\ stage' \in [Execs -> {"none", "bare", "marked"}]
      /\ \A x \in Execs \ {e} : stage'[x] = stage[x]
      /\ n = 3 => stage'[e] = "marked"
  BY <1>1 DEF PublishStage, TypeOK
<1>7. /\ intent' \in [Execs -> SUBSET Copies]
      /\ \A x \in Execs : \A it \in intent'[x] : it \in Copies /\ it.id = Publication(x)
  BY <1>1, <1>3, <1>4 DEF Shapes, TypeOK
<1>8. UNCHANGED <<lease, rows, cleaning, canon, quar, moved, ws, tree, stack, owned, sweep,
                  restored>>
  BY DEF PublishStage, dbVars, wsVars
<1>9. old' \subseteq old
  BY DEF PublishStage, Fresh
<1>10. TypeOK' /\ Shapes'
  BY <1>1, <1>3, <1>4, <1>5, <1>6, <1>7, <1>8, <1>9 DEF TypeOK, Shapes, GoodQueue, PcStates
<1>11. OwnStep(e)
  BY <1>5, <1>6, <1>8, <1>9 DEF OwnStep, Working, Early
<1>12. OwnKept(e) /\ OwnCopies(e)
  BY <1>1, <1>3, <1>4, <1>5, <1>6, <1>8, KeyFacts DEF OwnKept, OwnCopies, LiveKept
<1>13. OwnTracked(e)
  <2>1. CopiesIn(queue', Publication(e)) # {}
    BY <1>3, <1>4 DEF CopiesIn
  <2>2. KeepsAll(queue, queue')
    BY <1>4, MoreCopies
  <2> QED BY <1>1, <1>8, <2>1, <2>2, Ids DEF OwnTracked, KeepsAll, NothingUntracked, Tracked
<1>14. GoodQueue(queue')
  BY <1>3, <1>4
<1> QED BY <1>1, <1>10, <1>11, <1>12, <1>13, <1>14, OwnStepInv

\* A publication that fails at its stage takes it back, or leaves it to its record.
LEMMA PublishStageRaisesInv ==
    ASSUME MaintenanceOK, NEW e \in Execs, PublishStageRaises(e)
    PROVE  MaintenanceOK'
<1>1. /\ TypeOK /\ Shapes /\ GoodQueue(queue) /\ NothingUntracked
  BY DEF MaintenanceOK, MaintenanceInv
<1>2. PICK first : first = Copy(queue, Publication(e), 0, "ready", FALSE)
  OBVIOUS
<1>3. first \in Copies /\ first.id = Publication(e) /\ ~first.bound /\ GoodQueue(queue \cup {first})
  BY <1>1, <1>2, EnqueueGood, Ids
<1>4. /\ pc' \in [Execs -> PcStates] /\ \A x \in Execs \ {e} : pc'[x] = pc[x]
      /\ pc[e] = "working" /\ pc'[e] = "settled"
  BY <1>1 DEF PublishStageRaises, TypeOK, PcStates
<1>5. UNCHANGED <<lease, rows, cleaning, canon, quar, moved, ws, tree, stack, intent, owned,
                  sweep, restored>>
  BY DEF PublishStageRaises, dbVars, wsVars
<1>6. old' \subseteq old
  BY DEF PublishStageRaises, Fresh
<1>7. /\ stage' \in [Execs -> {"none", "bare", "marked"}]
      /\ \A x \in Execs \ {e} : stage'[x] = stage[x]
      /\ GoodQueue(queue') /\ queue \subseteq queue' /\ \A r \in queue' \ queue : ~r.bound
      /\ stage'[e] # "none" => CopiesIn(queue', Publication(e)) # {}
  <2>1. CASE UNCHANGED <<queue, stage>>
    BY <1>1, <2>1 DEF TypeOK, NothingUntracked, Tracked
  <2>2. CASE /\ queue' = Enqueue(queue, Publication(e))
             /\ \E left \in {"none", "bare", "marked"} : stage' = [stage EXCEPT ![e] = left]
    <3>1. queue' = queue \cup {first}
      BY <1>2, <2>2 DEF Enqueue
    <3>2. CopiesIn(queue', Publication(e)) # {}
      BY <1>3, <3>1 DEF CopiesIn
    <3>3. /\ stage' \in [Execs -> {"none", "bare", "marked"}]
          /\ \A x \in Execs \ {e} : stage'[x] = stage[x]
      BY <1>1, <2>2 DEF TypeOK
    <3> QED BY <1>3, <3>1, <3>2, <3>3
  <2> QED BY <2>1, <2>2 DEF PublishStageRaises
<1>8. TypeOK' /\ Shapes'
  BY <1>1, <1>4, <1>5, <1>6, <1>7 DEF TypeOK, Shapes, GoodQueue, PcStates
<1>9. OwnStep(e)
  BY <1>4, <1>5, <1>6, <1>7 DEF OwnStep, Working, Early
<1>10. OwnKept(e) /\ OwnCopies(e)
  BY <1>4, <1>7 DEF OwnKept, OwnCopies
<1>11. OwnTracked(e)
  <2>1. KeepsAll(queue, queue')
    BY <1>7, MoreCopies
  <2> QED BY <1>1, <1>5, <1>7, <2>1, Ids DEF OwnTracked, KeepsAll, NothingUntracked, Tracked
<1> QED BY <1>1, <1>7, <1>8, <1>9, <1>10, <1>11, OwnStepInv

\* _publish binds the intent before it links the object, and completes it last.
LEMMA LinkedGood ==
    ASSUME GoodQueue(queue), NEW e \in Execs, NEW it \in Copies, it.id = Publication(e),
           NEW n \in 1 .. 5
    PROVE  \A l : l = Linked(e, it, n) =>
              /\ GoodQueue(l.queue) /\ KeepsOthers(queue, l.queue, Publication(e))
              /\ \A r \in l.queue \ queue : r.id = Publication(e)
              /\ e \in Builds \/ n # 5 => CopiesIn(l.queue, Publication(e)) # {}
              /\ l.item \in Copies /\ l.item.id = Publication(e)
              /\ l.canon = IF n >= 3 THEN e ELSE Nobody
              /\ l.stage = IF n >= 4 THEN "none" ELSE "marked"
<1> SUFFICES ASSUME NEW l, l = Linked(e, it, n)
             PROVE  /\ GoodQueue(l.queue) /\ KeepsOthers(queue, l.queue, Publication(e))
                    /\ \A r \in l.queue \ queue : r.id = Publication(e)
                    /\ e \in Builds \/ n # 5 => CopiesIn(l.queue, Publication(e)) # {}
                    /\ l.item \in Copies /\ l.item.id = Publication(e)
                    /\ l.canon = IF n >= 3 THEN e ELSE Nobody
                    /\ l.stage = IF n >= 4 THEN "none" ELSE "marked"
  OBVIOUS
<1> DEFINE q1 == MoveEnqueue(queue, it, "ready", TRUE)
           q2 == CompleteItem(q1, it)
           it2 == CHOOSE r \in q1 : r.id = it.id /\ r.lane = "ready"
                                   /\ r.generation = it.generation + 1
           q3 == CompleteItem(q2, it2)
<1>5. l = [queue |-> CASE n = 1 -> q1
                       [] n \in {2, 3, 4} -> q2
                       [] n = 5 -> IF e \in Builds THEN q2 ELSE q3,
           item  |-> IF n = 1 THEN it ELSE it2,
           canon |-> IF n >= 3 THEN e ELSE Nobody,
           stage |-> IF n >= 4 THEN "none" ELSE "marked"]
  BY Zenon DEF Linked
<1>1. q1 = Bind(queue, it)
  BY DEF Bind
<1>2. q2 = CompleteItem(q1, it)
  OBVIOUS
<1>3. it2 = CHOOSE r \in q1 : r.id = it.id /\ r.lane = "ready"
                           /\ r.generation = it.generation + 1
  OBVIOUS
<1>4. q3 = CompleteItem(q2, it2)
  OBVIOUS
<1> HIDE DEF q1, q2, it2, q3
<1>6. /\ GoodQueue(q1) /\ queue \subseteq q1 /\ HasNext(q1, it)
      /\ \A r \in q1 \ queue : r.id = Publication(e)
      /\ \E r \in q1 : r.id = it.id /\ r.lane = "ready" /\ r.generation = it.generation + 1
  BY <1>1, BindGood
<1>7. it2 \in Copies /\ it2.id = Publication(e)
  BY <1>3, <1>6 DEF GoodQueue
<1>8. GoodQueue(q2) /\ q2 \subseteq q1 /\ KeepsAll(q1, q2)
  BY <1>2, <1>6, CompleteGood
<1>9. GoodQueue(q3) /\ q3 \subseteq q2 /\ KeepsOthers(q2, q3, Publication(e))
  BY <1>4, <1>7, <1>8, CompleteGood
<1>10. l.queue \in {q1, q2} \/ (l.queue = q3 /\ n = 5 /\ e \notin Builds)
  <2>1. n = 1 \/ n \in {2, 3, 4} \/ n = 5
    OBVIOUS
  <2> QED BY <1>5, <2>1
<1>11. KeepsAll(queue, q1)
  BY <1>6, MoreCopies
<1>12. CopiesIn(q1, Publication(e)) # {} /\ Publication(e) \in RecordIds
  BY <1>6, Ids DEF HasNext, CopiesIn
<1>13. CopiesIn(q2, Publication(e)) # {}
  BY <1>8, <1>12 DEF KeepsAll
<1>14. /\ KeepsOthers(queue, q1, Publication(e)) /\ KeepsOthers(queue, q2, Publication(e))
       /\ KeepsOthers(queue, q3, Publication(e))
  BY <1>8, <1>9, <1>11 DEF KeepsAll, KeepsOthers
<1>15. l.item \in {it, it2} /\ l.canon = IF n >= 3 THEN e ELSE Nobody
  BY <1>5
<1>16. l.stage = IF n >= 4 THEN "none" ELSE "marked"
  BY <1>5
<1> QED BY <1>6, <1>7, <1>8, <1>9, <1>10, <1>12, <1>13, <1>14, <1>15, <1>16

\* A publication that gets to its end, or dies.
LEMMA PublishLinkInv ==
    ASSUME MaintenanceOK, NEW e \in Execs, NEW n \in 1 .. 5, PublishLink(e, n)
    PROVE  MaintenanceOK'
<1>1. /\ TypeOK /\ Shapes /\ GoodQueue(queue) /\ NothingUntracked /\ LiveKept /\ Unpublished
  BY DEF MaintenanceOK, MaintenanceInv
<1>2. PICK it \in intent[e] : \E l : /\ l = Linked(e, it, n)
                                     /\ queue' = l.queue
                                     /\ canon' = [canon EXCEPT ![Key(e)] = l.canon]
                                     /\ stage' = [stage EXCEPT ![e] = l.stage]
  BY Zenon DEF PublishLink
<1>3. /\ pc[e] = "copying" /\ canon[Key(e)] = Nobody
      /\ intent' = [intent EXCEPT ![e] = {}]
      /\ Reaches(e, n, 5, "published")
      /\ UNCHANGED <<lease, rows, cleaning, quar, moved, ws, tree, stack, owned, sweep, old,
                     restored>>
  BY DEF PublishLink, dbVars, wsVars
<1>4. it \in Copies /\ it.id = Publication(e)
  BY <1>1 DEF TypeOK
<1>5. PICK l : /\ l = Linked(e, it, n) /\ queue' = l.queue
               /\ canon' = [canon EXCEPT ![Key(e)] = l.canon]
               /\ stage' = [stage EXCEPT ![e] = l.stage]
  BY <1>2
<1>6. /\ GoodQueue(queue') /\ KeepsOthers(queue, queue', Publication(e))
      /\ \A r \in queue' \ queue : r.id = Publication(e)
      /\ e \in Builds \/ n # 5 => CopiesIn(queue', Publication(e)) # {}
      /\ l.canon = IF n >= 3 THEN e ELSE Nobody
      /\ l.stage = IF n >= 4 THEN "none" ELSE "marked"
  BY <1>1, <1>4, <1>5, LinkedGood
<1>7. /\ pc' \in [Execs -> PcStates] /\ \A x \in Execs \ {e} : pc'[x] = pc[x]
      /\ pc'[e] \in {"published", "dead"} /\ (pc'[e] = "published" => n = 5)
  <2>1. "published" \in PcStates /\ n \in Nat
    BY DEF PcStates
  <2> QED BY <1>1, <1>3, <2>1, ReachesPc
<1>8. /\ stage' \in [Execs -> {"none", "bare", "marked"}]
      /\ \A x \in Execs \ {e} : stage'[x] = stage[x]
      /\ n = 5 => stage'[e] = "none"
  BY <1>1, <1>6, <1>5 DEF TypeOK
<1>9. /\ intent' \in [Execs -> SUBSET Copies]
      /\ \A x \in Execs : \A i \in intent'[x] : i \in Copies /\ i.id = Publication(x)
  BY <1>1, <1>3 DEF Shapes, TypeOK
<1>10. /\ canon' \in [Keys -> Execs \cup {Nobody}]
       /\ \A k \in Keys \ {Key(e)} : canon'[k] = canon[k]
       /\ canon'[Key(e)] \in {canon[Key(e)], e}
       /\ n = 5 => canon'[Key(e)] = e
  BY <1>1, <1>3, <1>6, <1>5, KeyFacts DEF TypeOK
<1>11. TypeOK' /\ Shapes'
  BY <1>1, <1>3, <1>6, <1>7, <1>8, <1>9, <1>10 DEF TypeOK, Shapes, GoodQueue, PcStates
<1>12. OwnStep(e)
  BY <1>3, <1>7, <1>8, <1>10 DEF OwnStep, Working, Early
<1>13. OwnKept(e) /\ OwnCopies(e)
  BY <1>1, <1>3, <1>6, <1>7, <1>10, Ids, KeyFacts DEF OwnKept, OwnCopies, LiveKept, Early
<1>14. OwnTracked(e)
  BY <1>1, <1>3, <1>6, <1>8, Ids DEF OwnTracked, KeepsOthers, NothingUntracked, Tracked
<1> QED BY <1>1, <1>6, <1>11, <1>12, <1>13, <1>14, OwnStepInv

\* The error path of a publication.
LEMMA CleanUpPublicationGood ==
    ASSUME TypeOK, NEW e \in Execs, NEW q, GoodQueue(q), NEW it \in Copies,
           it.id = Publication(e), NEW left \in {"none", "bare", "marked"},
           CleanUpPublication(e, q, it, left)
    PROVE  /\ stage' \in [Execs -> {"none", "bare", "marked"}]
           /\ \A x \in Execs \ {e} : stage'[x] = stage[x]
           /\ GoodQueue(queue') /\ queue' \subseteq q
           /\ KeepsOthers(q, queue', Publication(e))
           /\ stage'[e] # "none" => queue' = q /\ stage'[e] = left
<1>1. KeepsOthers(q, q, Publication(e))
  BY DEF KeepsOthers
<1>2. CASE stage' = [stage EXCEPT ![e] = "none"] /\ queue' = CompleteItem(q, it)
  <2>1. GoodQueue(queue') /\ queue' \subseteq q /\ KeepsOthers(q, queue', Publication(e))
    BY <1>2, CompleteGood
  <2> QED BY <1>2, <2>1 DEF TypeOK
<1>3. CASE stage' = [stage EXCEPT ![e] = "none"] /\ queue' = q
  BY <1>1, <1>3 DEF TypeOK
<1>4. CASE queue' = q /\ stage' = [stage EXCEPT ![e] = left]
  BY <1>1, <1>4 DEF TypeOK
<1> QED BY <1>2, <1>3, <1>4 DEF CleanUpPublication

\* A publication whose copy raises removes its stage with its record, or leaves
\* both.
LEMMA PublishRaisesInv ==
    ASSUME MaintenanceOK, NEW e \in Execs, PublishRaises(e)
    PROVE  MaintenanceOK'
<1>1. /\ TypeOK /\ Shapes /\ GoodQueue(queue) /\ NothingUntracked /\ Unpublished
  BY DEF MaintenanceOK, MaintenanceInv
<1>2. /\ pc[e] = "copying" /\ Ends(e, "settled")
      /\ intent' = [intent EXCEPT ![e] = {}]
      /\ UNCHANGED <<lease, rows, cleaning, canon, quar, moved, ws, tree, stack, owned, sweep,
                     old, restored>>
  BY DEF PublishRaises, dbVars, wsVars
<1>3. PICK it \in intent[e] : CleanUpPublication(e, queue, it, stage[e])
  BY DEF PublishRaises
<1>4. it \in Copies /\ it.id = Publication(e)
  BY <1>1 DEF TypeOK
<1>5. /\ stage' \in [Execs -> {"none", "bare", "marked"}]
      /\ \A x \in Execs \ {e} : stage'[x] = stage[x]
      /\ GoodQueue(queue') /\ queue' \subseteq queue
      /\ KeepsOthers(queue, queue', Publication(e))
      /\ stage'[e] # "none" => queue' = queue /\ stage'[e] = stage[e]
  <2>1. PICK left \in {"none", "bare", "marked"} : left = stage[e]
    BY <1>1 DEF TypeOK
  <2> QED BY <1>1, <1>3, <1>4, <2>1, CleanUpPublicationGood
<1>6. /\ pc' \in [Execs -> PcStates] /\ \A x \in Execs \ {e} : pc'[x] = pc[x]
      /\ pc'[e] \in {"settled", "dead"}
  <2>1. "settled" \in PcStates
    BY DEF PcStates
  <2> QED BY <1>1, <1>2, <2>1, EndsPc
<1>7. /\ intent' \in [Execs -> SUBSET Copies]
      /\ \A x \in Execs : \A i \in intent'[x] : i \in Copies /\ i.id = Publication(x)
  BY <1>1, <1>2 DEF Shapes, TypeOK
<1>8. TypeOK' /\ Shapes'
  BY <1>1, <1>2, <1>5, <1>6, <1>7 DEF TypeOK, Shapes, GoodQueue, PcStates
<1>9. OwnStep(e)
  BY <1>2, <1>5, <1>6 DEF OwnStep, Working, Early
<1>10. OwnKept(e) /\ OwnCopies(e)
  BY <1>5, <1>6 DEF OwnKept, OwnCopies
<1>11. OwnTracked(e)
  <2>1. e \in Builds => canon'[e] # e
    BY <1>1, <1>2, KeyFacts DEF Unpublished, Early
  <2>2. stage'[e] # "none" => CopiesIn(queue', Publication(e)) # {}
    BY <1>1, <1>5 DEF NothingUntracked, Tracked
  <2> QED BY <1>1, <1>2, <1>5, <2>1, <2>2, Ids
       DEF OwnTracked, KeepsOthers, NothingUntracked, Tracked
<1> QED BY <1>1, <1>5, <1>8, <1>9, <1>10, <1>11, OwnStepInv

\* A publication that raises after the object is linked leaves an artifact and its
\* record; before, its stage goes the way of an error.
LEMMA PublishLinkRaisesInv ==
    ASSUME MaintenanceOK, NEW e \in Execs, NEW n \in 1 .. 4, PublishLinkRaises(e, n)
    PROVE  MaintenanceOK'
<1>1. /\ TypeOK /\ Shapes /\ GoodQueue(queue) /\ NothingUntracked
  BY DEF MaintenanceOK, MaintenanceInv
<1>2. PICK it \in intent[e] : \E l :
         /\ l = Linked(e, it, n)
         /\ canon' = [canon EXCEPT ![Key(e)] = l.canon]
         /\ IF e \in Builds /\ n >= 3
              THEN queue' = l.queue /\ stage' = [stage EXCEPT ![e] = l.stage]
              ELSE CleanUpPublication(e, l.queue, l.item, l.stage)
  BY Zenon DEF PublishLinkRaises
<1>3. /\ pc[e] = "copying" /\ canon[Key(e)] = Nobody
      /\ intent' = [intent EXCEPT ![e] = {}]
      /\ BreaksOff(e, "settled")
      /\ UNCHANGED <<lease, rows, cleaning, quar, moved, ws, tree, stack, owned, sweep, old,
                     restored>>
  BY DEF PublishLinkRaises, dbVars, wsVars
<1>4. it \in Copies /\ it.id = Publication(e)
  BY <1>1 DEF TypeOK
<1>5. PICK l :
         /\ l = Linked(e, it, n)
         /\ canon' = [canon EXCEPT ![Key(e)] = l.canon]
         /\ IF e \in Builds /\ n >= 3
              THEN queue' = l.queue /\ stage' = [stage EXCEPT ![e] = l.stage]
              ELSE CleanUpPublication(e, l.queue, l.item, l.stage)
  BY <1>2
<1>6. /\ GoodQueue(l.queue) /\ KeepsOthers(queue, l.queue, Publication(e))
      /\ \A r \in l.queue \ queue : r.id = Publication(e)
      /\ CopiesIn(l.queue, Publication(e)) # {}
      /\ l.item \in Copies /\ l.item.id = Publication(e)
      /\ l.canon = IF n >= 3 THEN e ELSE Nobody
      /\ l.stage \in {"none", "marked"}
  <2>1. n \in 1 .. 5 /\ n # 5
    OBVIOUS
  <2> QED BY <1>1, <1>4, <1>5, <2>1, LinkedGood
<1>7. /\ stage' \in [Execs -> {"none", "bare", "marked"}]
      /\ \A x \in Execs \ {e} : stage'[x] = stage[x]
      /\ GoodQueue(queue') /\ queue' \subseteq l.queue
      /\ KeepsOthers(l.queue, queue', Publication(e))
      /\ stage'[e] # "none" \/ (e \in Builds /\ n >= 3) => queue' = l.queue
  <2>1. CASE e \in Builds /\ n >= 3
    <3>1. queue' = l.queue /\ stage' = [stage EXCEPT ![e] = l.stage]
      BY <1>5, <2>1
    <3> QED BY <1>1, <1>6, <3>1 DEF TypeOK, KeepsOthers
  <2>2. CASE ~(e \in Builds /\ n >= 3)
    <3>1. PICK item \in Copies, left \in {"none", "bare", "marked"} :
             item = l.item /\ left = l.stage
      BY <1>6
    <3>2. PICK q : q = l.queue
      OBVIOUS
    <3>3. CleanUpPublication(e, q, item, left)
      BY <1>5, <2>2, <3>1, <3>2
    <3>4. GoodQueue(q) /\ item.id = Publication(e)
      BY <1>6, <3>1, <3>2
    <3>5. /\ stage' \in [Execs -> {"none", "bare", "marked"}]
          /\ \A x \in Execs \ {e} : stage'[x] = stage[x]
          /\ GoodQueue(queue') /\ queue' \subseteq q
          /\ KeepsOthers(q, queue', Publication(e))
          /\ stage'[e] # "none" => queue' = q
      BY <1>1, <3>4, <3>3, CleanUpPublicationGood
    <3> QED BY <2>2, <3>5, <3>2
  <2> QED BY <2>1, <2>2
<1>8. /\ KeepsOthers(queue, queue', Publication(e))
      /\ \A r \in queue' \ queue : r.id = Publication(e)
      /\ stage'[e] # "none" \/ (e \in Builds /\ n >= 3) =>
            CopiesIn(queue', Publication(e)) # {}
  BY <1>6, <1>7 DEF KeepsOthers
<1>9. /\ pc' \in [Execs -> PcStates] /\ \A x \in Execs \ {e} : pc'[x] = pc[x]
      /\ pc'[e] \in {"settled", "dead"}
  <2>1. "settled" \in PcStates
    BY DEF PcStates
  <2> QED BY <1>1, <1>3, <2>1, EndsPc
<1>10. /\ intent' \in [Execs -> SUBSET Copies]
       /\ \A x \in Execs : \A i \in intent'[x] : i \in Copies /\ i.id = Publication(x)
  BY <1>1, <1>3 DEF Shapes, TypeOK
<1>11. /\ canon' \in [Keys -> Execs \cup {Nobody}]
       /\ \A k \in Keys \ {Key(e)} : canon'[k] = canon[k]
       /\ canon'[Key(e)] \in {e, Nobody}
       /\ e \in Builds /\ canon'[e] = e => n >= 3
  BY <1>1, <1>6, <1>5, KeyFacts DEF TypeOK
<1>12. TypeOK' /\ Shapes'
  BY <1>1, <1>3, <1>7, <1>9, <1>10, <1>11 DEF TypeOK, Shapes, GoodQueue, PcStates
<1>13. OwnStep(e)
  BY <1>3, <1>7, <1>9, <1>11 DEF OwnStep, Working, Early
<1>14. OwnKept(e) /\ OwnCopies(e)
  BY <1>8, <1>9, Ids DEF OwnKept, OwnCopies, Early
<1>15. OwnTracked(e)
  BY <1>1, <1>3, <1>8, <1>11, Ids DEF OwnTracked, KeepsOthers, NothingUntracked, Tracked
<1> QED BY <1>1, <1>7, <1>12, <1>13, <1>14, <1>15, OwnStepInv

\* publish_or_reuse_bytes leaves the object that is there and drops its own stage.
LEMMA PublishReuseInv ==
    ASSUME MaintenanceOK, NEW e \in Execs, PublishReuse(e)
    PROVE  MaintenanceOK'
<1>1. /\ TypeOK /\ Shapes /\ GoodQueue(queue) /\ NothingUntracked /\ Unpublished
  BY DEF MaintenanceOK, MaintenanceInv
<1>2. /\ pc[e] = "copying" /\ Ends(e, "published")
      /\ intent' = [intent EXCEPT ![e] = {}] /\ canon[Key(e)] # Nobody
      /\ UNCHANGED <<lease, rows, cleaning, canon, quar, moved, ws, tree, stack, owned, sweep,
                     old, restored>>
  BY DEF PublishReuse, dbVars, wsVars
<1>3. PICK two \in 1 .. 5 : two = 2
  OBVIOUS
<1>4. PICK it \in intent[e] : \E l :
         l = Linked(e, it, two) /\ CleanUpPublication(e, l.queue, l.item, "marked")
  BY <1>3, Zenon DEF PublishReuse
<1>5. it \in Copies /\ it.id = Publication(e)
  BY <1>1 DEF TypeOK
<1>6. PICK l : l = Linked(e, it, two) /\ CleanUpPublication(e, l.queue, l.item, "marked")
  BY <1>4
<1>7. /\ GoodQueue(l.queue) /\ KeepsOthers(queue, l.queue, Publication(e))
      /\ \A r \in l.queue \ queue : r.id = Publication(e)
      /\ CopiesIn(l.queue, Publication(e)) # {}
      /\ l.item \in Copies /\ l.item.id = Publication(e)
  BY <1>1, <1>3, <1>5, <1>6, LinkedGood
<1>8. PICK item \in Copies, left \in {"none", "bare", "marked"} :
         item = l.item /\ left = "marked"
  BY <1>7
<1>9. PICK q : q = l.queue
  OBVIOUS
<1>10. CleanUpPublication(e, q, item, left) /\ GoodQueue(q) /\ item.id = Publication(e)
  BY <1>6, <1>7, <1>8, <1>9
<1>11. /\ stage' \in [Execs -> {"none", "bare", "marked"}]
       /\ \A x \in Execs \ {e} : stage'[x] = stage[x]
       /\ GoodQueue(queue') /\ queue' \subseteq q
       /\ KeepsOthers(q, queue', Publication(e))
       /\ stage'[e] # "none" => queue' = q
  BY <1>1, <1>10, CleanUpPublicationGood
<1>12. /\ KeepsOthers(queue, queue', Publication(e))
       /\ stage'[e] # "none" => CopiesIn(queue', Publication(e)) # {}
       /\ \A r \in queue' \ queue : r.id = Publication(e)
  BY <1>7, <1>9, <1>11 DEF KeepsOthers
<1>13. /\ pc' \in [Execs -> PcStates] /\ \A x \in Execs \ {e} : pc'[x] = pc[x]
       /\ pc'[e] \in {"published", "dead"}
  <2>1. "published" \in PcStates
    BY DEF PcStates
  <2> QED BY <1>1, <1>2, <2>1, EndsPc
<1>14. /\ intent' \in [Execs -> SUBSET Copies]
       /\ \A x \in Execs : \A i \in intent'[x] : i \in Copies /\ i.id = Publication(x)
  BY <1>1, <1>2 DEF Shapes, TypeOK
<1>15. e \notin Builds
  BY <1>1, <1>2, KeyFacts DEF Unpublished, Early
<1>16. TypeOK' /\ Shapes'
  BY <1>1, <1>2, <1>11, <1>13, <1>14 DEF TypeOK, Shapes, GoodQueue, PcStates
<1>17. OwnStep(e)
  BY <1>2, <1>11, <1>13 DEF OwnStep, Working, Early
<1>18. OwnKept(e) /\ OwnCopies(e)
  BY <1>12, <1>13, <1>15, Ids DEF OwnKept, OwnCopies, Early
<1>19. OwnTracked(e)
  BY <1>1, <1>2, <1>12, <1>15, Ids DEF OwnTracked, KeepsOthers, NothingUntracked, Tracked
<1> QED BY <1>1, <1>11, <1>16, <1>17, <1>18, <1>19, OwnStepInv

\* A reuse that dies leaves stage and intent.
LEMMA PublishReuseDiesInv ==
    ASSUME MaintenanceOK, NEW e \in Execs, PublishReuseDies(e)
    PROVE  MaintenanceOK'
<1>1. /\ TypeOK /\ Shapes /\ GoodQueue(queue) /\ NothingUntracked /\ Unpublished
  BY DEF MaintenanceOK, MaintenanceInv
<1>2. PICK one \in 1 .. 5 : one = 1
  OBVIOUS
<1>3. PICK it \in intent[e] : \E l : l = Linked(e, it, one) /\ queue' = l.queue
  BY <1>2, Zenon DEF PublishReuseDies
<1>4. it \in Copies /\ it.id = Publication(e)
  BY <1>1 DEF TypeOK
<1>5. /\ GoodQueue(queue') /\ KeepsOthers(queue, queue', Publication(e))
      /\ \A r \in queue' \ queue : r.id = Publication(e)
      /\ CopiesIn(queue', Publication(e)) # {}
  BY <1>1, <1>2, <1>3, <1>4, LinkedGood
<1>6. /\ pc' \in [Execs -> PcStates] /\ \A x \in Execs \ {e} : pc'[x] = pc[x]
      /\ pc[e] = "copying" /\ pc'[e] = "dead"
  BY <1>1 DEF PublishReuseDies, Dies, TypeOK, PcStates
<1>7. /\ intent' \in [Execs -> SUBSET Copies]
      /\ \A x \in Execs : \A i \in intent'[x] : i \in Copies /\ i.id = Publication(x)
  BY <1>1 DEF PublishReuseDies, Shapes, TypeOK
<1>8. UNCHANGED <<lease, rows, cleaning, stage, canon, quar, moved, ws, tree, stack, owned, sweep,
                  old, restored>>
  BY DEF PublishReuseDies, dbVars, dataVars, wsVars
<1>9. TypeOK' /\ Shapes'
  BY <1>1, <1>5, <1>6, <1>7, <1>8 DEF TypeOK, Shapes, GoodQueue, PcStates
<1>10. OwnStep(e)
  BY <1>6, <1>8 DEF OwnStep, Working, Early
<1>11. OwnKept(e) /\ OwnCopies(e)
  BY <1>5, <1>6, Ids DEF OwnKept, OwnCopies, Early
<1>12. OwnTracked(e)
  BY <1>1, <1>5, <1>8, Ids DEF OwnTracked, KeepsOthers, NothingUntracked, Tracked
<1> QED BY <1>1, <1>5, <1>9, <1>10, <1>11, <1>12, OwnStepInv

\* delete_if_owned records the quarantine before it moves the object under its key
\* there, wherever it dies.
LEMMA CompensateInv ==
    ASSUME MaintenanceOK, NEW e \in Execs, NEW n \in 1 .. 7, Compensate(e, n)
    PROVE  MaintenanceOK'
<1>1. /\ TypeOK /\ Shapes /\ GoodQueue(queue) /\ NothingUntracked
  BY DEF MaintenanceOK, MaintenanceInv
<1>2. PICK first : first = Copy(queue, Quarantine(e), 0, "ready", FALSE)
  OBVIOUS
<1>3. first \in Copies /\ first.id = Quarantine(e) /\ ~first.bound /\ GoodQueue(queue \cup {first})
  BY <1>1, <1>2, EnqueueGood, Ids
<1>4. PICK after : after = Quarantined(e, n)
  OBVIOUS
<1>5. /\ after.quar \in {"none", "bare", "noted", "full"}
      /\ n = 7 => after.quar = "none"
      /\ after.moved \in {canon[Key(e)], Nobody} /\ after.canon \in {canon[Key(e)], Nobody}
  <2>1. n \in {1, 6, 7} \/ n = 2 \/ n \in {3, 5} \/ n = 4
    OBVIOUS
  <2> QED BY <1>4, <2>1 DEF Quarantined
<1>6. /\ pc[e] = "published"
      /\ queue' = IF n = 7 THEN queue ELSE queue \cup {first}
      /\ quar' = [quar EXCEPT ![e] = after.quar]
      /\ moved' = [moved EXCEPT ![e] = after.moved]
      /\ canon' = [canon EXCEPT ![Key(e)] = after.canon]
      /\ old' \subseteq old
      /\ Reaches(e, n, 7, "settled") \/ BreaksOff(e, "settled")
      /\ UNCHANGED <<lease, rows, cleaning, stage, ws, tree, stack, intent, owned, sweep, restored>>
  BY <1>2, <1>4 DEF Compensate, dbVars, wsVars, Fresh
<1>7. /\ pc' \in [Execs -> PcStates] /\ \A x \in Execs \ {e} : pc'[x] = pc[x]
      /\ pc'[e] \in {"settled", "dead"}
  <2>1. "settled" \in PcStates /\ n \in Nat
    BY DEF PcStates
  <2> QED BY <1>1, <1>6, <2>1, ReachesPc, EndsPc
<1>8. /\ quar' \in [Execs -> {"none", "bare", "noted", "full", "conflict", "stray"}]
      /\ \A x \in Execs \ {e} : quar'[x] = quar[x]
      /\ quar'[e] = after.quar
  BY <1>1, <1>5, <1>6 DEF TypeOK
<1>9. /\ canon' \in [Keys -> Execs \cup {Nobody}]
      /\ \A k \in Keys \ {Key(e)} : canon'[k] = canon[k]
      /\ canon'[Key(e)] \in {canon[Key(e)], Nobody}
  BY <1>1, <1>5, <1>6, KeyFacts DEF TypeOK
<1>10. /\ moved' \in [Execs -> Execs \cup {Nobody}]
       /\ \A x \in Execs \ {e} : moved'[x] = moved[x]
       /\ moved'[e] \in {canon[Key(e)], Nobody}
  BY <1>1, <1>5, <1>6, KeyFacts DEF TypeOK
<1>11. /\ GoodQueue(queue') /\ queue \subseteq queue' /\ \A r \in queue' \ queue : ~r.bound
       /\ quar'[e] \notin {"none", "stray"} => CopiesIn(queue', Quarantine(e)) # {}
  <2>1. CASE n = 7
    BY <1>1, <1>5, <1>6, <1>8, <2>1
  <2>2. CASE n # 7
    BY <1>3, <1>6, <2>2 DEF CopiesIn
  <2> QED BY <2>1, <2>2
<1>12. TypeOK' /\ Shapes'
  BY <1>1, <1>6, <1>7, <1>8, <1>9, <1>10, <1>11 DEF TypeOK, Shapes, GoodQueue, PcStates
<1>13. OwnStep(e)
  BY <1>6, <1>7, <1>9, <1>10 DEF OwnStep, Working, Early
<1>14. OwnKept(e) /\ OwnCopies(e)
  BY <1>7, <1>11 DEF OwnKept, OwnCopies
<1>15. OwnTracked(e)
  <2>1. KeepsAll(queue, queue')
    BY <1>11, MoreCopies
  <2>2. e \in Builds => canon'[e] \in {canon[e], Nobody}
    BY <1>9, KeyFacts
  <2> QED BY <1>1, <1>6, <1>8, <1>11, <2>1, <2>2, Ids, KeyFacts
       DEF OwnTracked, KeepsAll, NothingUntracked, Tracked
<1> QED BY <1>1, <1>11, <1>12, <1>13, <1>14, <1>15, OwnStepInv

\* An empty quarantine directory it cannot remove is left without a record.
LEMMA CompensateLeavesDirectoryInv ==
    ASSUME MaintenanceOK, NEW e \in Execs, CompensateLeavesDirectory(e)
    PROVE  MaintenanceOK'
<1>1. /\ TypeOK /\ Shapes /\ GoodQueue(queue) /\ NothingUntracked
  BY DEF MaintenanceOK, MaintenanceInv
<1>2. /\ pc' \in [Execs -> PcStates] /\ \A x \in Execs \ {e} : pc'[x] = pc[x]
      /\ pc[e] = "published" /\ pc'[e] \in {"settled", "dead"}
  <2>1. "settled" \in PcStates /\ BreaksOff(e, "settled") /\ pc[e] = "published"
    BY DEF PcStates, CompensateLeavesDirectory
  <2> QED BY <1>1, <2>1, EndsPc
<1>3. /\ quar' \in [Execs -> {"none", "bare", "noted", "full", "conflict", "stray"}]
      /\ \A x \in Execs \ {e} : quar'[x] = quar[x]
      /\ quar'[e] = "stray"
  BY <1>1 DEF TypeOK, CompensateLeavesDirectory
<1>4. UNCHANGED <<lease, rows, cleaning, stage, canon, moved, ws, tree, stack, queue, intent, owned,
                  sweep, old, restored>>
  BY DEF CompensateLeavesDirectory, dbVars, wsVars
<1>5. TypeOK' /\ Shapes' /\ GoodQueue(queue')
  BY <1>1, <1>2, <1>3, <1>4 DEF TypeOK, Shapes, PcStates
<1>6. OwnStep(e)
  BY <1>2, <1>4 DEF OwnStep, Working, Early
<1>7. OwnKept(e) /\ OwnCopies(e)
  BY <1>2, <1>4 DEF OwnKept, OwnCopies
<1>8. OwnTracked(e)
  BY <1>1, <1>3, <1>4, Ids DEF OwnTracked, NothingUntracked, Tracked
<1> QED BY <1>1, <1>5, <1>6, <1>7, <1>8, OwnStepInv
-----------------------------------------------------------------------------
(***************************************************************************)
(* The first state, and the steps of the database and of time.             *)
(***************************************************************************)
LEMMA InitInv ==
    Init => MaintenanceOK
<1> SUFFICES ASSUME Init PROVE MaintenanceOK
  OBVIOUS
<1>1. PICK s \in Scenarios :
         pc = [e \in Execs |-> IF e \in s.running THEN "start" ELSE "end"]
  BY DEF Init
<1>2. \A e \in Execs : pc[e] \in {"start", "end"}
  BY <1>1
<1>3. canon \in [Keys -> Execs \cup {Nobody}] /\ \A k \in Keys : canon[k] = Nobody
  BY DEF Init
<1>4. /\ moved \in [Execs -> Execs \cup {Nobody}] /\ \A e \in Execs : moved[e] = Nobody
  BY DEF Init
<1>5. /\ sweep.phase = "idle" /\ sweep.active = {} /\ sweep.missed = {} /\ sweep.rows = {}
      /\ sweep.old = {} /\ sweep.todo = {}
  BY DEF Init, NoSweep
<1>6. TypeOK
  <2>1. pc \in [Execs -> {"start", "claimed", "working", "copying", "published",
                          "settled", "end", "dead"}]
    BY <1>1
  <2> QED BY <1>3, <1>4, <1>5, <2>1 DEF Init, TypeOK
<1>7. Shapes
  <2>1. sweep \in [phase : {"idle", "reading", "workspaces", "data"},
                   active : SUBSET Execs, missed : SUBSET Execs, rows : SUBSET Builds,
                   old : SUBSET ({"file", "quarantine", "workspace"} \X Execs),
                   todo : SUBSET Copies]
    BY DEF Init, NoSweep
  <2> QED BY <2>1 DEF Init, Shapes
<1>8. GoodQueue(queue)
  <2>1. 0 \in Nat /\ queue = {}
    BY DEF Init
  <2> QED BY <2>1 DEF GoodQueue
<1>9. TodoKind /\ Snapshot
  BY <1>5 DEF TodoKind, Snapshot
<1>10. OwnKeys
  BY <1>3, <1>4, KeyFacts DEF OwnKeys
<1>11. Leases
  BY <1>2, <1>3, <1>4, KeyFacts DEF Leases, Untouched, Init
<1>12. Unpublished
  BY <1>3, <1>4, KeyFacts DEF Unpublished, CopiesIn, Init
<1>13. LiveKept
  BY DEF LiveKept, Init
<1>14. NothingUntracked /\ Cleaned
  BY <1>3, KeyFacts DEF NothingUntracked, Cleaned, Init
<1> QED BY <1>6, <1>7, <1>8, <1>9, <1>10, <1>11, <1>12, <1>13, <1>14
     DEF MaintenanceOK, MaintenanceInv

\* The files of an execution that was never claimed, after a step of the database.
LEMMA UntouchedKept ==
    ASSUME NEW x \in Execs, Untouched(x), pc'[x] = pc[x],
           UNCHANGED <<stage, canon, moved, ws, old>>
    PROVE  Untouched(x)'
BY DEF Untouched

\* A claim makes an execution live that has touched nothing.
LEMMA ClaimInv ==
    ASSUME MaintenanceOK, NEW e \in Execs, Claim(e)
    PROVE  MaintenanceOK'
<1> USE DEF MaintenanceOK, MaintenanceInv
<1>1. /\ lease \in [Execs -> {"queued", "live", "late", "lost", "closed"}]
      /\ pc \in [Execs -> PcStates]
  BY DEF TypeOK, PcStates
<1>2. /\ lease[e] = "queued" /\ pc[e] = "start"
      /\ lease' = [lease EXCEPT ![e] = "live"]
      /\ pc' = [pc EXCEPT ![e] = IF e \in Builds THEN "claimed" ELSE "working"]
      /\ UNCHANGED <<rows, cleaning, stage, canon, quar, moved, ws, tree, stack, queue, intent,
                     owned, sweep, old, restored>>
  BY DEF Claim, dataVars, wsVars
<1>3. /\ lease' \in [Execs -> {"queued", "live", "late", "lost", "closed"}] /\ lease'[e] = "live"
      /\ \A x \in Execs \ {e} : lease'[x] = lease[x]
  BY <1>1, <1>2
<1>4. /\ pc' \in [Execs -> PcStates] /\ \A x \in Execs \ {e} : pc'[x] = pc[x]
      /\ pc'[e] \in {"claimed", "working"} /\ (e \in Builds => pc'[e] = "claimed")
  BY <1>1, <1>2 DEF PcStates
<1>5. TypeOK' /\ Shapes'
  BY <1>2, <1>3, <1>4 DEF TypeOK, Shapes, PcStates
<1>6. TodoKind' /\ OwnKeys' /\ GoodQueue(queue')
  BY <1>2 DEF TodoKind, OwnKeys
<1>7. e \notin rows
  BY <1>2 DEF Leases
<1>8. Leases'
  <2>1. ASSUME NEW x \in Execs, lease'[x] = "queued" PROVE Untouched(x)'
    <3>1. x # e /\ lease[x] = "queued"
      BY <1>3, <2>1
    <3>2. Untouched(x) /\ pc'[x] = pc[x]
      BY <1>4, <3>1 DEF Leases
    <3> QED BY <1>2, <3>2, UntouchedKept
  <2>2. \A x \in Execs : lease'[x] = "closed" => pc'[x] \in {"published", "settled", "end", "dead"}
    BY <1>3, <1>4 DEF Leases
  <2>3. \A x \in Execs : x \in rows' => lease'[x] = "closed"
    BY <1>2, <1>3, <1>7 DEF Leases
  <2> QED BY <2>1, <2>2, <2>3 DEF Leases
<1>9. Unpublished'
  BY <1>2, <1>4 DEF Unpublished, Early
<1>10. Snapshot'
  BY <1>2, <1>3 DEF Snapshot
<1>11. NothingUntracked' /\ Cleaned'
  BY <1>2 DEF NothingUntracked, Tracked, Cleaned
<1>12. LiveKept'
  BY <1>2, <1>3, <1>4 DEF LiveKept
<1> QED BY <1>5, <1>6, <1>8, <1>9, <1>10, <1>11, <1>12

\* A lease runs out on some clock, or a takeover ends the execution; what it left
\* has its records.
LEMMA LeaseEndsInv ==
    ASSUME MaintenanceOK, NEW e \in Execs, LeaseLate(e) \/ LoseLease(e)
    PROVE  MaintenanceOK'
<1> USE DEF MaintenanceOK, MaintenanceInv
<1>1. lease \in [Execs -> {"queued", "live", "late", "lost", "closed"}]
  BY DEF TypeOK
<1>2. PICK next \in {"late", "lost"} :
      /\ lease[e] \in {"live", "late"} /\ lease' = [lease EXCEPT ![e] = next]
      /\ UNCHANGED <<rows, cleaning, pc, stage, canon, quar, moved, ws, tree, stack, queue,
                     intent, owned, sweep, old, restored>>
  BY DEF LeaseLate, LoseLease, dataVars, wsVars, workerVars
<1>3. /\ lease' \in [Execs -> {"queued", "live", "late", "lost", "closed"}] /\ lease'[e] = next
      /\ \A x \in Execs \ {e} : lease'[x] = lease[x]
  BY <1>1, <1>2
<1>4. TypeOK' /\ Shapes'
  BY <1>2, <1>3 DEF TypeOK, Shapes
<1>5. TodoKind' /\ OwnKeys' /\ GoodQueue(queue')
  BY <1>2 DEF TodoKind, OwnKeys
<1>6. e \notin rows
  BY <1>2 DEF Leases
<1>7. Leases'
  <2>1. ASSUME NEW x \in Execs, lease'[x] = "queued" PROVE Untouched(x)'
    <3>1. x # e /\ lease[x] = "queued"
      BY <1>3, <2>1
    <3>2. Untouched(x) /\ pc'[x] = pc[x]
      BY <1>2, <3>1 DEF Leases
    <3> QED BY <1>2, <3>2, UntouchedKept
  <2>2. \A x \in Execs : lease'[x] = "closed" => pc'[x] \in {"published", "settled", "end", "dead"}
    BY <1>2, <1>3 DEF Leases
  <2>3. \A x \in Execs : x \in rows' => lease'[x] = "closed"
    BY <1>2, <1>3, <1>6 DEF Leases
  <2> QED BY <2>1, <2>2, <2>3 DEF Leases
<1>8. Unpublished'
  BY <1>2 DEF Unpublished, Early
<1>9. Snapshot'
  BY <1>2, <1>3 DEF Snapshot
<1>10. NothingUntracked' /\ Cleaned'
  BY <1>2 DEF NothingUntracked, Tracked, Cleaned
<1>11. LiveKept'
  BY <1>2, <1>3 DEF LiveKept
<1> QED BY <1>4, <1>5, <1>7, <1>8, <1>9, <1>10, <1>11

\* An artifact a build records: a sweep that does not know the row yet knows the
\* lease, has missed it or has no old file.
LEMMA RecordInv ==
    ASSUME MaintenanceOK, NEW e \in Execs,
           NEW next \in {"settled", "published"}, Records(e, next)
    PROVE  MaintenanceOK'
<1> USE DEF MaintenanceOK, MaintenanceInv
<1>1. /\ lease \in [Execs -> {"queued", "live", "late", "lost", "closed"}]
      /\ pc \in [Execs -> PcStates] /\ rows \subseteq Builds
  BY DEF TypeOK, PcStates
<1>2. /\ pc[e] = "published" /\ lease[e] \in {"live", "late"}
      /\ lease' = [lease EXCEPT ![e] = "closed"]
      /\ rows' = IF e \in Builds THEN rows \cup {e} ELSE rows
      /\ pc' = [pc EXCEPT ![e] = next]
      /\ UNCHANGED <<cleaning, stage, canon, quar, moved, ws, tree, stack, queue, intent, owned,
                     sweep, old, restored>>
  BY DEF Records, dataVars, wsVars
<1>3. /\ lease' \in [Execs -> {"queued", "live", "late", "lost", "closed"}] /\ lease'[e] = "closed"
      /\ \A x \in Execs \ {e} : lease'[x] = lease[x]
  BY <1>1, <1>2
<1>4. /\ pc' \in [Execs -> PcStates] /\ \A x \in Execs \ {e} : pc'[x] = pc[x]
      /\ pc'[e] = next
  BY <1>1, <1>2 DEF PcStates
<1>5. /\ rows' \subseteq Builds /\ rows \subseteq rows' /\ \A x \in rows' : x = e \/ x \in rows
  BY <1>1, <1>2
<1>6. TypeOK' /\ Shapes'
  BY <1>2, <1>3, <1>4, <1>5 DEF TypeOK, Shapes, PcStates
<1>7. TodoKind' /\ OwnKeys' /\ GoodQueue(queue')
  BY <1>2 DEF TodoKind, OwnKeys
<1>8. Leases'
  <2>1. ASSUME NEW x \in Execs, lease'[x] = "queued" PROVE Untouched(x)'
    <3>1. x # e /\ lease[x] = "queued"
      BY <1>3, <2>1
    <3>2. Untouched(x) /\ pc'[x] = pc[x]
      BY <1>4, <3>1 DEF Leases
    <3> QED BY <1>2, <3>2, UntouchedKept
  <2>2. \A x \in Execs : lease'[x] = "closed" => pc'[x] \in {"published", "settled", "end", "dead"}
    BY <1>3, <1>4 DEF Leases
  <2>3. \A x \in Execs : x \in rows' => lease'[x] = "closed"
    BY <1>3, <1>5 DEF Leases
  <2> QED BY <2>1, <2>2, <2>3 DEF Leases
<1>9. Unpublished'
  BY <1>2, <1>4 DEF Unpublished, Early
<1>10. Snapshot'
  <2>1. sweep.phase # "idle" =>
           e \in sweep.active \cup sweep.missed \/ <<"file", e>> \notin sweep.old
    BY <1>2 DEF Snapshot
  <2>2. ASSUME sweep.phase # "idle", NEW x \in Execs
        PROVE  /\ x \in sweep.missed => lease'[x] \in {"late", "lost", "closed"}
               /\ \/ x \in sweep.active \cup sweep.missed
                  \/ lease'[x] \in {"lost", "closed"}
                  \/ <<"file", x>> \notin sweep.old /\ <<"workspace", x>> \notin sweep.old
    BY <1>3, <2>2 DEF Snapshot
  <2>3. ASSUME sweep.phase \in {"workspaces", "data"}, NEW x \in rows'
        PROVE  \/ x \in sweep.rows \cup sweep.active \cup sweep.missed
               \/ <<"file", x>> \notin sweep.old
    BY <1>5, <2>1, <2>3 DEF Snapshot
  <2> QED BY <1>2, <2>2, <2>3 DEF Snapshot
<1>11. NothingUntracked' /\ Cleaned'
  BY <1>2, <1>5 DEF NothingUntracked, Tracked, Cleaned
<1>12. LiveKept'
  BY <1>2, <1>3, <1>4 DEF LiveKept
<1> QED BY <1>6, <1>7, <1>8, <1>9, <1>10, <1>11, <1>12

\* Retention removes the file of an artifact under the lock of its row.
LEMMA RetainObjectInv ==
    ASSUME MaintenanceOK, NEW e \in Builds, RetainObject(e)
    PROVE  MaintenanceOK'
<1> USE DEF MaintenanceOK, MaintenanceInv
<1>1. /\ e \in rows /\ cleaning' = cleaning \cup {e} /\ canon' = [canon EXCEPT ![e] = Nobody]
      /\ UNCHANGED <<lease, rows, pc, stage, quar, moved, ws, tree, stack, queue, intent, owned,
                     sweep, old, restored>>
  BY DEF RetainObject, wsVars, workerVars
<1>2. /\ canon' \in [Keys -> Execs \cup {Nobody}] /\ canon'[e] = Nobody
      /\ \A k \in Keys \ {e} : canon'[k] = canon[k]
  BY <1>1, KeyFacts DEF TypeOK
<1>3. /\ e \in Execs /\ lease[e] = "closed" /\ rows \subseteq Builds
  BY <1>1, KeyFacts DEF Leases, TypeOK
<1>4. TypeOK' /\ Shapes'
  BY <1>1, <1>2 DEF TypeOK, Shapes
<1>5. TodoKind' /\ GoodQueue(queue')
  BY <1>1 DEF TodoKind
<1>6. OwnKeys'
  BY <1>1, <1>2, KeyFacts DEF OwnKeys
<1>7. Leases'
  <2>1. ASSUME NEW x \in Execs, lease[x] = "queued" PROVE Untouched(x)'
    <3>1. Untouched(x)
      BY <2>1 DEF Leases
    <3>2. canon'[Key(x)] \in {canon[Key(x)], Nobody} /\ x # Nobody
      BY <1>2, KeyFacts
    <3>3. canon'[Key(x)] # x
      BY <3>1, <3>2 DEF Untouched
    <3> QED BY <1>1, <3>1, <3>3 DEF Untouched
  <2> QED BY <1>1, <2>1 DEF Leases
<1>8. Unpublished'
  BY <1>1, <1>2, KeyFacts DEF Unpublished, Early
<1>9. Snapshot'
  BY <1>1 DEF Snapshot
<1>10. LiveKept'
  BY <1>1, <1>2, <1>3, KeyFacts DEF LiveKept
<1>11. NothingUntracked'
  <2>1. \A x \in Builds \ (rows' \cup restored) : canon'[x] = x => Tracked(Publication(x))
    BY <1>1, <1>2, KeyFacts DEF NothingUntracked
  <2> QED BY <1>1, <2>1 DEF NothingUntracked, Tracked
<1>12. Cleaned'
  BY <1>1, <1>2, <1>3, KeyFacts DEF Cleaned, TypeOK
<1> QED BY <1>4, <1>5, <1>6, <1>7, <1>8, <1>9, <1>10, <1>11, <1>12

\* The row is marked, or the transaction rolls back.
LEMMA RetainEndInv ==
    ASSUME MaintenanceOK, NEW e \in Builds, RetainEnd(e)
    PROVE  MaintenanceOK'
<1> USE DEF MaintenanceOK, MaintenanceInv
<1>1. /\ e \in cleaning /\ cleaning' = cleaning \ {e} /\ rows' \in {rows, rows \ {e}}
      /\ UNCHANGED <<lease, pc, stage, canon, quar, moved, ws, tree, stack, queue, intent, owned,
                     sweep, old, restored>>
  BY DEF RetainEnd, dataVars, wsVars, workerVars
<1>2. TypeOK' /\ Shapes'
  BY <1>1 DEF TypeOK, Shapes
<1>3. TodoKind' /\ GoodQueue(queue') /\ OwnKeys'
  BY <1>1 DEF TodoKind, OwnKeys
<1>4. Leases'
  <2>1. ASSUME NEW x \in Execs, lease[x] = "queued" PROVE Untouched(x)'
    BY <1>1, <2>1 DEF Leases, Untouched
  <2> QED BY <1>1, <2>1 DEF Leases
<1>5. Unpublished' /\ Snapshot' /\ LiveKept'
  BY <1>1 DEF Unpublished, Early, Snapshot, LiveKept
<1>6. NothingUntracked'
  <2>1. \A x \in Builds \ (rows' \cup restored) : canon[x] = x => Tracked(Publication(x))
    BY <1>1 DEF NothingUntracked, Cleaned
  <2> QED BY <1>1, <2>1 DEF NothingUntracked, Tracked
<1>7. Cleaned'
  BY <1>1 DEF Cleaned
<1> QED BY <1>2, <1>3, <1>4, <1>5, <1>6, <1>7

\* Files age; a running sweep goes by the ages it has read.
LEMMA TimePassesInv ==
    ASSUME MaintenanceOK, TimePasses
    PROVE  MaintenanceOK'
<1> USE DEF MaintenanceOK, MaintenanceInv
<1>1. UNCHANGED <<lease, rows, cleaning, pc, stage, canon, quar, moved, ws, tree, stack, queue,
                  intent, owned, sweep, restored>>
  BY DEF TimePasses, dbVars, dataVars, wsVars, workerVars
<1>2. old' = {<<"file", e>> : e \in {x \in Execs : stage[x] # "none" \/ canon[Key(x)] = x}}
                \cup {<<"quarantine", e>> : e \in {x \in Execs : quar[x] # "none"}}
                \cup {<<"workspace", e>> : e \in {x \in Builds : ws[x] # "none"}}
  BY DEF TimePasses
<1>3. /\ old' \subseteq {"file", "quarantine", "workspace"} \X Execs
      /\ \A x \in Execs : <<"file", x>> \in old' => stage[x] # "none" \/ canon[Key(x)] = x
      /\ \A x \in Execs : <<"workspace", x>> \in old' => x \in Builds /\ ws[x] # "none"
  BY <1>2, KeyFacts
<1>4. TypeOK' /\ Shapes'
  BY <1>1, <1>3 DEF TypeOK, Shapes
<1>5. GoodQueue(queue') /\ TodoKind' /\ OwnKeys' /\ Unpublished' /\ Snapshot'
  BY <1>1 DEF TodoKind, OwnKeys, Unpublished, Early, Snapshot
<1>6. Leases'
  <2>1. ASSUME NEW x \in Execs, lease[x] = "queued" PROVE Untouched(x)'
    <3>1. Untouched(x)
      BY <2>1 DEF Leases
    <3> QED BY <1>1, <1>3, <3>1 DEF Untouched
  <2> QED BY <1>1, <2>1 DEF Leases
<1>7. LiveKept' /\ NothingUntracked' /\ Cleaned'
  BY <1>1 DEF LiveKept, NothingUntracked, Tracked, Cleaned
<1> QED BY <1>4, <1>5, <1>6, <1>7
-----------------------------------------------------------------------------
(***************************************************************************)
(* The steps of a sweep and of a restart: the database and the workers     *)
(* stay where they are, and nothing is taken that is alive.                *)
(***************************************************************************)
CleaningStep ==
    /\ UNCHANGED <<lease, rows, cleaning, pc, intent, owned>>
    /\ old' \subseteq old
    /\ \A c \in queue' \ queue : \E r \in queue : c.id = r.id /\ c.bound = r.bound
    /\ \A e \in Execs :
         /\ stage'[e] \in {stage[e], "none"}
         /\ lease[e] = "live" /\ pc[e] = "copying" => stage'[e] = stage[e]
         /\ moved'[e] \in {moved[e], Nobody}
    /\ \A e \in Builds :
         /\ lease[e] \in {"live", "queued"} => ws'[e] = ws[e]
         /\ \/ canon'[e] = canon[e]
            \/ canon'[e] = Nobody /\ lease[e] # "live"
            \/ canon'[e] = moved[e] /\ canon[e] = Nobody
    /\ \/ canon'[Normalized] \in {canon[Normalized], Nobody}
       \/ \E e \in Parses : canon'[Normalized] = moved[e]

\* A sweep or a restart keeps the invariant if it spares what is alive.
LEMMA CleaningStepKeeps ==
    ASSUME MaintenanceInv, CleaningStep, TypeOK', Shapes', GoodQueue(queue'), TodoKind', Snapshot'
    PROVE  MaintenanceInv'
<1> USE DEF MaintenanceInv
<1>1. OwnKeys'
  BY KeyFacts DEF CleaningStep, OwnKeys
<1>2. Leases'
  <2>1. ASSUME NEW x \in Execs, lease[x] = "queued" PROVE Untouched(x)'
    <3>1. Untouched(x) /\ x # Nobody
      BY <2>1, KeyFacts DEF Leases
    <3>2. canon'[Key(x)] # x
      <4>1. CASE x \in Builds
        BY <3>1, <4>1, KeyFacts DEF CleaningStep, Untouched
      <4>2. CASE x \in Parses
        BY <3>1, <4>2, KeyFacts DEF CleaningStep, Untouched
      <4> QED BY <4>1, <4>2 DEF Execs
    <3>3. \A y \in Execs : moved'[y] # x
      BY <3>1 DEF CleaningStep, Untouched
    <3>4. /\ pc'[x] \in {"start", "end"} /\ stage'[x] = "none"
          /\ x \in Builds => ws'[x] = "none"
          /\ <<"file", x>> \notin old' /\ <<"workspace", x>> \notin old'
      BY <2>1, <3>1 DEF CleaningStep, Untouched
    <3> QED BY <3>2, <3>3, <3>4 DEF Untouched
  <2> QED BY <2>1 DEF CleaningStep, Leases
<1>3. Unpublished'
  <2> SUFFICES ASSUME NEW x \in Execs, Early(x)'
               PROVE  /\ x \in Builds => canon'[x] = Nobody /\ moved'[x] = Nobody
                      /\ \A c \in queue' : c.id = Publication(x) => ~c.bound
    BY DEF Unpublished, CopiesIn
  <2>1. Early(x)
    BY DEF CleaningStep, Early
  <2>2. /\ x \in Builds => canon[x] = Nobody /\ moved[x] = Nobody
        /\ \A c \in queue : c.id = Publication(x) => ~c.bound
    BY <2>1 DEF Unpublished, CopiesIn
  <2>3. x \in Builds => canon'[x] = Nobody /\ moved'[x] = Nobody
    BY <2>2 DEF CleaningStep
  <2>4. ASSUME NEW c \in queue', c.id = Publication(x) PROVE ~c.bound
    BY <2>2, <2>4 DEF CleaningStep
  <2> QED BY <2>3, <2>4
<1>4. LiveKept'
  <2> SUFFICES ASSUME NEW x \in Execs, lease[x] = "live"
               PROVE  /\ x \in Builds /\ pc[x] \in {"working", "copying", "published"}
                            => ws'[x] = "dir"
                      /\ pc[x] = "copying" => stage'[x] = "marked"
                      /\ x \in Builds /\ pc[x] = "published" => canon'[x] = x
    BY DEF CleaningStep, LiveKept
  <2> QED BY KeyFacts DEF CleaningStep, LiveKept
<1> QED BY <1>1, <1>2, <1>3, <1>4

\* What such a step has to leave tracked.
CleaningTracks ==
    /\ \A e \in Execs : stage'[e] # "none" /\ CopiesIn(queue, Publication(e)) # {} =>
          CopiesIn(queue', Publication(e)) # {}
    /\ \A e \in Execs : quar'[e] \notin {"none", "stray"} =>
          quar[e] \notin {"none", "stray"}
          /\ (CopiesIn(queue, Quarantine(e)) # {} => CopiesIn(queue', Quarantine(e)) # {})
    /\ \A e \in Builds : ws'[e] # "none" =>
          ws[e] # "none"
          /\ (CopiesIn(queue, Workspace(e)) # {} => CopiesIn(queue', Workspace(e)) # {})
    /\ \A e \in Builds \ restored' : canon'[e] = e =>
          canon[e] = e
          /\ (CopiesIn(queue, Publication(e)) # {} => CopiesIn(queue', Publication(e)) # {})
    /\ restored \subseteq restored'

\* A sweep or a restart leaves nothing untracked if every record it drops has
\* nothing left to lead to.
LEMMA CleaningStepTracks ==
    ASSUME NothingUntracked, Cleaned, cleaning \subseteq Builds, CleaningStep, CleaningTracks
    PROVE  NothingUntracked' /\ Cleaned'
<1>1. \A e \in Execs : stage'[e] # "none" => stage[e] # "none"
  BY DEF CleaningStep
<1>2. rows' = rows /\ cleaning' = cleaning
  BY DEF CleaningStep
<1>3. NothingUntracked'
  BY <1>1, <1>2 DEF NothingUntracked, Tracked, CleaningTracks
<1>4. Cleaned'
  BY <1>2 DEF Cleaned, CleaningTracks
<1> QED BY <1>3, <1>4

\* Both at once.
LEMMA CleaningStepInv ==
    ASSUME MaintenanceOK, CleaningStep, CleaningTracks, TypeOK', Shapes', GoodQueue(queue'),
           TodoKind', Snapshot'
    PROVE  MaintenanceOK'
<1>1. MaintenanceInv /\ NothingUntracked /\ Cleaned /\ cleaning \subseteq Builds
  BY DEF MaintenanceOK, MaintenanceInv, TypeOK
<1>2. MaintenanceInv'
  BY <1>1, CleaningStepKeeps
<1>3. NothingUntracked' /\ Cleaned'
  BY <1>1, CleaningStepTracks
<1> QED BY <1>2, <1>3 DEF MaintenanceOK

\* A restart reconciles the queue: the newest copy of each record stays.
LEMMA RestartInv ==
    ASSUME MaintenanceOK, Restart
    PROVE  MaintenanceOK'
<1> USE DEF MaintenanceOK, MaintenanceInv
<1>1. UNCHANGED <<lease, rows, cleaning, pc, stage, canon, quar, moved, ws, tree, stack,
                  intent, owned, sweep, old, restored>>
  BY DEF Restart, dbVars, dataVars, wsVars, workerVars
<1>2. PICK q, one, two : /\ one = "data" /\ two = "workspaces"
                         /\ q = Reconciled(queue, one) /\ queue' = Reconciled(q, two)
  BY DEF Restart
<1>3. q \subseteq queue /\ \A id : CopiesIn(queue, id) # {} => CopiesIn(q, id) # {}
  BY <1>2, ReconciledKeeps
<1>4. GoodQueue(q)
  BY <1>3, FewerCopies
<1>5. queue' \subseteq q /\ \A id : CopiesIn(q, id) # {} => CopiesIn(queue', id) # {}
  BY <1>2, <1>4, ReconciledKeeps
<1>6. GoodQueue(queue')
  BY <1>4, <1>5, FewerCopies
<1>7. TypeOK' /\ Shapes' /\ TodoKind' /\ Snapshot'
  BY <1>1, <1>6 DEF TypeOK, Shapes, TodoKind, Snapshot, GoodQueue
<1>8. CleaningStep
  BY <1>1, <1>3, <1>5 DEF CleaningStep
<1>9. CleaningTracks
  BY <1>1, <1>3, <1>5 DEF CleaningTracks
<1> QED BY <1>6, <1>7, <1>8, <1>9, CleaningStepInv

SweepShapes ==
    [phase : {"idle", "reading", "workspaces", "data"},
     active : SUBSET Execs, missed : SUBSET Execs, rows : SUBSET Builds,
     old : SUBSET ({"file", "quarantine", "workspace"} \X Execs), todo : SUBSET Copies]

\* A step that moves the sweep only.
LEMMA SweepOnlyInv ==
    ASSUME MaintenanceOK, sweep' \in SweepShapes, TodoKind', Snapshot',
           UNCHANGED sweepUnchanged
    PROVE  MaintenanceOK'
<1> USE DEF MaintenanceOK, MaintenanceInv
<1>1. UNCHANGED <<lease, rows, cleaning, pc, stage, canon, quar, moved, ws, tree, stack, queue,
                  intent, owned, old, restored>>
  BY DEF sweepUnchanged, dbVars, dataVars, wsVars, workerVars
<1>2. /\ sweep'.phase \in {"idle", "reading", "workspaces", "data"}
      /\ sweep'.active \subseteq Execs /\ sweep'.missed \subseteq Execs
      /\ sweep'.rows \subseteq Builds
      /\ sweep'.todo \subseteq Copies
  BY DEF SweepShapes
<1>3. TypeOK' /\ Shapes' /\ GoodQueue(queue')
  BY <1>1, <1>2 DEF TypeOK, Shapes, SweepShapes
<1>4. CleaningStep /\ CleaningTracks
  BY <1>1 DEF CleaningStep, CleaningTracks
<1> QED BY <1>3, <1>4, CleaningStepInv

\* No sweep, no snapshot to be wrong.
LEMMA NoSweepGood ==
    ASSUME sweep' = NoSweep
    PROVE  sweep' \in SweepShapes /\ TodoKind' /\ Snapshot'
BY DEF NoSweep, SweepShapes, TodoKind, Snapshot

\* A sweep begins, reads the rows, turns to the data root and ends without touching
\* a file.
LEMMA SweepTurns ==
    ASSUME MaintenanceOK, SweepBegin \/ SweepReadRows \/ SweepTurn \/ SweepEnd
    PROVE  MaintenanceOK'
<1> USE DEF MaintenanceOK, MaintenanceInv
<1>1. sweep \in SweepShapes /\ queue \subseteq Copies
  BY DEF Shapes, SweepShapes, GoodQueue
<1>2. UNCHANGED sweepUnchanged /\ UNCHANGED <<lease, rows, cleaning, queue, old>>
  BY DEF SweepBegin, SweepReadRows, SweepTurn, SweepEnd, sweepUnchanged, dbVars
<1>3. \A kinds : Due(kinds) \subseteq Copies /\ \A r \in Due(kinds) : r.id[1] \in kinds
  BY <1>1 DEF Due
<1>4. CASE SweepBegin
  <2>1. PICK missed \in SUBSET {e \in Execs : lease[e] = "late"}, active \in SUBSET Execs :
           /\ active = {e \in Execs : lease[e] \in {"live", "late"}} \ missed
           /\ sweep' = [NoSweep EXCEPT !.phase = "reading", !.old = old, !.missed = missed,
                                       !.active = active]
    BY <1>4 DEF SweepBegin
  <2>2. /\ sweep'.phase = "reading" /\ sweep'.old = old
        /\ sweep'.active = active /\ sweep'.missed = missed
        /\ sweep' \in SweepShapes
    BY <2>1 DEF NoSweep, SweepShapes, Shapes
  <2>3. ASSUME NEW e \in Execs
        PROVE  /\ e \in missed => lease[e] \in {"late", "lost", "closed"}
               /\ \/ e \in active \cup missed
                  \/ lease[e] \in {"lost", "closed"}
                  \/ <<"file", e>> \notin old /\ <<"workspace", e>> \notin old
    <3>1. e \notin active \cup missed => lease[e] \in {"queued", "lost", "closed"}
      BY <2>1 DEF TypeOK
    <3> QED BY <2>1, <3>1 DEF Leases, Untouched
  <2>4. TodoKind' /\ Snapshot'
    BY <1>2, <2>2, <2>3 DEF TodoKind, Snapshot
  <2> QED BY <1>2, <2>2, <2>4, SweepOnlyInv
<1>5. CASE SweepReadRows
  <2>1. PICK due : /\ due = Due({"workspace"})
                   /\ sweep' = [sweep EXCEPT !.phase = "workspaces", !.rows = rows, !.todo = due]
    BY <1>5 DEF SweepReadRows
  <2>2. due \subseteq Copies /\ \A r \in due : r.id[1] = "workspace"
    BY <1>3, <2>1
  <2>3. /\ sweep'.phase = "workspaces" /\ sweep'.old = sweep.old /\ sweep'.todo = due
        /\ sweep'.active = sweep.active /\ sweep'.missed = sweep.missed /\ sweep'.rows = rows
    BY <1>1, <2>1 DEF SweepShapes
  <2>4. sweep' \in SweepShapes
    BY <1>1, <2>1, <2>2 DEF SweepShapes, TypeOK
  <2>5. TodoKind' /\ Snapshot'
    BY <1>2, <1>5, <2>2, <2>3 DEF TodoKind, Snapshot, SweepReadRows
  <2> QED BY <1>2, <2>4, <2>5, SweepOnlyInv
<1>6. CASE SweepTurn
  <2>1. PICK due : /\ due = Due({"publication", "quarantine"})
                   /\ sweep' = [sweep EXCEPT !.phase = "data", !.todo = due]
    BY <1>6 DEF SweepTurn
  <2>2. due \subseteq Copies
    BY <1>3, <2>1
  <2>3. /\ sweep'.phase = "data" /\ sweep'.old = sweep.old
        /\ sweep'.active = sweep.active /\ sweep'.missed = sweep.missed
        /\ sweep'.rows = sweep.rows
    BY <1>1, <2>1 DEF SweepShapes
  <2>4. sweep' \in SweepShapes
    BY <1>1, <2>1, <2>2 DEF SweepShapes
  <2>5. TodoKind' /\ Snapshot'
    BY <1>2, <1>6, <2>3 DEF TodoKind, Snapshot, SweepTurn
  <2> QED BY <1>2, <2>4, <2>5, SweepOnlyInv
<1>7. CASE SweepEnd
  BY <1>2, <1>7, NoSweepGood, SweepOnlyInv DEF SweepEnd
<1> QED BY <1>4, <1>5, <1>6, <1>7

\* A sweep that raises on a stack leaves every record where it is.
LEMMA SweepRaisesInv ==
    ASSUME MaintenanceOK, NEW r, SweepRaises(r)
    PROVE  MaintenanceOK'
<1>1. sweep' = NoSweep /\ UNCHANGED sweepUnchanged
  BY DEF SweepRaises
<1> QED BY <1>1, NoSweepGood, SweepOnlyInv

\* A record the sweep has dealt with, or was about to settle when it died.
LEMMA SettleGood ==
    ASSUME MaintenanceInv, NEW r \in queue, NEW outcome \in {"done", "deferred", "held"},
           Settle(r, outcome) \/ SweepDies(r, outcome), UNCHANGED <<lease, rows>>
    PROVE  /\ GoodQueue(queue') /\ KeepsOthers(queue, queue', r.id)
           /\ outcome # "done" \/ SweepDies(r, outcome) => KeepsAll(queue, queue')
           /\ \A c \in queue' \ queue : c.id = r.id /\ c.bound = r.bound
           /\ sweep' \in SweepShapes /\ TodoKind' /\ Snapshot'
<1> USE DEF MaintenanceInv
<1>1. GoodQueue(queue) /\ r \in Copies /\ sweep \in SweepShapes
  BY DEF GoodQueue, Shapes, SweepShapes
<1>2. PICK bound \in BOOLEAN : bound = r.bound
  BY <1>1, CopyFields
<1>3. KeepsAll(queue, queue) /\ \A p : KeepsAll(queue, p) => KeepsOthers(queue, p, r.id)
  BY DEF KeepsAll, KeepsOthers
<1>4. outcome # "done" => outcome \in Lanes
  BY DEF Lanes
<1>5. CASE Settle(r, outcome)
  <2>1. sweep' \in SweepShapes /\ TodoKind' /\ Snapshot'
    <3>1. sweep' = [sweep EXCEPT !.todo = sweep.todo \ {r}]
      BY <1>5 DEF Settle
    <3>2. sweep' \in SweepShapes
      BY <1>1, <3>1 DEF SweepShapes
    <3>3. /\ sweep'.phase = sweep.phase /\ sweep'.active = sweep.active
          /\ sweep'.missed = sweep.missed
          /\ sweep'.rows = sweep.rows /\ sweep'.old = sweep.old
          /\ sweep'.todo = sweep.todo \ {r}
      BY <1>1, <3>1 DEF SweepShapes
    <3> QED BY <3>2, <3>3 DEF TodoKind, Snapshot
  <2>2. CASE outcome = "done"
    <3>1. queue' = CompleteItem(queue, r) /\ queue' = queue \ {r}
      BY <1>5, <2>2 DEF Settle, CompleteItem
    <3>2. GoodQueue(queue') /\ KeepsOthers(queue, queue', r.id)
      BY <1>1, <3>1, CompleteGood
    <3>3. SweepDies(r, outcome) => queue' = queue
      BY <2>2 DEF SweepDies
    <3> QED BY <1>3, <2>1, <2>2, <3>1, <3>2, <3>3
  <2>3. CASE outcome # "done"
    <3>1. queue' = MoveItem(queue, r, outcome, bound)
      BY <1>2, <1>5, <2>3 DEF Settle
    <3>2. /\ GoodQueue(queue') /\ KeepsAll(queue, queue')
          /\ \A c \in queue' \ queue : c.id = r.id /\ c.bound = bound
      BY <1>1, <1>4, <2>3, <3>1, MoveGood
    <3> QED BY <1>2, <1>3, <2>1, <3>2
  <2> QED BY <2>2, <2>3
<1>6. CASE SweepDies(r, outcome)
  <2>1. sweep' \in SweepShapes /\ TodoKind' /\ Snapshot'
    BY <1>6, NoSweepGood DEF SweepDies
  <2>2. CASE queue' = queue
    BY <1>1, <1>3, <2>1, <2>2
  <2>3. CASE queue' # queue
    <3>1. outcome # "done" /\ queue' = MoveEnqueue(queue, r, outcome, bound)
      BY <1>2, <1>6, <2>3 DEF SweepDies
    <3>2. /\ GoodQueue(queue') /\ queue \subseteq queue'
          /\ \A c \in queue' \ queue : c.id = r.id /\ c.bound = bound
      BY <1>1, <1>4, <3>1, MoveEnqueueGood
    <3>3. KeepsAll(queue, queue')
      BY <3>2, MoreCopies
    <3> QED BY <1>2, <1>3, <2>1, <3>2, <3>3
  <2> QED BY <2>2, <2>3
<1> QED BY <1>5, <1>6

\* The record of an id is one of its kind.
LEMMA IdKinds ==
    ASSUME NEW r \in Copies
    PROVE  /\ r.id[1] = "publication" => r.id[2] \in Execs /\ r.id = Publication(r.id[2])
           /\ r.id[1] = "quarantine" => r.id[2] \in Execs /\ r.id = Quarantine(r.id[2])
           /\ r.id[1] = "workspace" => r.id[2] \in Builds /\ r.id = Workspace(r.id[2])
<1>1. r.id \in RecordIds
  BY CopyFields
<1> QED BY <1>1 DEF RecordIds, Publication, Quarantine, Workspace

\* The workspace a sweep clears is not one of an execution that is live on every
\* clock: its lease was live when the snapshot was taken, or its directory was
\* not old.
LEMMA SweepWorkspaceInv ==
    ASSUME MaintenanceOK, NEW r, SweepWorkspace(r)
    PROVE  MaintenanceOK'
<1> USE DEF MaintenanceOK, MaintenanceInv
<1>1. /\ r \in queue /\ r \in sweep.todo /\ sweep.phase = "workspaces"
      /\ UNCHANGED <<lease, rows, cleaning, stage, canon, quar, moved, pc, intent, owned, restored>>
  BY DEF SweepWorkspace, dbVars, dataVars, workerVars
<1>2. PICK e \in Builds : e = r.id[2] /\ r.id = Workspace(e)
  <2>1. r \in Copies /\ r.id[1] = "workspace"
    BY <1>1 DEF GoodQueue, TodoKind
  <2> QED BY <2>1, IdKinds
<1>3. PICK outcome : outcome = WorkspaceOutcome(r)
  OBVIOUS
<1>4. outcome \in {"done", "deferred", "held", "clear"}
  BY <1>3 DEF WorkspaceOutcome
<1>5. /\ outcome = "done" => ws[e] = "none"
      /\ outcome = "clear" => /\ e \notin sweep.active /\ ws[e] # "none"
                              /\ <<"workspace", e>> \in sweep.old
  BY <1>2, <1>3 DEF WorkspaceOutcome
<1>6. e \in Execs
  BY KeyFacts
<1>7. PICK dealt \in {"done", "deferred", "held"} :
        /\ Settle(r, dealt) \/ SweepDies(r, dealt)
        /\ ws' \in [Builds -> {"none", "dir", "retired"}]
        /\ tree' \in [Builds -> 0 .. Depth] /\ stack' \in [Builds -> 0 .. Depth]
        /\ old' \subseteq old
        /\ \A x \in Builds \ {e} : ws'[x] = ws[x]
        /\ ws'[e] = ws[e] \/ outcome = "clear"
        /\ ws'[e] # "none" => ws[e] # "none" /\ (dealt # "done" \/ SweepDies(r, dealt))
  <2>1. CASE outcome # "clear"
    <3>1. (Settle(r, outcome) \/ SweepDies(r, outcome)) /\ UNCHANGED <<wsVars, old>>
      BY <1>3, <2>1 DEF SweepWorkspace
    <3>2. outcome \in {"done", "deferred", "held"} /\ UNCHANGED <<ws, tree, stack, old>>
      BY <1>4, <2>1, <3>1 DEF wsVars
    <3>3. /\ ws' \in [Builds -> {"none", "dir", "retired"}]
          /\ tree' \in [Builds -> 0 .. Depth] /\ stack' \in [Builds -> 0 .. Depth]
      BY <3>2 DEF TypeOK
    <3>4. ws'[e] # "none" => outcome # "done"
      BY <1>5, <3>2
    <3> QED BY <3>1, <3>2, <3>3, <3>4
  <2>2. CASE outcome = "clear"
    <3>1. PICK p \in Cleared(tree[e], stack[e]), finished \in BOOLEAN :
             /\ CleanUp(e, p, finished)
             /\ \/ Settle(r, IF finished THEN "done" ELSE "deferred")
                \/ SweepDies(r, "done")
      BY <1>2, <1>3, <2>2, Zenon DEF SweepWorkspace
    <3>2. /\ ws' \in [Builds -> {"none", "dir", "retired"}]
          /\ tree' \in [Builds -> 0 .. Depth] /\ stack' \in [Builds -> 0 .. Depth]
          /\ \A x \in Builds \ {e} : ws'[x] = ws[x]
          /\ finished => ws'[e] = "none"
          /\ old' \subseteq old
      BY <3>1, CleanUpTypes
    <3>3. CASE SweepDies(r, "done")
      BY <1>5, <2>2, <3>2, <3>3
    <3>4. CASE finished /\ Settle(r, "done")
      BY <2>2, <3>2, <3>4
    <3>5. CASE ~finished /\ Settle(r, "deferred")
      BY <1>5, <2>2, <3>2, <3>5
    <3> QED BY <3>1, <3>3, <3>4, <3>5
  <2> QED BY <2>1, <2>2
<1>8. /\ GoodQueue(queue') /\ KeepsOthers(queue, queue', Workspace(e))
      /\ dealt # "done" \/ SweepDies(r, dealt) => KeepsAll(queue, queue')
      /\ \A c \in queue' \ queue : c.id = r.id /\ c.bound = r.bound
      /\ sweep' \in SweepShapes /\ TodoKind' /\ Snapshot'
  <2>1. r \in queue /\ UNCHANGED <<lease, rows>>
    BY <1>1
  <2>2. Settle(r, dealt) \/ SweepDies(r, dealt)
    BY <1>7
  <2>3. /\ GoodQueue(queue') /\ KeepsOthers(queue, queue', r.id)
        /\ dealt # "done" \/ SweepDies(r, dealt) => KeepsAll(queue, queue')
        /\ \A c \in queue' \ queue : c.id = r.id /\ c.bound = r.bound
        /\ sweep' \in SweepShapes /\ TodoKind' /\ Snapshot'
    BY <2>1, <2>2, SettleGood
  <2> QED BY <1>2, <2>3
<1>9. TypeOK' /\ Shapes'
  <2>1. /\ sweep'.phase \in {"idle", "reading", "workspaces", "data"}
        /\ sweep'.active \subseteq Execs /\ sweep'.missed \subseteq Execs
        /\ sweep'.rows \subseteq Builds
        /\ sweep'.todo \subseteq Copies
    BY <1>8 DEF SweepShapes
  <2> QED BY <1>1, <1>7, <1>8, <2>1 DEF TypeOK, Shapes, SweepShapes, GoodQueue
<1>10. outcome = "clear" => lease[e] \in {"late", "lost", "closed"}
  BY <1>1, <1>5, <1>6 DEF Snapshot
<1>11. CleaningStep
  <2>1. \A x \in Builds : lease[x] \in {"live", "queued"} => ws'[x] = ws[x]
    BY <1>7, <1>10
  <2> QED BY <1>1, <1>7, <1>8, <2>1 DEF CleaningStep
<1>12. CleaningTracks
  <2>1. \A x \in Execs : /\ Publication(x) \in RecordIds \ {Workspace(e)}
                         /\ Quarantine(x) \in RecordIds \ {Workspace(e)}
                         /\ x \in Builds /\ x # e => Workspace(x) \in RecordIds \ {Workspace(e)}
    BY <1>6, Ids
  <2>2. \A x \in Builds : x \in Execs /\ Workspace(x) \in RecordIds
    BY KeyFacts, Ids
  <2>3. \A x \in Builds : ws'[x] # "none" =>
           ws[x] # "none"
           /\ (CopiesIn(queue, Workspace(x)) # {} => CopiesIn(queue', Workspace(x)) # {})
    BY <1>7, <1>8, <2>1, <2>2 DEF KeepsOthers, KeepsAll
  <2> QED BY <1>1, <1>8, <2>1, <2>2, <2>3 DEF CleaningTracks, KeepsOthers
<1> QED BY <1>8, <1>9, <1>11, <1>12, CleaningStepInv

\* What the recovery of a publication removes is not in use, nor listed unless the
\* snapshot missed it, and a record is done with when nothing is left to remove.
RecoveryGood(e, recovery) ==
    /\ recovery.outcome \in {"done", "deferred", "held"}
    /\ recovery.canon \in BOOLEAN /\ recovery.stage \in BOOLEAN
    /\ recovery.stage => ~(lease[e] = "live" /\ pc[e] = "copying")
    /\ recovery.canon => /\ e \in Builds /\ lease[e] # "live"
                         /\ recovery.stage /\ recovery.outcome = "done"
                         /\ e \in rows => e \in sweep.missed \ sweep.rows
    /\ recovery.outcome = "done" =>
          /\ recovery.stage \/ stage[e] = "none"
          /\ e \in Builds => recovery.canon \/ canon[e] = Nobody

\* What _recover_queued_publication decides spares live objects.
LEMMA RecoveryFacts ==
    ASSUME MaintenanceInv, sweep.phase = "data", NEW r \in queue, NEW e \in Execs,
           r.id = Publication(e)
    PROVE  \A recovery : recovery = RecoverPublication(r) => RecoveryGood(e, recovery)
<1> USE DEF MaintenanceInv
<1> SUFFICES ASSUME NEW recovery, recovery = RecoverPublication(r)
             PROVE  /\ recovery.outcome \in {"done", "deferred", "held"}
                    /\ recovery.canon \in BOOLEAN /\ recovery.stage \in BOOLEAN
                    /\ recovery.stage => ~(lease[e] = "live" /\ pc[e] = "copying")
                    /\ recovery.canon => /\ e \in Builds /\ lease[e] # "live"
                                         /\ recovery.stage /\ recovery.outcome = "done"
                                         /\ e \in rows => e \in sweep.missed \ sweep.rows
                    /\ recovery.outcome = "done" =>
                          /\ recovery.stage \/ stage[e] = "none"
                          /\ e \in Builds => recovery.canon \/ canon[e] = Nobody
  BY DEF RecoveryGood
<1>1. r.id[2] = e
  BY DEF Publication
<1>2. PICK there : there = canon[Key(e)]
  OBVIOUS
<1>3. e \in Builds => there = canon[e] /\ there \in {e, Nobody}
  BY <1>2, KeyFacts DEF OwnKeys
<1>4. e \notin sweep.active /\ <<"file", e>> \in sweep.old => lease[e] # "live"
  BY DEF Snapshot
<1>5. CASE there = Nobody /\ stage[e] = "none"
  <2>1. recovery = [outcome |-> "done", canon |-> FALSE, stage |-> FALSE]
    BY <1>1, <1>2, <1>5 DEF RecoverPublication
  <2> QED BY <1>3, <1>5, <2>1
<1>6. CASE ~(there = Nobody /\ stage[e] = "none") /\ ~r.bound /\ (there # Nobody \/ stage[e] = "bare")
  <2>1. recovery = [outcome |-> "held", canon |-> FALSE, stage |-> FALSE]
    BY <1>1, <1>2, <1>6 DEF RecoverPublication
  <2> QED BY <2>1
<1>7. CASE there = Nobody /\ stage[e] # "none" /\ ~(~r.bound /\ stage[e] = "bare")
  <2>1. CASE <<"file", e>> \notin sweep.old \/ e \in sweep.active
    <3>1. recovery = [outcome |-> "deferred", canon |-> FALSE, stage |-> FALSE]
      BY <1>1, <1>2, <1>7, <2>1 DEF RecoverPublication
    <3> QED BY <3>1
  <2>2. CASE ~(<<"file", e>> \notin sweep.old \/ e \in sweep.active)
    <3>1. recovery = [outcome |-> "done", canon |-> FALSE, stage |-> TRUE]
      BY <1>1, <1>2, <1>7, <2>2 DEF RecoverPublication
    <3> QED BY <1>3, <1>4, <1>7, <2>2, <3>1
  <2> QED BY <2>1, <2>2
<1>8. CASE there # Nobody /\ r.bound /\ e \in Parses
  <2>1. recovery = [outcome |-> "done", canon |-> FALSE, stage |-> TRUE]
    BY <1>1, <1>2, <1>8 DEF RecoverPublication
  <2>2. pc[e] # "copying"
    BY <1>8 DEF Unpublished, Early, CopiesIn
  <2> QED BY <1>8, <2>1, <2>2, KeyFacts
<1>9. CASE there # Nobody /\ r.bound /\ e \in Builds
  <2>1. there = e /\ e \notin Parses
    BY <1>3, <1>9, KeyFacts
  <2>2. CASE Protected(e) \/ <<"file", e>> \notin sweep.old
    <3>1. recovery = [outcome |-> "deferred", canon |-> FALSE, stage |-> FALSE]
      BY <1>1, <1>2, <1>9, <2>1, <2>2 DEF RecoverPublication
    <3> QED BY <3>1
  <2>3. CASE ~(Protected(e) \/ <<"file", e>> \notin sweep.old)
    <3>1. recovery = [outcome |-> "done", canon |-> TRUE, stage |-> TRUE]
      BY <1>1, <1>2, <1>9, <2>1, <2>3 DEF RecoverPublication
    <3>2. lease[e] # "live" /\ (e \in rows => e \in sweep.missed \ sweep.rows)
      BY <1>4, <2>3 DEF Protected, Snapshot
    <3> QED BY <1>9, <3>1, <3>2
  <2> QED BY <2>2, <2>3
<1> QED BY <1>5, <1>6, <1>7, <1>8, <1>9 DEF Execs

\* The sweep of a publication record recovers, defers, holds or drops it.
LEMMA SweepPublicationInv ==
    ASSUME MaintenanceOK, NEW r, SweepPublication(r)
    PROVE  MaintenanceOK'
<1> USE DEF MaintenanceOK, MaintenanceInv
<1>1. /\ r \in queue /\ sweep.phase = "data" /\ r.id[1] = "publication"
      /\ UNCHANGED <<lease, rows, cleaning, quar, moved, ws, tree, stack, pc, intent, owned,
                     old, restored>>
  BY DEF SweepPublication, dbVars, wsVars, workerVars
<1>2. PICK e \in Execs : e = r.id[2] /\ r.id = Publication(e)
  <2>1. r \in Copies
    BY <1>1 DEF GoodQueue
  <2> QED BY <1>1, <2>1, IdKinds
<1>3. PICK recovery : recovery = RecoverPublication(r)
  OBVIOUS
<1>4. /\ recovery.outcome \in {"done", "deferred", "held"}
      /\ recovery.canon \in BOOLEAN /\ recovery.stage \in BOOLEAN
      /\ recovery.stage => ~(lease[e] = "live" /\ pc[e] = "copying")
      /\ recovery.canon => /\ e \in Builds /\ lease[e] # "live"
                           /\ recovery.stage /\ recovery.outcome = "done"
      /\ recovery.outcome = "done" =>
            /\ recovery.stage \/ stage[e] = "none"
            /\ e \in Builds => recovery.canon \/ canon[e] = Nobody
  <2>1. RecoveryGood(e, recovery)
    BY <1>1, <1>2, <1>3, RecoveryFacts
  <2> QED BY <2>1, Zenon DEF RecoveryGood
<1>5. canon' = IF recovery.canon THEN [canon EXCEPT ![Key(e)] = Nobody] ELSE canon
  BY <1>2, <1>3 DEF SweepPublication
<1>6. /\ canon' \in [Keys -> Execs \cup {Nobody}]
      /\ \A k \in Keys \ {Key(e)} : canon'[k] = canon[k]
      /\ canon'[Key(e)] = IF recovery.canon THEN Nobody ELSE canon[Key(e)]
  <2>1. CASE recovery.canon
    BY <1>5, <2>1, KeyFacts DEF TypeOK
  <2>2. CASE ~recovery.canon
    BY <1>5, <2>2, KeyFacts DEF TypeOK
  <2> QED BY <2>1, <2>2
<1>7. PICK dealt \in {"done", "deferred", "held"} :
        /\ Settle(r, dealt) \/ SweepDies(r, dealt)
        /\ stage' \in [Execs -> {"none", "bare", "marked"}]
        /\ \A x \in Execs \ {e} : stage'[x] = stage[x]
        /\ stage'[e] = stage[e] \/ (recovery.stage /\ stage'[e] = "none")
        /\ \/ dealt # "done" \/ SweepDies(r, dealt)
           \/ stage'[e] = "none" /\ (e \in Builds => canon'[e] = Nobody)
  <2>1. e \in Builds => Key(e) = e
    BY KeyFacts
  <2>2. CASE /\ stage' = IF recovery.stage THEN [stage EXCEPT ![e] = "none"] ELSE stage
             /\ Settle(r, recovery.outcome) \/ SweepDies(r, recovery.outcome)
    <3>1. /\ stage' \in [Execs -> {"none", "bare", "marked"}]
          /\ \A x \in Execs \ {e} : stage'[x] = stage[x]
          /\ recovery.stage => stage'[e] = "none"
          /\ ~recovery.stage => stage'[e] = stage[e]
      <4>1. CASE recovery.stage
        BY <2>2, <4>1 DEF TypeOK
      <4>2. CASE ~recovery.stage
        BY <2>2, <4>2 DEF TypeOK
      <4> QED BY <4>1, <4>2
    <3>2. recovery.outcome = "done" =>
             stage'[e] = "none" /\ (e \in Builds => canon'[e] = Nobody)
      BY <1>4, <1>6, <2>1, <3>1
    <3>3. stage'[e] = stage[e] \/ (recovery.stage /\ stage'[e] = "none")
      BY <1>4, <3>1
    <3> QED BY <1>4, <2>2, <3>1, <3>2, <3>3, Zenon
  <2>3. CASE UNCHANGED stage /\ SweepDies(r, "done")
    <3>1. /\ stage' \in [Execs -> {"none", "bare", "marked"}]
          /\ \A x \in Execs : stage'[x] = stage[x]
      BY <2>3 DEF TypeOK
    <3>2. "done" \in {"done", "deferred", "held"} /\ \A x \in Execs \ {e} : x \in Execs
      OBVIOUS
    <3> QED BY <2>3, <3>1, <3>2, Zenon
  <2> QED BY <1>2, <1>3, <2>2, <2>3 DEF SweepPublication
<1>8. /\ GoodQueue(queue') /\ KeepsOthers(queue, queue', Publication(e))
      /\ dealt # "done" \/ SweepDies(r, dealt) => KeepsAll(queue, queue')
      /\ \A c \in queue' \ queue : c.id = r.id /\ c.bound = r.bound
      /\ sweep' \in SweepShapes /\ TodoKind' /\ Snapshot'
  <2>1. r \in queue /\ UNCHANGED <<lease, rows>>
    BY <1>1
  <2>2. Settle(r, dealt) \/ SweepDies(r, dealt)
    BY <1>7
  <2>3. /\ GoodQueue(queue') /\ KeepsOthers(queue, queue', r.id)
        /\ dealt # "done" \/ SweepDies(r, dealt) => KeepsAll(queue, queue')
        /\ \A c \in queue' \ queue : c.id = r.id /\ c.bound = r.bound
        /\ sweep' \in SweepShapes /\ TodoKind' /\ Snapshot'
    BY <2>1, <2>2, SettleGood
  <2> QED BY <1>2, <2>3
<1>9. TypeOK' /\ Shapes'
  <2>1. /\ sweep'.phase \in {"idle", "reading", "workspaces", "data"}
        /\ sweep'.active \subseteq Execs /\ sweep'.missed \subseteq Execs
        /\ sweep'.rows \subseteq Builds
        /\ sweep'.todo \subseteq Copies
    BY <1>8 DEF SweepShapes
  <2> QED BY <1>1, <1>6, <1>7, <1>8, <2>1 DEF TypeOK, Shapes, SweepShapes, GoodQueue
<1>10. \A x \in Builds : \/ canon'[x] = canon[x]
                         \/ x = e /\ canon'[x] = Nobody /\ lease[x] # "live"
  BY <1>4, <1>6, KeyFacts
<1>11. CleaningStep
  <2>1. canon'[Normalized] = canon[Normalized]
    BY <1>4, <1>6, KeyFacts
  <2>2. \A x \in Execs : /\ stage'[x] \in {stage[x], "none"}
                         /\ lease[x] = "live" /\ pc[x] = "copying" => stage'[x] = stage[x]
    BY <1>4, <1>7
  <2> QED BY <1>1, <1>8, <1>10, <2>1, <2>2 DEF CleaningStep
<1>12. CleaningTracks
  <2>1. \A x \in Execs : /\ x # e => Publication(x) \in RecordIds \ {Publication(e)}
                         /\ Quarantine(x) \in RecordIds \ {Publication(e)}
                         /\ x \in Builds => Workspace(x) \in RecordIds \ {Publication(e)}
    BY Ids
  <2>2. \A x \in Builds : x \in Execs /\ x # Nobody
    BY KeyFacts
  <2>3. Publication(e) \in RecordIds
    BY Ids
  <2>4. \/ stage'[e] = "none" /\ (e \in Builds => canon'[e] = Nobody)
        \/ CopiesIn(queue, Publication(e)) # {} => CopiesIn(queue', Publication(e)) # {}
    BY <1>7, <1>8, <2>3 DEF KeepsAll
  <2>5. \A x \in Execs \ {e} :
           CopiesIn(queue, Publication(x)) # {} => CopiesIn(queue', Publication(x)) # {}
    BY <1>8, <2>1 DEF KeepsOthers
  <2>6. \A x \in Execs : stage'[x] # "none" /\ CopiesIn(queue, Publication(x)) # {} =>
           CopiesIn(queue', Publication(x)) # {}
    BY <2>4, <2>5
  <2>7. \A x \in Builds : canon'[x] = x =>
           canon[x] = x
           /\ (CopiesIn(queue, Publication(x)) # {} => CopiesIn(queue', Publication(x)) # {})
    BY <1>10, <2>2, <2>4, <2>5
  <2>8. /\ \A x \in Execs : CopiesIn(queue, Quarantine(x)) # {} => CopiesIn(queue', Quarantine(x)) # {}
        /\ \A x \in Builds : CopiesIn(queue, Workspace(x)) # {} => CopiesIn(queue', Workspace(x)) # {}
    BY <1>8, <2>1, <2>2 DEF KeepsOthers
  <2> QED BY <1>1, <2>6, <2>7, <2>8 DEF CleaningTracks
<1> QED BY <1>8, <1>9, <1>11, <1>12, CleaningStepInv

\* A quarantined file only goes back to a key that is free, so it replaces no
\* artifact of a live execution.
LEMMA SweepQuarantineInv ==
    ASSUME MaintenanceOK, NEW r, SweepQuarantine(r)
    PROVE  MaintenanceOK'
<1> USE DEF MaintenanceOK, MaintenanceInv
<1>1. /\ r \in queue /\ sweep.phase = "data" /\ r.id[1] = "quarantine"
      /\ UNCHANGED <<lease, rows, cleaning, stage, ws, tree, stack, pc, intent, owned, old>>
  BY DEF SweepQuarantine, dbVars, wsVars, workerVars
<1>2. PICK e \in Execs : e = r.id[2] /\ r.id = Quarantine(e)
  <2>1. r \in Copies
    BY <1>1 DEF GoodQueue
  <2> QED BY <1>1, <2>1, IdKinds
<1>3. PICK outcome : outcome = QuarantineOutcome(e)
  OBVIOUS
<1>4. /\ outcome \in {"done", "held", "deferred", "restore"}
      /\ outcome = "done" => quar[e] = "none"
      /\ outcome = "restore" => quar[e] # "none"
  BY <1>3 DEF QuarantineOutcome, GivenUp, TypeOK
<1>5. PICK dealt \in {"done", "deferred", "held"} :
        /\ Settle(r, dealt) \/ SweepDies(r, dealt)
        /\ quar' \in [Execs -> {"none", "bare", "noted", "full", "conflict", "stray"}]
        /\ \A x \in Execs \ {e} : quar'[x] = quar[x]
        /\ quar'[e] \notin {"none", "stray"} =>
              quar[e] \notin {"none", "stray"} /\ (dealt # "done" \/ SweepDies(r, dealt))
        /\ moved' \in [Execs -> Execs \cup {Nobody}]
        /\ \A x \in Execs : moved'[x] \in {moved[x], Nobody}
        /\ \/ UNCHANGED <<canon, restored>>
           \/ /\ canon[Key(e)] = Nobody /\ canon' = [canon EXCEPT ![Key(e)] = moved[e]]
              /\ restored' = restored \cup {Key(e)}
  <2>1. CASE outcome # "restore"
    <3>1. /\ Settle(r, outcome) \/ SweepDies(r, outcome)
          /\ UNCHANGED <<quar, moved, canon, restored>>
      BY <1>2, <1>3, <2>1 DEF SweepQuarantine
    <3>2. /\ quar' \in [Execs -> {"none", "bare", "noted", "full", "conflict", "stray"}]
          /\ moved' \in [Execs -> Execs \cup {Nobody}]
      BY <3>1 DEF TypeOK
    <3> QED BY <1>4, <2>1, <3>1, <3>2
  <2>2. CASE outcome = "restore"
    <3>1. Restore(r)
      BY <1>2, <1>3, <2>2 DEF SweepQuarantine
    <3>2. quar[e] # "none"
      BY <1>4, <2>2
    <3>3. CASE quar[e] = "full" /\ canon[Key(e)] # Nobody
      <4>1. /\ quar' = [quar EXCEPT ![e] = "conflict"]
            /\ Settle(r, "held") \/ SweepDies(r, "held")
            /\ UNCHANGED <<moved, canon, restored>>
        BY <1>2, <3>1, <3>3 DEF Restore
      <4>2. /\ quar' \in [Execs -> {"none", "bare", "noted", "full", "conflict", "stray"}]
            /\ \A x \in Execs \ {e} : quar'[x] = quar[x]
            /\ moved' \in [Execs -> Execs \cup {Nobody}]
        BY <4>1 DEF TypeOK
      <4> QED BY <3>3, <4>1, <4>2
    <3>4. CASE ~(quar[e] = "full" /\ canon[Key(e)] # Nobody)
      <4> DEFINE back == quar[e] = "full" /\ canon[Key(e)] = Nobody
      <4>1. /\ canon' = IF back THEN [canon EXCEPT ![Key(e)] = moved[e]] ELSE canon
            /\ moved' = [moved EXCEPT ![e] = Nobody]
            /\ restored' = IF back THEN restored \cup {Key(e)} ELSE restored
            /\ \/ /\ quar' = [quar EXCEPT ![e] = "none"]
                  /\ Settle(r, "done") \/ SweepDies(r, "done")
               \/ quar' = [quar EXCEPT ![e] = "noted"] /\ back /\ SweepDies(r, "done")
        BY <1>2, <3>1, <3>4 DEF Restore
      <4>2. /\ moved' \in [Execs -> Execs \cup {Nobody}]
            /\ \A x \in Execs : moved'[x] \in {moved[x], Nobody}
        BY <4>1 DEF TypeOK
      <4>3. \/ UNCHANGED <<canon, restored>>
            \/ /\ canon[Key(e)] = Nobody /\ canon' = [canon EXCEPT ![Key(e)] = moved[e]]
               /\ restored' = restored \cup {Key(e)}
        BY <4>1
      <4>4. /\ quar' \in [Execs -> {"none", "bare", "noted", "full", "conflict", "stray"}]
            /\ \A x \in Execs \ {e} : quar'[x] = quar[x]
            /\ quar'[e] = "none" \/ (quar[e] = "full" /\ SweepDies(r, "done"))
        BY <4>1 DEF TypeOK
      <4>5. Settle(r, "done") \/ SweepDies(r, "done")
        BY <4>1
      <4> QED BY <3>2, <4>2, <4>3, <4>4, <4>5
    <3> QED BY <3>3, <3>4
  <2> QED BY <2>1, <2>2
<1>6. /\ canon' \in [Keys -> Execs \cup {Nobody}]
      /\ restored \subseteq restored' /\ restored' \subseteq Keys
      /\ \A k \in Keys : \/ canon'[k] = canon[k]
                         \/ /\ k = Key(e) /\ k \in restored'
                            /\ canon[k] = Nobody /\ canon'[k] = moved[e]
  BY <1>5, KeyFacts DEF TypeOK
<1>7. /\ GoodQueue(queue') /\ KeepsOthers(queue, queue', Quarantine(e))
      /\ dealt # "done" \/ SweepDies(r, dealt) => KeepsAll(queue, queue')
      /\ \A c \in queue' \ queue : c.id = r.id /\ c.bound = r.bound
      /\ sweep' \in SweepShapes /\ TodoKind' /\ Snapshot'
  <2>1. r \in queue /\ UNCHANGED <<lease, rows>>
    BY <1>1
  <2>2. Settle(r, dealt) \/ SweepDies(r, dealt)
    BY <1>5
  <2>3. /\ GoodQueue(queue') /\ KeepsOthers(queue, queue', r.id)
        /\ dealt # "done" \/ SweepDies(r, dealt) => KeepsAll(queue, queue')
        /\ \A c \in queue' \ queue : c.id = r.id /\ c.bound = r.bound
        /\ sweep' \in SweepShapes /\ TodoKind' /\ Snapshot'
    BY <2>1, <2>2, SettleGood
  <2> QED BY <1>2, <2>3
<1>8. TypeOK' /\ Shapes'
  <2>1. /\ sweep'.phase \in {"idle", "reading", "workspaces", "data"}
        /\ sweep'.active \subseteq Execs /\ sweep'.missed \subseteq Execs
        /\ sweep'.rows \subseteq Builds
        /\ sweep'.todo \subseteq Copies
    BY <1>7 DEF SweepShapes
  <2> QED BY <1>1, <1>5, <1>6, <1>7, <2>1 DEF TypeOK, Shapes, SweepShapes, GoodQueue
<1>9. CleaningStep
  <2>1. ASSUME NEW x \in Builds
        PROVE  canon'[x] = canon[x] \/ (canon'[x] = moved[x] /\ canon[x] = Nobody)
    <3>1. x = Key(e) => e = x
      BY KeyFacts DEF Execs
    <3> QED BY <1>6, <3>1, KeyFacts
  <2>2. canon'[Normalized] = canon[Normalized] \/ \E x \in Parses : canon'[Normalized] = moved[x]
    <3>1. Normalized = Key(e) => e \in Parses
      BY KeyFacts DEF Execs
    <3>2. \/ canon'[Normalized] = canon[Normalized]
          \/ Normalized = Key(e) /\ canon'[Normalized] = moved[e]
      BY <1>6, KeyFacts
    <3> QED BY <3>1, <3>2, Zenon
  <2> QED BY <1>1, <1>2, <1>5, <1>7, <2>1, <2>2 DEF CleaningStep
<1>10. CleaningTracks
  <2>1. \A x \in Execs : /\ x # e => Quarantine(x) \in RecordIds \ {Quarantine(e)}
                         /\ Publication(x) \in RecordIds \ {Quarantine(e)}
                         /\ x \in Builds => Workspace(x) \in RecordIds \ {Quarantine(e)}
    BY Ids
  <2>2. \A x \in Builds : x \in Execs /\ x \in Keys
    BY KeyFacts
  <2>3. Quarantine(e) \in RecordIds
    BY Ids
  <2>4. \A x \in Execs : quar'[x] \notin {"none", "stray"} =>
           quar[x] \notin {"none", "stray"}
           /\ (CopiesIn(queue, Quarantine(x)) # {} => CopiesIn(queue', Quarantine(x)) # {})
    BY <1>5, <1>7, <2>1, <2>3 DEF KeepsOthers, KeepsAll
  <2>5. /\ \A x \in Execs : CopiesIn(queue, Publication(x)) # {} => CopiesIn(queue', Publication(x)) # {}
        /\ \A x \in Builds : CopiesIn(queue, Workspace(x)) # {} => CopiesIn(queue', Workspace(x)) # {}
    BY <1>7, <2>1, <2>2 DEF KeepsOthers
  <2>6. \A x \in Builds \ restored' : canon'[x] = canon[x]
    BY <1>6, <2>2
  <2>7. \A x \in Builds \ restored' : canon'[x] = x =>
           canon[x] = x
           /\ (CopiesIn(queue, Publication(x)) # {} => CopiesIn(queue', Publication(x)) # {})
    BY <2>2, <2>5, <2>6
  <2>8. \A x \in Builds : ws'[x] = ws[x]
    BY <1>1
  <2> QED BY <1>6, <2>4, <2>5, <2>7, <2>8, Zenon DEF CleaningTracks
<1> QED BY <1>7, <1>8, <1>9, <1>10, CleaningStepInv
-----------------------------------------------------------------------------
(***************************************************************************)
(* The theorems.                                                           *)
(***************************************************************************)
\* Every step of a worker.
LEMMA WorkerSteps ==
    ASSUME MaintenanceOK, NEW e \in Execs, Step(e)
    PROVE  MaintenanceOK'
<1>1. CASE Claim(e)
  BY <1>1, ClaimInv
<1>2. CASE LeaseLate(e) \/ LoseLease(e)
  BY <1>2, LeaseEndsInv
<1>3. CASE Record(e) \/ RecordUnacknowledged(e)
  BY <1>3, RecordInv DEF Record, RecordUnacknowledged
<1>4. CASE \E n \in 1 .. 3 : PublishStage(e, n)
  BY <1>4, PublishStageInv
<1>5. CASE \E n \in 1 .. 5 : PublishLink(e, n)
  BY <1>5, PublishLinkInv
<1>6. CASE \E n \in 1 .. 7 : Compensate(e, n)
  BY <1>6, CompensateInv
<1>7. CASE PublishStageRaises(e)
  BY <1>7, PublishStageRaisesInv
<1>8. CASE PublishRaises(e)
  BY <1>8, PublishRaisesInv
<1>9. CASE \E n \in 1 .. 4 : PublishLinkRaises(e, n)
  BY <1>9, PublishLinkRaisesInv
<1>10. CASE PublishReuse(e)
  BY <1>10, PublishReuseInv
<1>11. CASE PublishReuseDies(e)
  BY <1>11, PublishReuseDiesInv
<1>12. CASE CompensateLeavesDirectory(e)
  BY <1>12, CompensateLeavesDirectoryInv
<1>13. CASE CompensateSkips(e) \/ Die(e)
  BY <1>13, IdleSteps
<1> QED BY <1>1, <1>2, <1>3, <1>4, <1>5, <1>6, <1>7, <1>8, <1>9, <1>10, <1>11, <1>12, <1>13
     DEF Step

\* Every step of a build.
LEMMA BuildSteps ==
    ASSUME MaintenanceOK, NEW e \in Builds, BuildStep(e)
    PROVE  MaintenanceOK'
<1>1. CASE \E n \in 1 .. 4 : Allocate(e, n)
  BY <1>1, AllocateInv
<1>2. CASE \E n \in 0 .. 4 : AllocateRaises(e, n)
  BY <1>2, AllocateRaisesInv
<1>3. CASE OwnerCleanUp(e)
  BY <1>3, OwnerCleanUpInv
<1>4. CASE OwnerCleanUpDies(e)
  BY <1>4, OwnerCleanUpDiesInv
<1>5. CASE RetainObject(e)
  BY <1>5, RetainObjectInv
<1>6. CASE RetainEnd(e)
  BY <1>6, RetainEndInv
<1> QED BY <1>1, <1>2, <1>3, <1>4, <1>5, <1>6 DEF BuildStep

\* Every step of a sweep.
LEMMA SweepSteps ==
    ASSUME MaintenanceOK, SweepStep
    PROVE  MaintenanceOK'
<1>1. CASE SweepBegin \/ SweepReadRows \/ SweepTurn \/ SweepEnd
  BY <1>1, SweepTurns
<1>2. CASE Restart
  BY <1>2, RestartInv
<1>3. CASE \E r \in sweep.todo : SweepWorkspace(r) \/ SweepRaises(r)
  BY <1>3, SweepWorkspaceInv, SweepRaisesInv
<1>4. CASE \E r \in sweep.todo : SweepPublication(r) \/ SweepQuarantine(r)
  BY <1>4, SweepPublicationInv, SweepQuarantineInv
<1> QED BY <1>1, <1>2, <1>3, <1>4 DEF SweepStep

\* A stuttering step.
LEMMA StutterInv ==
    ASSUME MaintenanceOK, UNCHANGED vars
    PROVE  MaintenanceOK'
<1>1. UNCHANGED <<lease, rows, cleaning, pc, stage, canon, quar, moved, ws, tree, stack, queue,
                  intent, owned, sweep, old, restored>>
  BY DEF vars
<1>2. UNCHANGED sweepUnchanged
  BY <1>1 DEF sweepUnchanged, dbVars, dataVars, wsVars, workerVars
<1>3. sweep' \in SweepShapes /\ TodoKind' /\ Snapshot'
  BY <1>1 DEF MaintenanceOK, MaintenanceInv, Shapes, SweepShapes, TodoKind, Snapshot
<1> QED BY <1>2, <1>3, SweepOnlyInv

\* In every reachable state, for any executions, sweeps and crashes, the
\* variables of the maintenance fit together as MaintenanceInv says and no file
\* is left without a record.
THEOREM MaintenanceInvariant == Spec => []MaintenanceOK
<1>1. Init => MaintenanceOK
  BY InitInv
<1>2. MaintenanceOK /\ [Next]_vars => MaintenanceOK'
  <2> SUFFICES ASSUME MaintenanceOK, [Next]_vars PROVE MaintenanceOK'
    OBVIOUS
  <2>1. CASE \E e \in Execs : Step(e)
    BY <2>1, WorkerSteps
  <2>2. CASE \E e \in Builds : BuildStep(e)
    BY <2>2, BuildSteps
  <2>3. CASE SweepStep
    BY <2>3, SweepSteps
  <2>4. CASE TimePasses
    BY <2>4, TimePassesInv
  <2>5. CASE UNCHANGED vars
    BY <2>5, StutterInv
  <2> QED BY <2>1, <2>2, <2>3, <2>4, <2>5 DEF Next
<1> QED BY <1>1, <1>2, PTL DEF Spec

\* The variables keep their types, and the items a worker holds are copies of
\* its own records.
THEOREM MaintenanceTypes == Spec => []TypeOK
<1>1. MaintenanceOK => TypeOK
  BY DEF MaintenanceOK, MaintenanceInv
<1> QED BY <1>1, MaintenanceInvariant, PTL

\* Whoever takes the object of another key leaves this one alone.
LEMMA OtherKey ==
    ASSUME TypeOK, NEW e \in Builds, canon[e] = e, NEW x \in Execs, NEW by,
           canon' = [canon EXCEPT ![Key(x)] = by], canon[Key(x)] = Nobody \/ x # e
    PROVE  canon'[e] = e
<1>1. e \in Keys /\ e \in Execs /\ e # Nobody
  BY KeyFacts
<1>2. Key(x) # e
  BY <1>1, KeyFacts DEF Execs
<1> QED BY <1>1, <1>2 DEF TypeOK

\* A step of a worker.
LEMMA WorkerKeepsRecorded ==
    ASSUME MaintenanceOK, NEW e \in Builds, canon[e] = e, NEW x \in Execs, Step(x)
    PROVE  canon'[e] = e \/ \E n \in 1 .. 7 : Compensate(e, n)
<1>1. TypeOK
  BY DEF MaintenanceOK, MaintenanceInv
<1>2. CASE \/ Claim(x) \/ LeaseLate(x) \/ LoseLease(x) \/ Record(x) \/ RecordUnacknowledged(x)
           \/ \E n \in 1 .. 3 : PublishStage(x, n)
           \/ PublishStageRaises(x) \/ PublishRaises(x) \/ PublishReuse(x) \/ PublishReuseDies(x)
           \/ CompensateLeavesDirectory(x) \/ CompensateSkips(x) \/ Die(x)
  <2>1. canon' = canon
    BY <1>2 DEF Claim, LeaseLate, LoseLease, Record, RecordUnacknowledged, Records, PublishStage,
                PublishStageRaises, PublishRaises, PublishReuse, PublishReuseDies,
                CompensateLeavesDirectory, CompensateSkips, Die, dataVars
  <2> QED BY <2>1
<1>3. CASE \/ \E n \in 1 .. 5 : PublishLink(x, n)
           \/ \E n \in 1 .. 4 : PublishLinkRaises(x, n)
  <2>1. PICK by : canon' = [canon EXCEPT ![Key(x)] = by] /\ canon[Key(x)] = Nobody
    BY <1>3 DEF PublishLink, PublishLinkRaises
  <2> QED BY <1>1, <2>1, OtherKey
<1>4. ASSUME NEW n \in 1 .. 7, Compensate(x, n)
      PROVE  canon'[e] = e \/ \E m \in 1 .. 7 : Compensate(e, m)
  <2>1. CASE x = e
    BY <1>4, <2>1
  <2>2. CASE x # e
    <3>1. PICK by : canon' = [canon EXCEPT ![Key(x)] = by]
      BY <1>4 DEF Compensate
    <3> QED BY <1>1, <2>2, <3>1, OtherKey
  <2> QED BY <2>1, <2>2
<1> QED BY <1>2, <1>3, <1>4 DEF Step

\* A step of a build.
LEMMA BuildKeepsRecorded ==
    ASSUME MaintenanceOK, NEW e \in Builds, canon[e] = e, NEW x \in Builds, BuildStep(x)
    PROVE  canon'[e] = e \/ RetainObject(e)
<1>1. TypeOK /\ x \in Execs /\ Key(x) = x
  BY KeyFacts DEF MaintenanceOK, MaintenanceInv
<1>2. CASE \/ \E n \in 1 .. 4 : Allocate(x, n)
           \/ \E n \in 0 .. 4 : AllocateRaises(x, n)
           \/ OwnerCleanUp(x) \/ OwnerCleanUpDies(x) \/ RetainEnd(x)
  <2>1. canon' = canon
    BY <1>2 DEF Allocate, AllocateRaises, OwnerCleanUp, OwnerCleanUpDies, RetainEnd, dataVars
  <2> QED BY <2>1
<1>3. CASE RetainObject(x)
  <2>1. canon' = [canon EXCEPT ![Key(x)] = Nobody]
    BY <1>1, <1>3 DEF RetainObject
  <2> QED BY <1>1, <1>3, <2>1, OtherKey
<1> QED BY <1>2, <1>3 DEF BuildStep

\* A step of a sweep: a recorded artifact it removes is one its snapshot missed.
LEMMA SweepKeepsRecorded ==
    ASSUME MaintenanceOK, NEW e \in Builds, e \in rows, canon[e] = e, SweepStep
    PROVE  canon'[e] = e \/ (e \in sweep.missed \ sweep.rows /\ sweep.phase = "data")
<1>1. TypeOK /\ MaintenanceInv /\ GoodQueue(queue) /\ e \in Execs /\ e \in Keys /\ e # Nobody
  BY KeyFacts DEF MaintenanceOK, MaintenanceInv
<1>2. CASE \/ SweepBegin \/ SweepReadRows \/ SweepTurn \/ SweepEnd \/ Restart
           \/ \E r \in sweep.todo : SweepWorkspace(r) \/ SweepRaises(r)
  <2>1. canon' = canon
    BY <1>2 DEF SweepBegin, SweepReadRows, SweepTurn, SweepEnd, Restart, SweepWorkspace,
                SweepRaises, sweepUnchanged, dataVars
  <2> QED BY <2>1
<1>3. ASSUME NEW r, SweepPublication(r)
      PROVE  canon'[e] = e \/ (e \in sweep.missed \ sweep.rows /\ sweep.phase = "data")
  <2>1. r \in queue /\ r \in Copies /\ sweep.phase = "data" /\ r.id[1] = "publication"
    BY <1>1, <1>3 DEF SweepPublication, GoodQueue
  <2>2. PICK x \in Execs : x = r.id[2] /\ r.id = Publication(x)
    BY <2>1, IdKinds
  <2>3. PICK recovery : recovery = RecoverPublication(r)
    OBVIOUS
  <2>4. canon' = IF recovery.canon THEN [canon EXCEPT ![Key(x)] = Nobody] ELSE canon
    BY <1>3, <2>2, <2>3 DEF SweepPublication
  <2>5. RecoveryGood(x, recovery)
    BY <1>1, <2>1, <2>2, <2>3, RecoveryFacts
  <2>6. CASE x = e
    BY <2>1, <2>4, <2>5, <2>6 DEF RecoveryGood
  <2>7. CASE x # e
    <3>1. CASE recovery.canon
      <4>1. canon' = [canon EXCEPT ![Key(x)] = Nobody]
        BY <2>4, <3>1
      <4> QED BY <1>1, <2>7, <4>1, OtherKey
    <3>2. CASE ~recovery.canon
      BY <2>4, <3>2
    <3> QED BY <3>1, <3>2
  <2> QED BY <2>6, <2>7
<1>4. ASSUME NEW r, SweepQuarantine(r) PROVE canon'[e] = e
  <2>1. r \in queue /\ r \in Copies /\ r.id[1] = "quarantine"
    BY <1>1, <1>4 DEF SweepQuarantine, GoodQueue
  <2>2. PICK x \in Execs : x = r.id[2] /\ r.id = Quarantine(x)
    BY <2>1, IdKinds
  <2>3. \/ canon' = canon
        \/ canon[Key(x)] = Nobody /\ canon' = [canon EXCEPT ![Key(x)] = moved[x]]
    BY <1>4, <2>2 DEF SweepQuarantine, Restore
  <2>4. PICK by : by = moved[x]
    OBVIOUS
  <2> QED BY <1>1, <2>3, <2>4, OtherKey
<1> QED BY <1>2, <1>3, <1>4 DEF SweepStep

\* The file of an artifact the database lists stays: of all steps only retention,
\* the compensation of its own execution and a sweep whose snapshot missed the
\* lease take it away (_recover_queued_publication, delete_if_owned).
THEOREM RecordedArtifactsStay == Spec => RecordedKept
<1>1. ASSUME MaintenanceOK, [Next]_vars
      PROVE  [\A e \in rows : canon[e] = e =>
                 \/ canon'[e] = e
                 \/ RetainObject(e)
                 \/ \E n \in 1 .. 7 : Compensate(e, n)
                 \/ e \in sweep.missed \ sweep.rows /\ sweep.phase = "data"]_vars
  <2> SUFFICES ASSUME Next, NEW e \in rows, canon[e] = e
               PROVE  \/ canon'[e] = e
                      \/ RetainObject(e)
                      \/ \E n \in 1 .. 7 : Compensate(e, n)
                      \/ e \in sweep.missed \ sweep.rows /\ sweep.phase = "data"
    BY <1>1
  <2>1. e \in Builds
    BY <1>1 DEF MaintenanceOK, MaintenanceInv, TypeOK
  <2>2. CASE \E x \in Execs : Step(x)
    BY <1>1, <2>1, <2>2, WorkerKeepsRecorded
  <2>3. CASE \E x \in Builds : BuildStep(x)
    BY <1>1, <2>1, <2>3, BuildKeepsRecorded
  <2>4. CASE SweepStep
    BY <1>1, <2>1, <2>4, SweepKeepsRecorded
  <2>5. CASE TimePasses
    BY <2>5 DEF TimePasses, dataVars
  <2> QED BY <2>2, <2>3, <2>4, <2>5 DEF Next
<1> QED BY <1>1, MaintenanceInvariant, PTL DEF Spec, RecordedKept

\* A sweep leaves a live build its workspace, its stage and its object, and a
\* live parse its stage (WorkspaceManager.sweep_abandoned,
\* _recover_queued_publication).
THEOREM LiveExecutionsAreSpared == Spec => []LiveKept
<1>1. MaintenanceOK => LiveKept
  BY DEF MaintenanceOK, MaintenanceInv
<1> QED BY <1>1, MaintenanceInvariant, PTL

\* Wherever a process dies, in _publish, delete_if_owned, allocate or a sweep,
\* a file or directory it leaves has a record that leads a later sweep to it.
THEOREM LeftoversAreRecorded == Spec => []NothingUntracked
<1>1. MaintenanceOK => NothingUntracked
  BY DEF MaintenanceOK
<1> QED BY <1>1, MaintenanceInvariant, PTL
=============================================================================
