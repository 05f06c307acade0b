--------------------------- MODULE ReconcileProofs ---------------------------
(* The read-your-writes barrier keeps its promises for any number of files,   *)
(* queries and changes, and any size of the log and of the kernel's queue.    *)
EXTENDS Reconcile, FiniteSetTheorems, TLAPS

(***************************************************************************)
(* Types.                                                                  *)
(***************************************************************************)

LogType == [set: SUBSET Paths, doubt: BOOLEAN, exact: BOOLEAN]

(* TypeOK, variable by variable, and the type of the history it leaves out.   *)
(* That the cursor is never 0 takes more than types.                          *)
Typed ==
    /\ clock \in 1 .. MaxClock /\ changes \in 0 .. MaxChanges
    /\ disk \in [Files -> Nat] /\ stamp \in [Files -> 0 .. MaxClock]
    /\ hidden \subseteq Files /\ exact \in BOOLEAN
    /\ armed \in BOOLEAN /\ kernel \subseteq Paths /\ overflow \in BOOLEAN
    /\ reader \in Queries \cup {Nobody, Loop} /\ noted \in BOOLEAN
    /\ log \in LogType /\ batch \in LogType /\ Cardinality(log.set) <= LogCap
    /\ clean \in BOOLEAN /\ poison \in BOOLEAN /\ raced \in BOOLEAN
    /\ mirror \in [Files -> Nat] /\ fresh_ns \in 0 .. MaxClock
    /\ full_pass_done \in BOOLEAN /\ rebuilt \in BOOLEAN
    /\ pc \in [Queries -> Labels]
    /\ now \in 0 .. MaxClock /\ todo \subseteq Paths /\ gones \subseteq Files
    /\ listing \in [Files -> -1 .. MaxClock]
    /\ overtaken \subseteq Files /\ dropped \subseteq Files /\ returned \subseteq Files
    /\ since \in [Queries -> [Files -> SUBSET Int]]

LEMMA TypedMeansTypeOK == Typed /\ fresh_ns # 0 => TypeOK
  BY ConstantsAssumption DEF Typed, TypeOK, LogType

LEMMA EmptyLogTyped == EmptyLog \in LogType /\ EmptyLog.set = {}
  BY DEF EmptyLog, LogType

LEMMA InitTyped == Init => Typed
  <1> SUFFICES ASSUME Init PROVE Typed
    OBVIOUS
  <1>1. /\ disk \in [Files -> Nat] /\ stamp \in [Files -> 0 .. MaxClock] /\ mirror \in [Files -> Nat]
        /\ listing \in [Files -> -1 .. MaxClock] /\ since \in [Queries -> [Files -> SUBSET Int]]
        /\ pc \in [Queries -> Labels]
    BY ConstantsAssumption DEF Init, Unlisted, Unasked, Labels
  <1>2. log \in LogType /\ batch \in LogType /\ Cardinality(log.set) <= LogCap
    BY ConstantsAssumption, EmptyLogTyped, FS_EmptySet DEF Init
  <1>3. /\ clock \in 1 .. MaxClock /\ changes \in 0 .. MaxChanges /\ fresh_ns \in 0 .. MaxClock
        /\ now \in 0 .. MaxClock /\ exact \in BOOLEAN
    BY ConstantsAssumption DEF Init
  <1> QED  BY <1>1, <1>2, <1>3 DEF Init, Typed

LEMMA PathsFinite == IsFiniteSet(Paths)
  <1>1. IsFiniteSet({Root} \cup {Sub})
    BY FS_Singleton, FS_AddElement
  <1>2. IsFiniteSet(({Root} \cup {Sub}) \cup {Rules})
    BY <1>1, FS_AddElement
  <1>3. Paths = Files \cup (({Root} \cup {Sub}) \cup {Rules})
    BY DEF Paths
  <1> QED  BY <1>2, <1>3, ConstantsAssumption, FS_Union

LEMMA PostTyped ==
    ASSUME NEW paths \in SUBSET Paths, Post(paths),
           kernel \subseteq Paths, overflow \in BOOLEAN, armed \in BOOLEAN
    PROVE  kernel' \subseteq Paths /\ overflow' \in BOOLEAN
  BY DEF Post

LEMMA InstantTyped ==
    ASSUME NEW d \in [Files -> Nat], NEW h, NEW f \in Files
    PROVE  Instant(d, h, f) \subseteq Int
  BY DEF Instant, Absent, Shown

(* A change of the tree keeps the types if what it writes is typed. *)
LEMMA ChangeTyped ==
    ASSUME Typed, NEW paths \in SUBSET Paths, Change(paths),
           disk' \in [Files -> Nat], stamp' \in [Files -> 0 .. MaxClock], hidden' \subseteq Files
    PROVE  Typed'
  <1>1. kernel' \subseteq Paths /\ overflow' \in BOOLEAN
    BY PostTyped DEF Change, Typed
  <1>2. changes' \in 0 .. MaxChanges
    BY ConstantsAssumption DEF Change, Typed
  <1>3. since' \in [Queries -> [Files -> SUBSET Int]]
    <2>1. \A f \in Files: Instant(disk', hidden', f) \subseteq Int
      BY InstantTyped
    <2> QED  BY <2>1 DEF Change, Typed
  <1> QED  BY <1>1, <1>2, <1>3 DEF Change, Typed, witness, session, pass, passed

LEMMA TreeTyped == ASSUME Typed, TreeNext PROVE Typed'
  <1>1. CASE Tick
    BY <1>1, ConstantsAssumption DEF Tick, Typed, queue, witness, session, pass, history, passed
  <1>2. CASE Publish
    BY <1>2 DEF Publish, Typed, tree, queue, witness, pass, history, passed
  <1>3. ASSUME NEW f \in Files, Edit(f) \/ Create(f) \/ Delete(f)  PROVE Typed'
    <2>1. {f} \subseteq Paths /\ {f, Parent(f)} \subseteq Paths
      BY DEF Paths, Parent
    <2>2. /\ disk' \in [Files -> Nat] /\ stamp' \in [Files -> 0 .. MaxClock]
          /\ hidden' \subseteq Files
      <3>1. \A content \in Nat: Write(f, content) =>
                /\ disk' \in [Files -> Nat] /\ stamp' \in [Files -> 0 .. MaxClock]
                /\ hidden' \subseteq Files
        BY ConstantsAssumption DEF Write, Typed
      <3>2. changes + 2 \in Nat
        BY ConstantsAssumption DEF Typed
      <3> QED  BY <1>3, <3>1, <3>2 DEF Edit, Create, Delete
    <2>3. Change({f}) \/ Change({f, Parent(f)})
      BY <1>3 DEF Edit, Create, Delete
    <2> QED  BY <2>1, <2>2, <2>3, ChangeTyped
  <1>4. ASSUME NEW f \in Files, EditRules(f)  PROVE Typed'
    <2>1. {Rules} \subseteq Paths
      BY DEF Paths
    <2>2. /\ disk' \in [Files -> Nat] /\ stamp' \in [Files -> 0 .. MaxClock]
          /\ hidden' \subseteq Files
      BY <1>4 DEF EditRules, Typed
    <2>3. Change({Rules})
      BY <1>4 DEF EditRules
    <2> QED  BY <2>1, <2>2, <2>3, ChangeTyped
  <1> QED  BY <1>1, <1>2, <1>3, <1>4 DEF TreeNext

(* A note keeps the log within its cap. *)
LEMMA NoteTyped ==
    ASSUME NEW p \in Paths, log \in LogType, Cardinality(log.set) <= LogCap
    PROVE  Note(p) \in LogType /\ Cardinality(Note(p).set) <= LogCap
  <1>1. Note(p) \in LogType
    BY DEF Note, LogType
  <1>2. CASE log.doubt \/ p \in log.set \/ Cardinality(log.set) >= LogCap
    BY <1>2 DEF Note, LogType
  <1>3. CASE ~log.doubt /\ p \notin log.set /\ ~(Cardinality(log.set) >= LogCap)
    <2>1. IsFiniteSet(log.set)
      BY PathsFinite, FS_Subset DEF LogType
    <2>2. Cardinality(log.set) \in Nat /\ Cardinality(log.set \cup {p}) = Cardinality(log.set) + 1
      BY <1>3, <2>1, FS_CardinalityType, FS_AddElement
    <2>3. Note(p).set = log.set \cup {p}
      BY <1>3 DEF Note, LogType
    <2> QED  BY <1>1, <1>3, <2>2, <2>3, ConstantsAssumption
  <1> QED  BY <1>1, <1>2, <1>3

LEMMA WatchTyped == ASSUME Typed, WatchNext \/ ControlNext PROVE Typed'
  <1> USE DEF tree, witness, session, pass, history, passed
  <1>1. CASE LoopDrain
    BY <1>1 DEF LoopDrain, Typed
  <1>2. CASE NoteRecord
    <2>1. PICK p \in kernel: kernel' = kernel \ {p} /\ log' = Note(p)
      BY <1>2 DEF NoteRecord
    <2>2. log' \in LogType /\ Cardinality(log'.set) <= LogCap
      BY <2>1, NoteTyped DEF Typed
    <2> QED  BY <1>2, <2>1, <2>2 DEF NoteRecord, Typed
  <1>3. CASE NoteOverflow
    BY <1>3 DEF NoteOverflow, MarkDirty, Typed
  <1>4. CASE DrainDone
    BY <1>4 DEF DrainDone, MarkDirty, Typed, Labels
  <1>5. CASE armWatcher
    <2>1. log' \in LogType /\ log'.set = log.set
      BY <1>5 DEF armWatcher, Typed, LogType
    <2> QED  BY <1>5, <2>1 DEF armWatcher, Typed
  <1>6. CASE disarmWatcher
    <2>1. log' \in LogType /\ log'.set = log.set
      BY <1>6 DEF disarmWatcher, Typed, LogType
    <2> QED  BY <1>6, <2>1 DEF disarmWatcher, Typed
  <1> QED  BY <1>1, <1>2, <1>3, <1>4, <1>5, <1>6 DEF WatchNext, ControlNext

LEMMA QueryTyped == ASSUME Typed, NEW q \in Queries, QueryNext(q) PROVE Typed'
  <1> USE DEF tree, queue, witness, session, pass, history, passed
  <1>0. /\ \A label \in Labels: Goto(q, label) => pc' \in [Queries -> Labels]
        /\ {"idle", "flush", "flushing", "check", "upgrade", "downgrade", "answer", "gate", "load",
            "enter", "drain", "scoped", "walk", "visit", "commit"} \subseteq Labels
    BY DEF Goto, Typed, Labels, Writing
  <1>1. CASE Arrive(q)
    <2>1. [f \in Files |-> Instant(disk, hidden, f)] \in [Files -> SUBSET Int]
      BY InstantTyped DEF Typed
    <2>2. since' \in [Queries -> [Files -> SUBSET Int]]
      BY <1>1, <2>1 DEF Arrive, Typed
    <2> QED  BY <1>0, <1>1, <2>2 DEF Arrive, Typed
  <1>2. CASE Flush(q)
    BY <1>0, ConstantsAssumption, <1>2 DEF Flush, Typed
  <1>3. CASE Check(q) \/ Upgrade(q)
    BY <1>0, ConstantsAssumption, <1>3 DEF Check, Upgrade, Typed
  <1>4. CASE Gate(q)
    BY <1>0, ConstantsAssumption, <1>4 DEF Gate, Typed
  <1>5. CASE Enter(q) \/ Downgrade(q)
    <2>1. Enter(q) => now' \in 0 .. MaxClock
      BY ConstantsAssumption DEF Enter, Typed
    <2>2. Enter(q) => Typed'
      BY <1>0, <2>1 DEF Enter, Typed
    <2>3. Downgrade(q) => Typed'
      BY <1>0 DEF Downgrade, Typed
    <2> QED  BY <1>5, <2>2, <2>3
  <1>6. CASE FullWalk(q) \/ FullOne(q) \/ FullEnd(q)
    BY <1>0, ConstantsAssumption, <1>6 DEF FullWalk, FullOne, FullEnd, ReadInto, Settle, Typed, Paths
  <1>7. CASE Drain(q)
    <2>1. /\ log' \in LogType /\ log'.set = {} /\ log.set \subseteq Paths
          /\ Cardinality({}) <= LogCap
      BY <1>7, FS_EmptySet, ConstantsAssumption DEF Drain, Typed, LogType
    <2> QED  BY <1>0, ConstantsAssumption, <1>7, <2>1 DEF Drain, Typed, Unlisted
  <1>8. CASE ScopedOne(q)
    BY <1>0, ConstantsAssumption, <1>8 DEF ScopedOne, ReadInto, Settle, Typed, Paths
  <1>9. CASE ScopedEnd(q)
    BY <1>0, ConstantsAssumption, <1>9 DEF ScopedEnd, Typed
  <1>10. CASE Decline(q)
    BY <1>0, ConstantsAssumption, <1>10, EmptyLogTyped DEF Decline, PassOver, Typed, Unlisted, Unasked, Named
  <1>11. CASE Commit(q)
    <2>1. /\ fresh_ns' \in 0 .. MaxClock
          /\ overtaken' \subseteq Files
      BY <1>11 DEF Commit, Typed
    <2>2. now' \in 0 .. MaxClock /\ batch' \in LogType /\ listing' \in [Files -> -1 .. MaxClock]
      BY <1>11, ConstantsAssumption, EmptyLogTyped DEF Commit, PassOver, Unlisted
    <2> QED  BY <1>0, <1>11, <2>1, <2>2 DEF Commit, PassOver, Typed
  <1>12. CASE Load(q)
    <2>1. mirror' \in [Files -> Nat]
      BY <1>12 DEF Load, Typed, Live, InWalk
    <2> QED  BY <1>0, <1>12, <2>1 DEF Load, MarkDirty, Typed
  <1>13. CASE Answer(q)
    BY <1>0, ConstantsAssumption, <1>13 DEF Answer, Typed, Unasked
  <1> QED  BY <1>1, <1>2, <1>3, <1>4, <1>5, <1>6, <1>7, <1>8, <1>9, <1>10, <1>11, <1>12, <1>13
           DEF QueryNext, Full, Scoped

LEMMA TypedKept == ASSUME Typed, [Next]_vars PROVE Typed'
  <1>1. CASE UNCHANGED vars
    BY <1>1 DEF vars, tree, queue, witness, session, pass, history, passed, Typed
  <1> QED  BY <1>1, TreeTyped, WatchTyped, QueryTyped DEF Next

(***************************************************************************)
(* The locks: one writer and no answer beside it, one drainer of the queue.  *)
(***************************************************************************)

Exclusive == \A q, r \in Queries:
    q # r /\ pc[q] \in Writing => pc[r] \notin Writing \cup {"answer"}
ReaderKnown ==
    /\ \A q \in Queries: pc[q] = "flushing" <=> reader = q
    /\ noted => reader # Nobody
Locks == Exclusive /\ ReaderKnown

LEMMA LocksKept == ASSUME Typed, Locks, [Next]_vars PROVE Locks'
  <1> USE DEF Locks, Exclusive, ReaderKnown, Typed, Writing, Goto, tree, queue, session, witness,
              pass, history, passed
  <1>1. CASE UNCHANGED vars
    BY <1>1 DEF vars
  <1>2. CASE TreeNext
    <2>1. UNCHANGED <<pc, reader, noted>>
      BY <1>2 DEF TreeNext, Tick, Publish, Edit, Create, Delete, EditRules, Change
    <2> QED  BY <2>1
  <1>3. CASE WatchNext
    BY <1>3, ConstantsAssumption DEF WatchNext, LoopDrain, NoteRecord, NoteOverflow, DrainDone
  <1>4. CASE ControlNext
    BY <1>4 DEF ControlNext, armWatcher, disarmWatcher
  <1>5. ASSUME NEW q \in Queries, QueryNext(q)  PROVE Locks'
    <2>1. CASE Arrive(q)
      BY <2>1 DEF Arrive
    <2>2. CASE Flush(q)
      <3>0. pc[q] = "flush" /\ q # Nobody /\ q # Loop /\ noted' = noted
        BY <2>2, ConstantsAssumption DEF Flush
      <3>1. CASE armed
        <4>1. /\ reader = Nobody /\ reader' = q /\ pc' = [pc EXCEPT ![q] = "flushing"]
              /\ \A r \in Queries: pc[r] # "flushing"
          BY <2>2, <3>1, ConstantsAssumption DEF Flush
        <4>2. Exclusive'
          BY <3>0, <4>1
        <4>3. ReaderKnown'
          BY <3>0, <4>1
        <4> QED  BY <4>2, <4>3
      <3>2. CASE ~armed
        <4>1. reader' = reader /\ pc' = [pc EXCEPT ![q] = "check"]
          BY <2>2, <3>2 DEF Flush
        <4>2. Exclusive'
          BY <3>0, <4>1
        <4>3. ReaderKnown'
          BY <3>0, <4>1
        <4> QED  BY <4>2, <4>3
      <3> QED  BY <3>1, <3>2
    <2>3. CASE Check(q)
      <3>1. /\ \A r \in Queries: pc[r] \notin Writing
            /\ pc' = [pc EXCEPT ![q] = "answer"] \/ pc' = [pc EXCEPT ![q] = "upgrade"]
            /\ pc[q] # "flushing" /\ UNCHANGED <<reader, noted>>
        BY <2>3 DEF Check, WriteFree
      <3>2. Exclusive'
        BY <3>1
      <3>3. ReaderKnown'
        BY <3>1
      <3> QED  BY <3>2, <3>3
    <2>4. CASE Upgrade(q)
      BY <2>4 DEF Upgrade, WriteFree, ReadFree
    <2>5. CASE Gate(q)
      BY <2>5 DEF Gate
    <2>6. CASE Load(q) \/ Enter(q) \/ Drain(q) \/ Scoped(q) \/ Full(q)
      <3>1. /\ pc[q] \in Writing /\ UNCHANGED <<reader, noted>>
            /\ pc' = pc \/ \E label \in Writing: pc' = [pc EXCEPT ![q] = label]
        <4>1. CASE Load(q) \/ Enter(q)
          BY <4>1 DEF Load, Enter
        <4>2. CASE Drain(q)
          BY <4>2 DEF Drain
        <4>3. CASE ScopedOne(q)
          BY <4>3 DEF ScopedOne
        <4>4. CASE ScopedEnd(q)
          BY <4>4 DEF ScopedEnd
        <4>5. CASE FullWalk(q) \/ FullOne(q) \/ FullEnd(q)
          BY <4>5 DEF FullWalk, FullOne, FullEnd
        <4> QED  BY <2>6, <4>1, <4>2, <4>3, <4>4, <4>5 DEF Scoped, Full
      <3>2. Exclusive'
        BY <3>1
      <3>3. ReaderKnown'
        BY <3>1
      <3> QED  BY <3>2, <3>3
    <2>7. CASE Decline(q) \/ Commit(q) \/ Answer(q)
      <3>1. /\ pc[q] \in Writing \cup {"answer"}
            /\ pc' = [pc EXCEPT ![q] = "idle"] \/ pc' = [pc EXCEPT ![q] = "downgrade"]
            /\ UNCHANGED <<reader, noted>>
        BY <2>7 DEF Decline, Commit, Answer
      <3>2. Exclusive'
        BY <3>1
      <3>3. ReaderKnown'
        BY <3>1
      <3> QED  BY <3>2, <3>3
    <2>8. CASE Downgrade(q)
      <3>1. /\ \A r \in Queries: pc[r] \notin Writing
            /\ pc' = [pc EXCEPT ![q] = "answer"]
            /\ pc[q] # "flushing" /\ UNCHANGED <<reader, noted>>
        BY <2>8 DEF Downgrade, WriteFree
      <3>2. Exclusive'
        BY <3>1
      <3>3. ReaderKnown'
        BY <3>1
      <3> QED  BY <3>2, <3>3
    <2> QED  BY <1>5, <2>1, <2>2, <2>3, <2>4, <2>5, <2>6, <2>7, <2>8 DEF QueryNext
  <1> QED  BY <1>1, <1>2, <1>3, <1>4, <1>5 DEF Next

(***************************************************************************)
(* How far the writer has come.                                            *)
(***************************************************************************)

At(label) == \E q \in Queries: pc[q] = label
Passing == At("walk") \/ At("scoped") \/ At("visit") \/ At("commit")
Entered == At("enter") \/ At("drain") \/ Passing
Marks == {"load", "enter", "drain", "walk", "scoped", "visit", "commit"}

Only(label) ==
    /\ At("load") <=> label = "load"
    /\ At("enter") <=> label = "enter"
    /\ At("drain") <=> label = "drain"
    /\ At("walk") <=> label = "walk"
    /\ At("scoped") <=> label = "scoped"
    /\ At("visit") <=> label = "visit"
    /\ At("commit") <=> label = "commit"

(* Where the pass stands is where its writer stands. *)
LEMMA WriterAt ==
    ASSUME Typed, Locks, NEW q \in Queries, NEW label \in Writing, pc[q] = label
    PROVE  Only(label)
  BY DEF At, Locks, Exclusive, Writing, Only

LEMMA WriterMoves ==
    ASSUME Typed, Locks, NEW q \in Queries, pc[q] \in Writing,
           NEW label \in Writing \cup {"idle", "downgrade"}, pc' = [pc EXCEPT ![q] = label]
    PROVE  Only(label)'
  BY DEF At, Locks, Exclusive, Writing, Typed, Only

(* The stages of the pass, step by step. *)
Staged(q) ==
    /\ Gate(q) => /\ Only("gate")
                  /\ \/ rebuilt /\ Only("load")'
                     \/ ~rebuilt /\ skip /\ Only("downgrade")'
                     \/ ~rebuilt /\ ~skip /\ Only("enter")'
    /\ Load(q) => Only("load") /\ Only("gate")'
    /\ Enter(q) => Only("enter") /\ Only("drain")'
    /\ Drain(q) => /\ Only("drain")
                   /\ \/ ScopedEligible /\ Only("scoped")'
                      \/ ~ScopedEligible /\ Only("walk")'
    /\ ScopedOne(q) => /\ Only("scoped")
                       /\ \/ pc' = pc /\ Only("scoped")'
                          \/ pc' = [pc EXCEPT ![q] = "walk"] /\ Only("walk")'
    /\ ScopedEnd(q) => Only("scoped") /\ Only("commit")'
    /\ FullWalk(q) => Only("walk") /\ Only("visit")'
    /\ FullOne(q) => Only("visit") /\ Only("visit")'
    /\ FullEnd(q) => Only("visit") /\ Only("commit")'
    /\ Decline(q) => Only("idle")'
    /\ Commit(q) => Only("commit") /\ Only("downgrade")'

LEMMA Stages == ASSUME Typed, Locks, NEW q \in Queries PROVE Staged(q)
  <1> USE DEF Goto, Writing
  <1>0. pc' = pc => \A label: Only(label) => Only(label)'
    BY DEF Only, At
  <1>1. Gate(q) => /\ Only("gate")
                   /\ \/ rebuilt /\ Only("load")'
                      \/ ~rebuilt /\ skip /\ Only("downgrade")'
                      \/ ~rebuilt /\ ~skip /\ Only("enter")'
    BY WriterAt, WriterMoves DEF Gate
  <1>2. Load(q) => Only("load") /\ Only("gate")'
    BY WriterAt, WriterMoves DEF Load
  <1>3. Enter(q) => Only("enter") /\ Only("drain")'
    BY WriterAt, WriterMoves DEF Enter
  <1>4. Drain(q) => /\ Only("drain")
                    /\ \/ ScopedEligible /\ Only("scoped")'
                       \/ ~ScopedEligible /\ Only("walk")'
    BY WriterAt, WriterMoves DEF Drain
  <1>5. ScopedOne(q) => /\ Only("scoped")
                        /\ \/ pc' = pc /\ Only("scoped")'
                           \/ pc' = [pc EXCEPT ![q] = "walk"] /\ Only("walk")'
    <2> SUFFICES ASSUME ScopedOne(q)
                 PROVE  /\ Only("scoped")
                        /\ \/ pc' = pc /\ Only("scoped")'
                           \/ pc' = [pc EXCEPT ![q] = "walk"] /\ Only("walk")'
      OBVIOUS
    <2>1. pc[q] = "scoped" /\ (pc' = pc \/ pc' = [pc EXCEPT ![q] = "walk"])
      BY DEF ScopedOne
    <2>2. Only("scoped")
      BY <2>1, WriterAt
    <2> QED  BY <2>1, <2>2, <1>0, WriterMoves
  <1>6. ScopedEnd(q) => Only("scoped") /\ Only("commit")'
    BY WriterAt, WriterMoves DEF ScopedEnd
  <1>7. FullWalk(q) => Only("walk") /\ Only("visit")'
    BY WriterAt, WriterMoves DEF FullWalk
  <1>8. FullOne(q) => Only("visit") /\ Only("visit")'
    <2>1. FullOne(q) => pc[q] = "visit" /\ pc' = pc
      BY DEF FullOne
    <2> QED  BY <2>1, <1>0, WriterAt
  <1>9. FullEnd(q) => Only("visit") /\ Only("commit")'
    BY WriterAt, WriterMoves DEF FullEnd
  <1>10. Decline(q) => Only("idle")'
    BY WriterMoves DEF Decline
  <1>11. Commit(q) => Only("commit") /\ Only("downgrade")'
    BY WriterAt, WriterMoves DEF Commit
  <1> QED  BY <1>1, <1>2, <1>3, <1>4, <1>5, <1>6, <1>7, <1>8, <1>9, <1>10, <1>11 DEF Staged

StageKept ==
    /\ At("load")' <=> At("load")
    /\ At("enter")' <=> At("enter")
    /\ At("drain")' <=> At("drain")
    /\ At("walk")' <=> At("walk")
    /\ At("scoped")' <=> At("scoped")
    /\ At("visit")' <=> At("visit")
    /\ At("commit")' <=> At("commit")

(* A query that is not the writer moves no pass. *)
LEMMA BystanderMoves ==
    ASSUME Typed, NEW q \in Queries, NEW label \in Labels \ Marks,
           pc[q] \notin Marks, pc' = [pc EXCEPT ![q] = label]
    PROVE  StageKept
  BY DEF At, Marks, Typed, StageKept

Aside(q) == Arrive(q) \/ Flush(q) \/ Check(q) \/ Upgrade(q) \/ Downgrade(q) \/ Answer(q)
Outside == TreeNext \/ WatchNext \/ ControlNext

(* What a query does outside the write lease touches nothing a pass works on. *)
LEMMA AsideStands ==
    ASSUME Typed, NEW q \in Queries, Aside(q)
    PROVE  StageKept /\ UNCHANGED <<tree, armed, kernel, overflow, noted, log, witness, session,
                                   pass, passed>>
  <1> USE DEF queue, Goto
  <1>1. UNCHANGED <<tree, armed, kernel, overflow, noted, log, witness, session, pass, passed>>
    BY DEF Aside, Arrive, Flush, Check, Upgrade, Downgrade, Answer, history
  <1>2. /\ pc[q] \in Labels \ Marks
        /\ \E label \in Labels \ Marks: pc' = [pc EXCEPT ![q] = label]
    BY DEF Aside, Arrive, Flush, Check, Upgrade, Downgrade, Answer, Labels, Writing, Marks
  <1> QED  BY <1>1, <1>2, BystanderMoves

LEMMA OutsideStands ==
    ASSUME Typed, Locks, Outside \/ UNCHANGED vars
    PROVE  StageKept /\ UNCHANGED <<mirror, fresh_ns, pass, passed>>
  <1> USE DEF vars, tree, queue, witness, session, history, StageKept, At
  <1>1. CASE UNCHANGED vars
    BY <1>1
  <1>2. CASE TreeNext
    BY <1>2 DEF TreeNext, Tick, Publish, Edit, Create, Delete, EditRules, Change
  <1>3. CASE LoopDrain \/ NoteRecord \/ NoteOverflow
    BY <1>3 DEF LoopDrain, NoteRecord, NoteOverflow
  <1>4. CASE DrainDone
    <2>1. \A q \in Queries: \/ pc'[q] = pc[q]
                            \/ pc[q] = "flushing" /\ pc'[q] = "check"
      BY <1>4 DEF DrainDone, Locks, ReaderKnown, Typed
    <2> QED  BY <1>4, <2>1 DEF DrainDone
  <1>5. CASE ControlNext
    BY <1>5 DEF ControlNext, armWatcher, disarmWatcher
  <1> QED  BY <1>1, <1>2, <1>3, <1>4, <1>5 DEF Outside, WatchNext

(***************************************************************************)
(* The clocks.                                                             *)
(***************************************************************************)

ClocksPast ==
    /\ \A f \in Files: stamp[f] <= clock
    /\ fresh_ns <= clock /\ fresh_ns # 0 /\ now <= clock
    /\ At("load") \/ At("drain") \/ Passing => now # 0

LEMMA ClocksKept == ASSUME Typed, Locks, ClocksPast, [Next]_vars PROVE ClocksPast'
  <1> USE DEF ClocksPast, Passing
  <1>1. CASE Outside \/ UNCHANGED vars
    <2>1. StageKept /\ UNCHANGED <<fresh_ns, now>>
      BY <1>1, OutsideStands DEF pass
    <2>2. UNCHANGED <<clock, stamp>> \/ TreeNext
      BY <1>1 DEF Outside, WatchNext, LoopDrain, NoteRecord, NoteOverflow, DrainDone,
                  ControlNext, armWatcher, disarmWatcher, vars, tree
    <2>3. TreeNext => \/ clock' = clock + 1 /\ stamp' = stamp
                      \/ clock' = clock /\ stamp' = stamp
                      \/ clock' = clock /\ \E f \in Files: stamp' = [stamp EXCEPT ![f] = clock]
      BY DEF TreeNext, Tick, Publish, Edit, Create, Delete, EditRules, Write, Change, tree
    <2>4. clock' >= clock /\ \A f \in Files: stamp'[f] <= clock'
      BY <2>2, <2>3, ConstantsAssumption DEF Typed
    <2> QED  BY <2>1, <2>2, <2>3, <2>4, ConstantsAssumption DEF StageKept, Typed
  <1>2. ASSUME NEW q \in Queries, Aside(q)  PROVE ClocksPast'
    BY <1>2, AsideStands DEF StageKept, tree, session, pass
  <1>3. ASSUME NEW q \in Queries, QueryNext(q), ~Aside(q)  PROVE ClocksPast'
    <2>0. Staged(q)
      BY Stages
    <2> USE <2>0, ConstantsAssumption DEF Staged, tree, session, pass, Only, Typed
    <2>1. CASE Gate(q)
      BY <2>1 DEF Gate
    <2>2. CASE Enter(q)
      BY <2>2 DEF Enter
    <2>3. CASE Load(q)
      BY <2>3 DEF Load
    <2>8. CASE Commit(q)
      <3>1. fresh_ns' = now /\ now' = 0 /\ UNCHANGED <<clock, stamp>>
        BY <2>8 DEF Commit, PassOver
      <3>2. now # 0 /\ ~(At("load") \/ At("drain") \/ Passing)'
        BY <2>8
      <3> QED  BY <3>1, <3>2
    <2>9. CASE Decline(q)
      BY <2>9 DEF Decline, PassOver
    <2>4. CASE Drain(q)
      BY <2>4 DEF Drain
    <2>5. CASE ScopedOne(q)
      BY <2>5 DEF ScopedOne
    <2>6. CASE ScopedEnd(q)
      BY <2>6 DEF ScopedEnd
    <2>7. CASE Full(q)
      BY <2>7 DEF Full, FullWalk, FullOne, FullEnd
    <2> QED  BY <1>3, <2>1, <2>2, <2>3, <2>4, <2>5, <2>6, <2>7, <2>8, <2>9
           DEF QueryNext, Aside, Scoped
  <1> QED  BY <1>1, <1>2, <1>3 DEF Next, Outside

(***************************************************************************)
(* What a pass is entitled to.                                             *)
(***************************************************************************)

(* A scoped pass runs only under exact paths and a covering full pass, only a *)
(* pass holds a batch, and none runs where the query could have skipped it.   *)
PassScoped ==
    /\ At("scoped") => full_pass_done /\ armed /\ exact /\ ~batch.doubt
    /\ log.exact => exact
    /\ At("commit") /\ armed => full_pass_done
    /\ full_pass_done => armed
    /\ ~Passing => batch = EmptyLog
    /\ clean /\ armed => full_pass_done
    /\ Entered => ~skip

LEMMA QuiescentStage == Quiescent => ~At("load") /\ ~Entered
  BY DEF Quiescent, At, Entered, Passing

LEMMA PassScopedKept == ASSUME Typed, Locks, PassScoped, [Next]_vars PROVE PassScoped'
  <1> USE DEF PassScoped, Passing, Entered, skip, eligible, tree, queue, witness, session, pass,
              history
  <1>1. CASE Outside \/ UNCHANGED vars
    <2>1. StageKept /\ UNCHANGED batch
      BY <1>1, OutsideStands
    <2>2. CASE TreeNext \/ UNCHANGED vars
      <3>1. UNCHANGED <<exact, armed, log, clean, poison, full_pass_done>>
        BY <2>2 DEF vars, TreeNext, Tick, Publish, Edit, Create, Delete, EditRules, Change
      <3> QED  BY <2>1, <3>1 DEF StageKept
    <2>3. CASE WatchNext
      <3>1. NoteRecord => UNCHANGED log.exact
        BY DEF NoteRecord, Note, Typed, LogType
      <3> QED  BY <2>1, <2>3, <3>1 DEF StageKept, WatchNext, LoopDrain, NoteRecord, NoteOverflow,
                                     DrainDone, MarkDirty
    <2>4. CASE ControlNext
      <3>1. log'.exact => exact
        BY <2>4 DEF ControlNext, armWatcher, disarmWatcher, Typed, LogType
      <3>2. ~Entered
        BY <2>4, QuiescentStage DEF ControlNext, armWatcher, disarmWatcher
      <3> QED  BY <2>1, <2>4, <3>1, <3>2 DEF StageKept, ControlNext, armWatcher, disarmWatcher
    <2> QED  BY <1>1, <2>2, <2>3, <2>4 DEF Outside
  <1>2. ASSUME NEW q \in Queries, Aside(q)  PROVE PassScoped'
    BY <1>2, AsideStands DEF StageKept
  <1>3. ASSUME NEW q \in Queries, QueryNext(q), ~Aside(q)  PROVE PassScoped'
    <2>0. Staged(q)
      BY Stages
    <2> USE <2>0 DEF Staged, Only
    <2>1. CASE Gate(q)
      BY <2>1 DEF Gate
    <2>2. CASE Enter(q)
      BY <2>2 DEF Enter
    <2>3. CASE Load(q)
      BY <2>3 DEF Load, MarkDirty
    <2>4. CASE Drain(q)
      BY <2>4 DEF Drain, ScopedEligible, Typed, LogType
    <2>5. CASE ScopedOne(q)
      BY <2>5 DEF ScopedOne
    <2>6. CASE ScopedEnd(q)
      BY <2>6 DEF ScopedEnd
    <2>7. CASE Full(q)
      <3>1. CASE FullWalk(q)
        BY <3>1 DEF FullWalk
      <3>2. CASE FullOne(q)
        BY <3>2 DEF FullOne
      <3>3. CASE FullEnd(q)
        BY <3>3 DEF FullEnd
      <3> QED  BY <2>7, <3>1, <3>2, <3>3 DEF Full
    <2>8. CASE Commit(q)
      <3>1. /\ batch' = EmptyLog /\ UNCHANGED <<exact, armed, log, poison, full_pass_done>>
            /\ armed => full_pass_done
        BY <2>8 DEF Commit, PassOver
      <3> QED  BY <2>8, <3>1
    <2>9. CASE Decline(q)
      BY <2>9 DEF Decline, PassOver, EmptyLog
    <2> QED  BY <1>3, <2>1, <2>2, <2>3, <2>4, <2>5, <2>6, <2>7, <2>8, <2>9
             DEF QueryNext, Aside, Scoped
  <1> QED  BY <1>1, <1>2, <1>3 DEF Next, Outside

(* Once a batch is marked, what it logged is not clean, and forbids a running *)
(* pass to say so.                                                            *)
LogEmpty == log.set = {} /\ ~log.doubt
LogMarked == ~noted /\ ~LogEmpty => ~clean /\ (Passing => raced)

LEMMA LogMarkedKept ==
    ASSUME Typed, Locks, LogMarked, [Next]_vars PROVE LogMarked'
  <1> USE DEF LogMarked, LogEmpty, Passing, tree, queue, witness, session, pass, history
  <1>1. CASE Outside \/ UNCHANGED vars
    <2>1. StageKept
      BY <1>1, OutsideStands
    <2>2. CASE TreeNext \/ UNCHANGED vars
      BY <2>1, <2>2 DEF StageKept, vars, TreeNext, Tick, Publish, Edit, Create, Delete, EditRules,
                        Write, Change
    <2>3. CASE WatchNext
      BY <2>1, <2>3 DEF StageKept, WatchNext, LoopDrain, NoteRecord, NoteOverflow, DrainDone,
                        MarkDirty
    <2>4. CASE ControlNext
      <3>1. log'.set = log.set /\ log'.doubt = log.doubt /\ clean' = FALSE
        BY <2>4 DEF ControlNext, armWatcher, disarmWatcher, Typed, LogType
      <3>2. ~Entered
        BY <2>4, QuiescentStage DEF ControlNext, armWatcher, disarmWatcher
      <3> QED  BY <2>1, <3>1, <3>2 DEF StageKept, Entered
    <2> QED  BY <1>1, <2>2, <2>3, <2>4 DEF Outside
  <1>2. ASSUME NEW q \in Queries, Aside(q)  PROVE LogMarked'
    BY <1>2, AsideStands DEF StageKept
  <1>3. ASSUME NEW q \in Queries, QueryNext(q), ~Aside(q)  PROVE LogMarked'
    <2>0. Staged(q)
      BY Stages
    <2> USE <2>0 DEF Staged, Only
    <2>1. CASE Gate(q)
      BY <2>1 DEF Gate
    <2>2. CASE Enter(q)
      BY <2>2 DEF Enter
    <2>3. CASE Load(q)
      BY <2>3 DEF Load, MarkDirty
    <2>4. CASE Drain(q)
      BY <2>4 DEF Drain, Typed, LogType
    <2>5. CASE ScopedOne(q)
      BY <2>5 DEF ScopedOne
    <2>6. CASE ScopedEnd(q)
      BY <2>6 DEF ScopedEnd
    <2>7. CASE Full(q)
      BY <2>7 DEF Full, FullWalk, FullOne, FullEnd
    <2>8. CASE Commit(q)
      BY <2>8 DEF Commit
    <2>9. CASE Decline(q)
      BY <2>9 DEF Decline
    <2> QED  BY <1>3, <2>1, <2>2, <2>3, <2>4, <2>5, <2>6, <2>7, <2>8, <2>9
             DEF QueryNext, Aside, Scoped
  <1> QED  BY <1>1, <1>2, <1>3 DEF Next, Outside

(* Until it answers or is declined, a query has seen the tree as it stands.   *)
Now(f) == Instant(disk, hidden, f)
Windows == \A q \in Queries: pc[q] # "idle" => \A f \in Files: Now(f) \subseteq since[q][f]

LEMMA WindowsKept == ASSUME Typed, Windows, Locks, [Next]_vars PROVE Windows'
  <1> USE DEF Windows, Now, tree, queue, witness, session, pass, history
  <1>1. ASSUME NEW paths, Change(paths)  PROVE Windows'
    BY <1>1 DEF Change, Typed
  <1>2. CASE Tick \/ Publish \/ UNCHANGED vars
    BY <1>2 DEF Tick, Publish, vars
  <1>3. CASE TreeNext
    BY <1>1, <1>2, <1>3 DEF TreeNext, Edit, Create, Delete, EditRules
  <1>4. CASE LoopDrain \/ NoteRecord \/ NoteOverflow
    BY <1>4 DEF LoopDrain, NoteRecord, NoteOverflow
  <1>5. CASE DrainDone
    <2>1. \A q \in Queries: pc'[q] # "idle" => pc[q] # "idle"
      BY <1>5 DEF DrainDone, Locks, ReaderKnown
    <2> QED  BY <1>5, <2>1 DEF DrainDone
  <1>6. CASE ControlNext
    BY <1>6 DEF ControlNext, armWatcher, disarmWatcher
  <1>7. ASSUME NEW q \in Queries, Arrive(q)  PROVE Windows'
    BY <1>7 DEF Arrive, Goto, Typed
  <1>8. ASSUME NEW q \in Queries, Answer(q) \/ Decline(q)  PROVE Windows'
    BY <1>8 DEF Answer, Decline, Goto, Typed
  <1>9. ASSUME NEW q \in Queries, QueryNext(q), ~Arrive(q), ~Answer(q), ~Decline(q)
        PROVE  Windows'
    <2>1. /\ UNCHANGED <<disk, hidden, since>> /\ pc[q] # "idle"
          /\ pc' = pc \/ \E label \in Labels: pc' = [pc EXCEPT ![q] = label]
      <3> USE DEF Goto, Labels, Writing
      <3>1. CASE Flush(q) \/ Check(q) \/ Upgrade(q) \/ Downgrade(q)
        BY <3>1 DEF Flush, Check, Upgrade, Downgrade
      <3>2. CASE Gate(q) \/ Load(q) \/ Enter(q) \/ Commit(q)
        BY <3>2 DEF Gate, Load, Enter, Commit
      <3>3. CASE Drain(q)
        BY <3>3 DEF Drain
      <3>4. CASE Scoped(q)
        BY <3>4 DEF Scoped, ScopedOne, ScopedEnd
      <3>5. CASE Full(q)
        BY <3>5 DEF Full, FullWalk, FullOne, FullEnd
      <3> QED  BY <1>9, <3>1, <3>2, <3>3, <3>4, <3>5 DEF QueryNext
    <2> QED  BY <2>1 DEF Typed
  <1> QED  BY <1>2, <1>3, <1>4, <1>5, <1>6, <1>7, <1>8, <1>9 DEF Next, WatchNext

(***************************************************************************)
(* The cursor.                                                             *)
(***************************************************************************)

Held(f) == mirror[f] # 0 /\ disk[f] \notin {0, mirror[f]}
Owed(f) == f \in todo /\ NeedsRead(f, listing[f])

(* Older bytes are held only of a file whose clock the next pass will reach:  *)
(* of those the cursor left behind, and of those it is about to, this is the  *)
(* whole account.                                                             *)
CursorSound ==
    /\ \A f \in Files: Held(f) /\ stamp[f] < fresh_ns => f \in overtaken
    /\ At("visit") => \A f \in Files:
          Held(f) /\ stamp[f] < now => f \in overtaken \/ listing[f] = -1 \/ Owed(f)
    /\ ~exact /\ At("commit") => \A f \in Files: Held(f) => stamp[f] >= now

(* Where paths are not exact nothing is excused, but a file a failing pass    *)
(* dropped, until the next full pass.                                         *)
NoneExcused ==
    ~exact => /\ overtaken = {} /\ returned = {}
              /\ skip \/ At("commit") => dropped = {}

LEMMA CursorKept ==
    ASSUME Typed, Locks, ClocksPast, PassScoped, NoneExcused, CursorSound, [Next]_vars
    PROVE  CursorSound'
  <1> USE DEF CursorSound, Held, Owed, NeedsRead, session, pass, passed
  <1>1. CASE TreeNext \/ UNCHANGED vars
    <2>1. StageKept /\ UNCHANGED <<exact, mirror, fresh_ns, pass, passed>>
      <3>1. UNCHANGED exact
        BY <1>1 DEF TreeNext, Tick, Publish, Edit, Create, Delete, EditRules, Change, vars, tree
      <3> QED  BY <1>1, <3>1, OutsideStands DEF Outside
    <2>2. \/ UNCHANGED <<disk, stamp>>
          \/ \E f \in Files: \E c: /\ disk' = [disk EXCEPT ![f] = c]
                                  /\ stamp' = [stamp EXCEPT ![f] = clock]
      BY <1>1 DEF TreeNext, Tick, Publish, Edit, Create, Delete, EditRules, Write, Change, vars, tree
    <2>3. CASE UNCHANGED <<disk, stamp>>
      BY <2>1, <2>3 DEF StageKept
    <2>4. ASSUME NEW f \in Files, NEW c, disk' = [disk EXCEPT ![f] = c],
                 stamp' = [stamp EXCEPT ![f] = clock]
          PROVE  CursorSound'
      <3>1. ~(clock < fresh_ns) /\ ~(clock < now) /\ clock >= now
        BY ConstantsAssumption DEF ClocksPast, Typed
      <3>2. \A g \in Files: \/ g = f /\ stamp'[g] = clock
                            \/ stamp'[g] = stamp[g] /\ disk'[g] = disk[g]
        BY <2>4 DEF Typed
      <3> QED  BY <2>1, <3>1, <3>2 DEF StageKept
    <2> QED  BY <2>2, <2>3, <2>4
  <1>2. CASE WatchNext \/ ControlNext
    <2>1. StageKept /\ UNCHANGED <<mirror, fresh_ns, pass, passed>>
      BY <1>2, OutsideStands DEF Outside
    <2>2. UNCHANGED tree
      BY <1>2 DEF WatchNext, LoopDrain, NoteRecord, NoteOverflow, DrainDone, ControlNext,
                  armWatcher, disarmWatcher
    <2> QED  BY <2>1, <2>2 DEF StageKept, tree
  <1>3. ASSUME NEW q \in Queries, Aside(q)  PROVE CursorSound'
    BY <1>3, AsideStands DEF StageKept, tree
  <1>4. ASSUME NEW q \in Queries, QueryNext(q), ~Aside(q)  PROVE CursorSound'
    <2>0. Staged(q)
      BY Stages
    <2> USE <2>0 DEF Staged, Only, tree, history
    <2>1. CASE Gate(q)
      BY <2>1 DEF Gate
    <2>2. CASE Enter(q)
      BY <2>2 DEF Enter
    <2>3. CASE Load(q)
      BY <2>3 DEF Load, Live, InWalk, Typed
    <2>4. CASE Drain(q)
      BY <2>4 DEF Drain
    <2>5. CASE ScopedOne(q)
      BY <2>5 DEF ScopedOne, ReadInto, Settle, Typed
    <2>6. CASE ScopedEnd(q)
      BY <2>6 DEF ScopedEnd, PassScoped, Typed
    <2>7. CASE FullWalk(q)
      BY <2>7, ConstantsAssumption DEF FullWalk, Typed
    <2>8. CASE FullOne(q)
      BY <2>8 DEF FullOne, ReadInto, Settle, Typed
    <2>9. CASE FullEnd(q)
      BY <2>9, ConstantsAssumption DEF FullEnd, NoneExcused, Typed
    <2>10. CASE Commit(q)
      BY <2>10 DEF Commit
    <2>11. CASE Decline(q)
      BY <2>11 DEF Decline
    <2> QED  BY <1>4, <2>1, <2>2, <2>3, <2>4, <2>5, <2>6, <2>7, <2>8, <2>9, <2>10, <2>11
             DEF QueryNext, Aside, Scoped, Full
  <1> QED  BY <1>1, <1>2, <1>3, <1>4 DEF Next

LEMMA NoneExcusedKept ==
    ASSUME Typed, Locks, PassScoped, CursorSound, NoneExcused, [Next]_vars
    PROVE  NoneExcused'
  <1> USE DEF NoneExcused, skip, eligible, tree, queue, witness, session, pass, history, passed
  <1>1. CASE Outside \/ UNCHANGED vars
    <2>1. StageKept /\ UNCHANGED passed
      BY <1>1, OutsideStands
    <2>2. exact' = exact /\ (skip' => skip)
      <3>1. CASE TreeNext \/ UNCHANGED vars
        <4>1. UNCHANGED <<exact, armed, poison, clean>>
          BY <3>1 DEF TreeNext, Tick, Publish, Edit, Create, Delete, EditRules, Change, vars
        <4> QED  BY <4>1
      <3>2. CASE WatchNext
        <4>1. exact' = exact /\ armed' = armed /\ (poison' = poison \/ poison' = TRUE)
          BY <3>2 DEF WatchNext, LoopDrain, NoteRecord, NoteOverflow, DrainDone
        <4>2. clean' = clean \/ clean' = FALSE
          BY <3>2 DEF WatchNext, LoopDrain, NoteRecord, NoteOverflow, DrainDone, MarkDirty
        <4> QED  BY <4>1, <4>2
      <3>3. CASE ControlNext
        BY <3>3 DEF ControlNext, armWatcher, disarmWatcher
      <3> QED  BY <1>1, <3>1, <3>2, <3>3 DEF Outside
    <2> QED  BY <2>1, <2>2 DEF StageKept
  <1>2. ASSUME NEW q \in Queries, Aside(q)  PROVE NoneExcused'
    BY <1>2, AsideStands DEF StageKept
  <1>3. ASSUME NEW q \in Queries, QueryNext(q), ~Aside(q)  PROVE NoneExcused'
    <2>0. Staged(q)
      BY Stages
    <2> USE <2>0 DEF Staged, Only
    <2>1. CASE Gate(q)
      BY <2>1 DEF Gate
    <2>2. CASE Enter(q)
      BY <2>2 DEF Enter
    <2>3. CASE Load(q)
      BY <2>3 DEF Load
    <2>4. CASE Drain(q)
      BY <2>4 DEF Drain
    <2>5. CASE ScopedOne(q)
      BY <2>5 DEF ScopedOne, PassScoped
    <2>6. CASE ScopedEnd(q)
      BY <2>6 DEF ScopedEnd, PassScoped
    <2>7. CASE FullWalk(q)
      BY <2>7 DEF FullWalk
    <2>8. CASE FullOne(q)
      BY <2>8 DEF FullOne, ReadInto, Settle
    <2>9. CASE FullEnd(q)
      BY <2>9 DEF FullEnd
    <2>10. CASE Commit(q)
      BY <2>10, ConstantsAssumption DEF Commit, CursorSound, Held, Typed
    <2>11. CASE Decline(q)
      BY <2>11 DEF Decline, PassScoped, Named, EmptyLog, Entered, Passing
    <2> QED  BY <1>3, <2>1, <2>2, <2>3, <2>4, <2>5, <2>6, <2>7, <2>8, <2>9, <2>10, <2>11
             DEF QueryNext, Aside, Scoped, Full
  <1> QED  BY <1>1, <1>2, <1>3 DEF Next, Outside

(***************************************************************************)
(* What a pass has still to do about one file, and what it has done.  S is   *)
(* what an answer may say of the file: what a query has seen of it, or what  *)
(* the tree holds right now.                                                *)
(***************************************************************************)

Names(E, f) == f \in E \/ E \cap {Root, Rules} # {} \/ (f \in Below /\ Sub \in E)
LogNames(f) == log.doubt \/ Names(log.set, f)
BatchNames(f) == batch.doubt \/ Names(batch.set, f)
Pending(f) == overflow \/ Names(kernel, f)

(* What the mirror holds of f, S allows; or f was passed over.                *)
Good(S, f) == IF mirror[f] = 0 THEN Absent \in S ELSE {mirror[f], Shown} \subseteq S
Base(S, X, f) == Good(S, f) \/ f \in overtaken \/ f \in dropped \/ f \in X

(* A full pass under way: S allows what the listing says of the file, and the *)
(* mirror unless the file is still to be read.                                *)
Visiting(S, f) ==
    /\ listing[f] # -1 => Shown \in S
    /\ listing[f] = -1 => Absent \in S
    /\ listing[f] = -1 \/ Owed(f) \/ Good(S, f) \/ f \in overtaken

(* A scoped pass under way: what is neither drained nor found gone was settled *)
(* before the pass or by it.                                                  *)
Scoping(S, X, f) ==
    /\ f \in gones => Absent \in S
    /\ Names(todo, f) \/ f \in gones \/ Base(S, X, f)

Stage(S, X, f) ==
    /\ At("visit") => Visiting(S, f)
    /\ At("scoped") => Scoping(S, X, f)
    /\ At("commit") => Base(S, X, f)

(* The visits left are to paths the walk listed.                              *)
Listed == At("visit") => \A f \in todo: f \in Files /\ listing[f] # -1

LEMMA ListedKept == ASSUME Typed, Locks, Listed, [Next]_vars PROVE Listed'
  <1> USE DEF Listed
  <1>1. CASE Outside \/ UNCHANGED vars
    BY <1>1, OutsideStands DEF StageKept, pass
  <1>2. ASSUME NEW q \in Queries, Aside(q)  PROVE Listed'
    BY <1>2, AsideStands DEF StageKept, pass
  <1>3. ASSUME NEW q \in Queries, QueryNext(q), ~Aside(q)  PROVE Listed'
    <2>0. Staged(q)
      BY Stages
    <2>1. At("visit")' => FullWalk(q) \/ FullOne(q)
      BY <2>0, <1>3 DEF QueryNext, Aside, Scoped, Full, Staged, Only
    <2>2. CASE FullWalk(q)
      BY <2>2, ConstantsAssumption DEF FullWalk, Typed
    <2>3. CASE FullOne(q)
      BY <2>3, <2>0 DEF FullOne, Staged, Only
    <2> QED  BY <2>1, <2>2, <2>3
  <1> QED  BY <1>1, <1>2, <1>3 DEF Next, Outside

(* The instant now allows what the tree holds, and no absence of a file that  *)
(* is there.                                                                  *)
LEMMA NowAllows ==
    ASSUME Typed, NEW f \in Files
    PROVE  /\ disk[f] \in Now(f)
           /\ Live(f) # 0 => /\ Live(f) = disk[f] /\ Shown \in Now(f) /\ Absent \notin Now(f)
                            /\ disk[f] # 0
           /\ Live(f) = 0 => Absent \in Now(f)
           /\ disk[f] = 0 => Live(f) = 0
  BY DEF Now, Instant, Live, InWalk, Shown, Absent, Typed

(* What the mirror holds of a file it need not read is what is there, or was  *)
(* overtaken.                                                                 *)
LEMMA UnreadGood ==
    ASSUME Typed, ClocksPast, CursorSound, NEW f \in Files, NEW S, Now(f) \subseteq S,
           Live(f) # 0, ~NeedsRead(f, stamp[f])
    PROVE  Good(S, f) \/ f \in overtaken
  <1>1. mirror[f] # 0 /\ stamp[f] < fresh_ns
    BY ConstantsAssumption DEF NeedsRead, Typed
  <1>2. CASE mirror[f] = disk[f]
    BY <1>1, <1>2, NowAllows DEF Good
  <1>3. CASE mirror[f] # disk[f]
    BY <1>1, <1>3, NowAllows DEF CursorSound, Held
  <1> QED  BY <1>2, <1>3

Excuses(S, X, Y, f) == \/ S = Now(f) /\ X = {} /\ Y = {}
                       \/ X = returned /\ Y = returned'

(* Every step of a pass keeps its stage, whatever S an answer started from.   *)
LEMMA ScopedStage ==
    ASSUME Typed, Locks, ClocksPast, CursorSound, NEW q \in Queries, NEW f \in Files,
           NEW S, NEW X, NEW Y, Now(f) \subseteq S, Excuses(S, X, Y, f), Stage(S, X, f),
           Scoped(q)
    PROVE  Stage(S, Y, f)'
  <1>0. Staged(q)
    BY Stages
  <1>1. CASE ScopedOne(q)
    <2>0. Only("scoped") /\ (Only("walk")' \/ Only("scoped")')
      BY <1>0, <1>1 DEF Staged
    <2>1. CASE Only("walk")'
      BY <2>1 DEF Only, Stage
    <2>2. CASE pc' = pc /\ Only("scoped")'
      <3>1. Scoping(S, X, f)
        BY <2>0 DEF Only, Stage
      <3>2. PICK p \in todo \ {Sub}:
              /\ todo' = todo \ {p}
              /\ IF p \in {Root, Rules}
                 THEN Goto(q, "walk") /\ UNCHANGED <<mirror, gones, passed>>
                 ELSE /\ pc' = pc
                      /\ IF Live(p) # 0
                         THEN /\ ReadInto(IF NeedsRead(p, stamp[p]) THEN {p} ELSE {})
                              /\ gones' = gones
                         ELSE gones' = gones \cup {p} /\ UNCHANGED <<mirror, passed>>
        BY <1>1 DEF ScopedOne
      <3>3. p \notin {Root, Rules}
        <4>1. pc[q] = "scoped" /\ pc \in [Queries -> Labels]
          BY <1>1 DEF ScopedOne, Typed
        <4> QED  BY <2>2, <3>2, <4>1 DEF Goto
      <3>4. Scoping(S, Y, f)'
        <4>1. CASE f # p
          <5>1. /\ f \in gones' <=> f \in gones
                /\ mirror'[f] = mirror[f]
                /\ f \in overtaken' <=> f \in overtaken
                /\ f \in dropped' <=> f \in dropped
                /\ f \in returned' <=> f \in returned
            BY <3>2, <3>3, <4>1 DEF ReadInto, Settle, passed, Typed
          <5>2. Names(todo, f) => Names(todo', f)
            BY <3>2, <3>3, <4>1 DEF Names
          <5> QED  BY <3>1, <5>1, <5>2 DEF Scoping, Base, Good, Excuses
        <4>2. CASE f = p /\ Live(f) = 0
          BY <3>1, <3>2, <3>3, <4>2, NowAllows DEF Scoping
        <4>3. CASE f = p /\ Live(f) # 0 /\ NeedsRead(f, stamp[f])
          <5>1. mirror'[f] = disk[f] /\ gones' = gones
            BY <3>2, <3>3, <4>3 DEF ReadInto
          <5> QED  BY <3>1, <4>3, <5>1, NowAllows DEF Scoping, Base, Good
        <4>4. CASE f = p /\ Live(f) # 0 /\ ~NeedsRead(f, stamp[f])
          <5>1. Good(S, f) \/ f \in overtaken
            BY <4>4, UnreadGood
          <5>2. mirror'[f] = mirror[f] /\ gones' = gones /\ overtaken' = overtaken
            BY <3>2, <3>3, <4>4 DEF ReadInto, Settle
          <5> QED  BY <3>1, <5>1, <5>2 DEF Scoping, Base, Good
        <4> QED  BY <4>1, <4>2, <4>3, <4>4
      <3> QED  BY <2>2, <3>4 DEF Only, Stage
    <2> QED  BY <2>1, <2>2, <1>0, <1>1 DEF Staged
  <1>2. CASE ScopedEnd(q)
    <2> DEFINE walked == IF Sub \in todo THEN Below ELSE {}
    <2>0. Only("scoped") /\ Only("commit")'
      BY <1>0, <1>2 DEF Staged
    <2>1. Scoping(S, X, f)
      BY <2>0 DEF Only, Stage
    <2>2. Names(todo, f) <=> f \in walked
      <3>1. todo \subseteq {Sub}
        BY <1>2 DEF ScopedEnd
      <3>2. f # Sub /\ Root # Sub /\ Rules # Sub
        BY ConstantsAssumption DEF Root, Sub, Rules
      <3> QED  BY <3>1, <3>2 DEF Names
    <2>3. Base(S, Y, f)'
      <3>1. CASE f \in gones \cup walked /\ Live(f) = 0
        <4>1. mirror'[f] = 0
          BY <1>2, <3>1 DEF ScopedEnd
        <4> QED  BY <3>1, <4>1, NowAllows DEF Base, Good
      <3>2. CASE f \in walked /\ Live(f) # 0 /\ NeedsRead(f, stamp[f])
        <4>1. mirror'[f] = disk[f]
          BY <1>2, <3>2 DEF ScopedEnd
        <4> QED  BY <3>2, <4>1, NowAllows DEF Base, Good
      <3>3. CASE f \in walked /\ Live(f) # 0 /\ ~NeedsRead(f, stamp[f])
        <4>1. Good(S, f) \/ f \in overtaken
          BY <3>3, UnreadGood
        <4>2. mirror'[f] = mirror[f] /\ (f \in overtaken' <=> f \in overtaken)
          BY <1>2, <3>3 DEF ScopedEnd
        <4> QED  BY <4>1, <4>2 DEF Base, Good
      <3>4. CASE f \notin walked /\ ~(f \in gones /\ Live(f) = 0)
        <4>1. /\ mirror'[f] = mirror[f]
              /\ f \in overtaken' <=> f \in overtaken
              /\ f \in dropped' <=> f \in dropped
          BY <1>2, <3>4 DEF ScopedEnd
        <4>2. f \in returned' <=>
                 f \in returned \/ (f \in gones /\ mirror[f] \notin {0, disk[f]})
          BY <1>2, <3>4 DEF ScopedEnd
        <4>3. CASE f \notin gones
          BY <2>1, <2>2, <3>4, <4>1, <4>2, <4>3 DEF Scoping, Base, Good, Excuses
        <4>4. CASE f \in gones
          <5>1. Absent \in S /\ Live(f) # 0
            BY <2>1, <3>4, <4>4 DEF Scoping
          <5>2. S # Now(f)
            BY <5>1, NowAllows
          <5>3. CASE mirror[f] \in {0, disk[f]}
            BY <4>1, <5>1, <5>3, NowAllows DEF Base, Good
          <5>4. CASE mirror[f] \notin {0, disk[f]}
            BY <4>2, <4>4, <5>2, <5>4 DEF Excuses, Base
          <5> QED  BY <5>3, <5>4
        <4> QED  BY <4>3, <4>4
      <3> QED  BY <3>1, <3>2, <3>3, <3>4
    <2> QED  BY <2>0, <2>3 DEF Only, Stage
  <1> QED  BY <1>1, <1>2 DEF Scoped

LEMMA FullStage ==
    ASSUME Typed, Locks, ClocksPast, CursorSound, Listed, NEW q \in Queries, NEW f \in Files,
           NEW S, NEW X, NEW Y, Now(f) \subseteq S, Stage(S, X, f), Full(q)
    PROVE  Stage(S, Y, f)'
  <1>0. Staged(q)
    BY Stages
  <1>1. CASE FullWalk(q)
    <2>1. Only("visit")'
      BY <1>0, <1>1 DEF Staged
    <2>2. UNCHANGED <<mirror, fresh_ns, overtaken>>
      BY <1>1 DEF FullWalk, session, history, passed
    <2>3. CASE Live(f) = 0
      <3>1. listing'[f] = -1
        BY <1>1, <2>3 DEF FullWalk
      <3>2. Absent \in S
        BY <2>3, NowAllows
      <3>3. Visiting(S, f)'
        BY <3>1, <3>2 DEF Visiting
      <3> QED  BY <2>1, <3>3 DEF Stage, Only
    <2>4. CASE Live(f) # 0
      <3>1. listing'[f] = stamp[f] /\ listing'[f] # -1 /\ f \in todo'
        BY <1>1, <2>4, ConstantsAssumption DEF FullWalk, Typed
      <3>2. Shown \in S
        BY <2>4, NowAllows
      <3>3. NeedsRead(f, stamp[f]) => Owed(f)'
        BY <2>2, <3>1 DEF Owed, NeedsRead
      <3>4. ~NeedsRead(f, stamp[f]) => Good(S, f)' \/ f \in overtaken'
        BY <2>2, <2>4, UnreadGood DEF Good
      <3>5. Visiting(S, f)'
        BY <3>1, <3>2, <3>3, <3>4 DEF Visiting
      <3> QED  BY <2>1, <3>5 DEF Stage, Only
    <2> QED  BY <2>3, <2>4
  <1>2. CASE FullOne(q)
    <2>0. Only("visit") /\ Only("visit")' /\ UNCHANGED <<listing, fresh_ns>>
      BY <1>0, <1>2 DEF Staged, FullOne
    <2>1. Visiting(S, f)
      BY <2>0 DEF Stage, Only
    <2>2. PICK g \in todo: /\ ReadInto(IF NeedsRead(g, listing[g]) THEN {g} ELSE {})
                           /\ todo' = todo \ {g}
      BY <1>2 DEF FullOne
    <2>3. Visiting(S, f)'
      <3>1. CASE f # g
        <4>1. /\ mirror'[f] = mirror[f]
              /\ f \in overtaken' <=> f \in overtaken
              /\ f \in todo' <=> f \in todo
          BY <2>2, <3>1 DEF ReadInto, Settle
        <4> QED  BY <2>0, <2>1, <4>1 DEF Visiting, Owed, NeedsRead, Good
      <3>2. CASE f = g /\ NeedsRead(f, listing[f])
        <4>1. mirror'[f] = disk[f] /\ listing[f] # -1
          BY <2>0, <2>2, <3>2 DEF ReadInto, Listed, Only
        <4> QED  BY <2>0, <2>1, <4>1, NowAllows DEF Visiting, Good, Absent
      <3>3. CASE f = g /\ ~NeedsRead(f, listing[f])
        <4>1. mirror'[f] = mirror[f] /\ overtaken' = overtaken /\ ~Owed(f)
          BY <2>2, <3>3 DEF ReadInto, Settle, Owed
        <4> QED  BY <2>0, <2>1, <4>1 DEF Visiting, Good
      <3> QED  BY <3>1, <3>2, <3>3
    <2> QED  BY <2>0, <2>3 DEF Stage, Only
  <1>3. CASE FullEnd(q)
    <2>0. Only("visit") /\ Only("commit")'
      BY <1>0, <1>3 DEF Staged
    <2>1. Visiting(S, f) /\ ~Owed(f)
      BY <2>0, <1>3 DEF Stage, Only, FullEnd, Owed
    <2>2. CASE listing[f] = -1
      <3>1. mirror'[f] = 0
        BY <1>3, <2>2 DEF FullEnd
      <3>2. Base(S, Y, f)'
        BY <2>1, <2>2, <3>1 DEF Visiting, Base, Good
      <3> QED  BY <2>0, <3>2 DEF Stage, Only
    <2>3. CASE listing[f] # -1
      <3>1. mirror'[f] = mirror[f] /\ (f \in overtaken' <=> f \in overtaken)
        BY <1>3, <2>3 DEF FullEnd
      <3>2. Base(S, Y, f)'
        BY <2>1, <2>3, <3>1 DEF Visiting, Base, Good
      <3> QED  BY <2>0, <3>2 DEF Stage, Only
    <2> QED  BY <2>2, <2>3
  <1> QED  BY <1>1, <1>2, <1>3 DEF Full

(* No step of a pass puts anything in the mirror that S does not allow, and   *)
(* none forgets what it passed over.                                          *)
LEMMA PassReads ==
    ASSUME Typed, Locks, Listed, NEW q \in Queries, NEW f \in Files,
           NEW S, NEW X, NEW Y, Now(f) \subseteq S, Excuses(S, X, Y, f),
           At("visit") => Visiting(S, f), Scoped(q) \/ Full(q)
    PROVE  /\ Good(S, f) => Good(S, f)'
           /\ Base(S, X, f) => Base(S, Y, f)'
  <1>0. Staged(q)
    BY Stages
  <1>a. mirror'[f] = disk[f] /\ Shown \in S => Good(S, f)' /\ Base(S, Y, f)'
    BY NowAllows DEF Good, Base, Absent
  <1>b. mirror'[f] = 0 /\ Absent \in S => Good(S, f)' /\ Base(S, Y, f)'
    BY DEF Good, Base
  <1>c. ASSUME mirror'[f] = mirror[f], f \in overtaken => f \in overtaken',
               f \in dropped => f \in dropped', f \in returned => f \in returned'
        PROVE  (Good(S, f) => Good(S, f)') /\ (Base(S, X, f) => Base(S, Y, f)')
    BY <1>c DEF Good, Base, Excuses
  <1>1. CASE ScopedOne(q)
    <2>1. CASE UNCHANGED <<mirror, passed>>
      BY <2>1, <1>c DEF passed
    <2>2. ASSUME NEW p \in todo, Live(p) # 0,
                 ReadInto(IF NeedsRead(p, stamp[p]) THEN {p} ELSE {})
          PROVE  (Good(S, f) => Good(S, f)') /\ (Base(S, X, f) => Base(S, Y, f)')
      <3>1. CASE f = p /\ NeedsRead(p, stamp[p])
        <4>1. mirror'[f] = disk[f] /\ Shown \in S
          BY <2>2, <3>1, NowAllows DEF ReadInto
        <4> QED  BY <4>1, <1>a
      <3>2. CASE ~(f = p /\ NeedsRead(p, stamp[p]))
        <4>1. mirror'[f] = mirror[f] /\ (f \in overtaken => f \in overtaken')
          BY <2>2, <3>2 DEF ReadInto, Settle
        <4>2. (f \in dropped => f \in dropped') /\ (f \in returned => f \in returned')
          BY <2>2, <3>2 DEF ReadInto, Settle
        <4> QED  BY <4>1, <4>2, <1>c
      <3> QED  BY <3>1, <3>2
    <2>3. \/ UNCHANGED <<mirror, passed>>
          \/ \E p \in todo: /\ Live(p) # 0
                            /\ ReadInto(IF NeedsRead(p, stamp[p]) THEN {p} ELSE {})
      BY <1>1 DEF ScopedOne
    <2> QED  BY <2>1, <2>2, <2>3
  <1>2. CASE ScopedEnd(q)
    <2> DEFINE walked == IF Sub \in todo THEN Below ELSE {}
    <2>1. CASE f \in gones \cup walked /\ Live(f) = 0
      <3>1. mirror'[f] = 0 /\ Absent \in S
        BY <1>2, <2>1, NowAllows DEF ScopedEnd
      <3> QED  BY <3>1, <1>b
    <2>2. CASE f \in walked /\ Live(f) # 0 /\ NeedsRead(f, stamp[f])
      <3>1. mirror'[f] = disk[f] /\ Shown \in S
        BY <1>2, <2>2, NowAllows DEF ScopedEnd
      <3> QED  BY <3>1, <1>a
    <2>3. CASE /\ ~(f \in gones \cup walked /\ Live(f) = 0)
               /\ ~(f \in walked /\ Live(f) # 0 /\ NeedsRead(f, stamp[f]))
      <3>1. /\ mirror'[f] = mirror[f] /\ (f \in overtaken => f \in overtaken')
            /\ f \in dropped => f \in dropped'
            /\ f \in returned => f \in returned'
        BY <1>2, <2>3 DEF ScopedEnd
      <3> QED  BY <3>1, <1>c
    <2> QED  BY <2>1, <2>2, <2>3
  <1>3. CASE FullWalk(q)
    BY <1>3, <1>c DEF FullWalk, session, history, passed
  <1>4. CASE FullOne(q)
    <2>1. At("visit")
      BY <1>0, <1>4 DEF Staged, Only
    <2>2. PICK g \in todo: ReadInto(IF NeedsRead(g, listing[g]) THEN {g} ELSE {})
      BY <1>4 DEF FullOne
    <2>3. CASE f = g /\ NeedsRead(g, listing[g])
      <3>1. mirror'[f] = disk[f] /\ Shown \in S
        BY <2>1, <2>2, <2>3 DEF ReadInto, Listed, Visiting
      <3> QED  BY <3>1, <1>a
    <2>4. CASE ~(f = g /\ NeedsRead(g, listing[g]))
      <3>1. mirror'[f] = mirror[f] /\ (f \in overtaken => f \in overtaken')
        BY <2>2, <2>4 DEF ReadInto, Settle
      <3>2. (f \in dropped => f \in dropped') /\ (f \in returned => f \in returned')
        BY <2>2, <2>4 DEF ReadInto, Settle
      <3> QED  BY <3>1, <3>2, <1>c
    <2> QED  BY <2>3, <2>4
  <1>5. CASE FullEnd(q)
    <2>1. Visiting(S, f) /\ ~Owed(f)
      BY <1>0, <1>5 DEF Staged, Only, FullEnd, Owed
    <2>2. CASE listing[f] = -1
      <3>1. mirror'[f] = 0 /\ Absent \in S
        BY <1>5, <2>1, <2>2 DEF FullEnd, Visiting
      <3> QED  BY <3>1, <1>b
    <2>3. CASE listing[f] # -1
      <3>1. mirror'[f] = mirror[f] /\ (f \in overtaken <=> f \in overtaken')
        BY <1>5, <2>3 DEF FullEnd
      <3> QED  BY <2>1, <2>3, <3>1 DEF Visiting, Good, Base
    <2> QED  BY <2>2, <2>3
  <1> QED  BY <1>1, <1>2, <1>3, <1>4, <1>5 DEF Scoped, Full

NoStage == ~At("visit") /\ ~At("scoped") /\ ~At("commit")

LEMMA StagesClear ==
    ASSUME Typed, Locks, NEW q \in Queries
    PROVE  Gate(q) \/ Load(q) \/ Enter(q) \/ Commit(q) \/ Decline(q) => NoStage'
  BY Stages DEF Staged, Only, NoStage

LEMMA StageStill ==
    ASSUME StageKept, UNCHANGED <<mirror, fresh_ns, pass, overtaken, dropped>>, NEW f \in Files,
           NEW S, NEW T, NEW X, NEW Y, S \subseteq T, X \subseteq Y
    PROVE  /\ Stage(S, X, f) => Stage(T, Y, f)'
           /\ Base(S, X, f) => Base(T, Y, f)'
           /\ Good(S, f) => Good(T, f)'
  <1>1. Good(S, f) => Good(T, f)'
    BY DEF Good
  <1>2. Base(S, X, f) => Base(T, Y, f)'
    BY <1>1 DEF Base
  <1>3. Visiting(S, f) => Visiting(T, f)'
    BY <1>1 DEF Visiting, Owed, NeedsRead, pass
  <1>4. Scoping(S, X, f) => Scoping(T, Y, f)'
    BY <1>2 DEF Scoping, pass
  <1> QED  BY <1>1, <1>2, <1>3, <1>4 DEF Stage, StageKept

(* The stage a query sees after a step, from what it sees of S.               *)
LEMMA StageSeen ==
    ASSUME NEW q \in Queries, NEW f \in Files, NEW S, NEW Y, S = since'[q][f], Y = returned'
    PROVE  /\ Stage(S, Y, f)' => Stage(since[q][f], returned, f)'
           /\ Base(S, Y, f)' => Base(since[q][f], returned, f)'
           /\ Good(S, f)' => Good(since[q][f], f)'
  BY DEF Stage, Visiting, Scoping, Base, Good

LEMMA StageNow ==
    ASSUME NEW f \in Files, NEW S, S = Now(f)'
    PROVE  /\ Stage(S, {}, f)' => Stage(Now(f), {}, f)'
           /\ Base(S, {}, f)' => Base(Now(f), {}, f)'
  BY DEF Stage, Visiting, Scoping, Base, Good

(* Every change of the tree that touches what may be said of a file reports   *)
(* it to an armed watcher, and every query in flight has seen it.             *)
LEMMA TreeReports ==
    ASSUME Typed, TreeNext \/ UNCHANGED vars, NEW f \in Files
    PROVE  /\ UNCHANGED <<exact, armed, poison, log, pass, clean, raced, full_pass_done, mirror,
                         fresh_ns, passed, pc, reader, noted>>
           /\ Pending(f) => Pending(f)'
           /\ armed => Pending(f)' \/ Now(f)' = Now(f)
           /\ \A q \in Queries: since[q][f] \subseteq since'[q][f]
  <1> USE DEF tree, queue, witness, session, history
  <1>1. CASE Tick \/ Publish \/ UNCHANGED vars
    BY <1>1 DEF Tick, Publish, vars, Pending, Now, passed
  <1>2. ASSUME NEW paths, Change(paths),
               UNCHANGED <<disk, hidden>> \/ Names(paths, f) \/ Now(f)' = Now(f)
        PROVE  /\ UNCHANGED <<exact, armed, poison, log, pass, clean, raced, full_pass_done,
                             mirror, fresh_ns, passed, pc, reader, noted>>
               /\ Pending(f) => Pending(f)'
               /\ armed => Pending(f)' \/ Now(f)' = Now(f)
               /\ \A q \in Queries: since[q][f] \subseteq since'[q][f]
    <2>1. UNCHANGED <<exact, armed, poison, log, pass, clean, raced, full_pass_done, mirror,
                      fresh_ns, passed, pc, reader, noted>>
      BY <1>2 DEF Change
    <2>2. kernel \subseteq kernel' /\ (overflow => overflow')
          /\ (armed => overflow' \/ paths \subseteq kernel')
      BY <1>2 DEF Change, Post, Typed
    <2>3. \A q \in Queries: since[q][f] \subseteq since'[q][f]
      BY <1>2 DEF Change, Typed
    <2> QED  BY <1>2, <2>1, <2>2, <2>3 DEF Pending, Names, Now
  <1>3. ASSUME NEW g \in Files, Edit(g) \/ Create(g) \/ Delete(g)
        PROVE  /\ Change({g}) \/ Change({g, Parent(g)})
               /\ g = f \/ Now(f)' = Now(f)
    BY <1>3 DEF Edit, Create, Delete, Write, Now, Instant, InWalk, Typed
  <1>4. ASSUME NEW g \in Files, EditRules(g)
        PROVE  Change({Rules}) /\ Names({Rules}, f)
    BY <1>4 DEF EditRules, Names
  <1> QED  BY <1>1, <1>2, <1>3, <1>4 DEF TreeNext, Names

LEMMA NoteNames ==
    ASSUME Typed, NEW p \in kernel, log' = Note(p), NEW f \in Files
    PROVE  /\ LogNames(f) => LogNames(f)'
           /\ Names({p}, f) => LogNames(f)'
  <1>1. \/ log'.doubt
        \/ ~log'.doubt /\ log'.set = log.set \cup {p} /\ ~log.doubt
    BY DEF Note, Typed, LogType
  <1> QED  BY <1>1 DEF LogNames, Names

(* The watcher loses no name on the way from the kernel to the log.           *)
LEMMA WatchReports ==
    ASSUME Typed, WatchNext, NEW f \in Files
    PROVE  /\ UNCHANGED <<tree, session, pass, history, armed>>
           /\ LogNames(f) => LogNames(f)'
           /\ eligible' => eligible /\ (Pending(f) => Pending(f)' \/ LogNames(f)')
           /\ skip' => skip
           /\ raced => raced'
  <1> USE DEF queue, witness, eligible, skip
  <1>1. CASE LoopDrain
    BY <1>1 DEF LoopDrain, Pending, LogNames
  <1>2. CASE NoteRecord
    <2>1. PICK p \in kernel: kernel' = kernel \ {p} /\ log' = Note(p)
      BY <1>2 DEF NoteRecord
    <2>2. Names(kernel, f) => Names(kernel', f) \/ Names({p}, f)
      BY <2>1 DEF Names
    <2> QED  BY <1>2, <2>1, <2>2, NoteNames DEF NoteRecord, Pending
  <1>3. CASE NoteOverflow
    BY <1>3 DEF NoteOverflow, MarkDirty, LogNames
  <1>4. CASE DrainDone
    <2>1. /\ UNCHANGED <<tree, session, pass, history, armed, poison, log, kernel, overflow>>
          /\ (clean' = FALSE /\ raced' = TRUE) \/ UNCHANGED <<clean, raced>>
      BY <1>4 DEF DrainDone, MarkDirty
    <2> QED  BY <2>1 DEF Pending, LogNames
  <1> QED  BY <1>1, <1>2, <1>3, <1>4 DEF WatchNext

LEMMA ControlClear ==
    ASSUME Typed, Locks, ControlNext
    PROVE  /\ UNCHANGED <<tree, pc, reader, mirror, fresh_ns, pass, history>>
           /\ \A q \in Queries: pc[q] = "idle"
           /\ NoStage'
           /\ ~skip'
           /\ ~armed \/ ~eligible'
  <1>1. /\ UNCHANGED <<tree, pc, reader, mirror, fresh_ns, pass, history>>
        /\ clean' = FALSE /\ (~armed \/ armed' = FALSE)
    BY DEF ControlNext, armWatcher, disarmWatcher, session
  <1>2. \A q \in Queries: pc[q] = "idle"
    BY DEF ControlNext, armWatcher, disarmWatcher, Quiescent
  <1> QED  BY <1>1, <1>2 DEF NoStage, At, skip, eligible

(* A step of a pass, as the other queries see it. *)
LEMMA PassFrame ==
    ASSUME Typed, Locks, NEW q \in Queries, Scoped(q) \/ Full(q)
    PROVE  /\ UNCHANGED <<tree, queue, log, witness, fresh_ns, rebuilt, now, batch, since>>
           /\ full_pass_done' \in {full_pass_done, full_pass_done \/ armed}
           /\ full_pass_done' = full_pass_done \/ At("visit")
           /\ pc[q] \in {"scoped", "walk", "visit"}
           /\ pc'[q] \in {"scoped", "walk", "visit", "commit"}
           /\ \A r \in Queries \ {q}: pc'[r] = pc[r] /\ pc[r] \notin Writing \cup {"answer"}
  <1>1. CASE ScopedOne(q)
    BY <1>1 DEF ScopedOne, Goto, Typed, Locks, Exclusive, Writing
  <1>2. CASE ScopedEnd(q)
    BY <1>2 DEF ScopedEnd, Goto, Typed, Locks, Exclusive, Writing
  <1>3. CASE FullWalk(q)
    BY <1>3 DEF FullWalk, Goto, Typed, Locks, Exclusive, Writing, session, history
  <1>4. CASE FullOne(q)
    BY <1>4 DEF FullOne, Goto, Typed, Locks, Exclusive, Writing
  <1>5. CASE FullEnd(q)
    BY <1>5 DEF FullEnd, Goto, Typed, Locks, Exclusive, Writing, At
  <1> QED  BY <1>1, <1>2, <1>3, <1>4, <1>5 DEF Scoped, Full

(***************************************************************************)
(* What no query has asked for yet.  While an armed watcher is trusted, a    *)
(* file is on its way to the log, or in it, or the running pass will settle  *)
(* it; once a full pass has covered the tree, the same holds between passes. *)
(***************************************************************************)

PresentStage == eligible => \A f \in Files:
    Pending(f) \/ LogNames(f) \/ Stage(Now(f), {}, f)
PresentBase == eligible /\ full_pass_done => \A f \in Files:
    Pending(f) \/ LogNames(f) \/ BatchNames(f) \/ Base(Now(f), {}, f)

LEMMA PresentStageKept ==
    ASSUME Typed, Locks, ClocksPast, CursorSound, Listed, PresentStage, PresentBase, PassScoped,
           [Next]_vars
    PROVE  PresentStage'
  <1> SUFFICES ASSUME NEW f \in Files, eligible'
               PROVE  (Pending(f) \/ LogNames(f) \/ Stage(Now(f), {}, f))'
    BY DEF PresentStage
  <1>0. eligible => Pending(f) \/ LogNames(f) \/ Stage(Now(f), {}, f)
    BY DEF PresentStage
  <1>a. ASSUME StageKept, UNCHANGED <<mirror, fresh_ns, pass, passed>>, Now(f)' = Now(f),
               Stage(Now(f), {}, f)
        PROVE  Stage(Now(f), {}, f)'
    <2>1. PICK S: S = Now(f)'
      OBVIOUS
    <2>2. Stage(S, {}, f)'
      BY <1>a, <2>1, StageStill DEF passed
    <2> QED  BY <2>1, <2>2, StageNow
  <1>b. NoStage' => Stage(Now(f), {}, f)'
    BY DEF NoStage, Stage
  <1>1. CASE TreeNext \/ UNCHANGED vars
    <2>1. /\ UNCHANGED <<armed, poison, log, mirror, fresh_ns, pass, passed>>
          /\ Pending(f) => Pending(f)'
          /\ armed => Pending(f)' \/ Now(f)' = Now(f)
      BY <1>1, TreeReports
    <2>2. StageKept
      BY <1>1, OutsideStands DEF Outside
    <2>3. eligible /\ armed /\ (LogNames(f) => LogNames(f)')
      BY <2>1 DEF eligible, LogNames
    <2> QED  BY <1>0, <1>a, <2>1, <2>2, <2>3
  <1>2. CASE WatchNext
    <2>1. /\ UNCHANGED <<tree, mirror, fresh_ns, pass, passed>>
          /\ LogNames(f) => LogNames(f)'
          /\ eligible /\ (Pending(f) => Pending(f)' \/ LogNames(f)')
      BY <1>2, WatchReports DEF session, history
    <2>2. StageKept /\ Now(f)' = Now(f)
      BY <1>2, <2>1, OutsideStands DEF Outside, tree, Now
    <2> QED  BY <1>0, <1>a, <2>1, <2>2
  <1>3. CASE ControlNext
    BY <1>3, <1>b, ControlClear
  <1>4. ASSUME NEW q \in Queries, Aside(q)
        PROVE  (Pending(f) \/ LogNames(f) \/ Stage(Now(f), {}, f))'
    <2>1. StageKept /\ UNCHANGED <<tree, armed, kernel, overflow, log, witness, session, pass, passed>>
      BY <1>4, AsideStands
    <2>2. eligible /\ (Pending(f) => Pending(f)') /\ (LogNames(f) => LogNames(f)')
          /\ UNCHANGED <<mirror, fresh_ns>> /\ Now(f)' = Now(f)
      BY <2>1 DEF eligible, witness, Pending, LogNames, session, tree, Now
    <2> QED  BY <1>0, <1>a, <2>1, <2>2
  <1>5. ASSUME NEW q \in Queries, Gate(q) \/ Load(q) \/ Enter(q) \/ Commit(q) \/ Decline(q)
        PROVE  Stage(Now(f), {}, f)'
    BY <1>5, <1>b, StagesClear
  <1>6. ASSUME NEW q \in Queries, Drain(q)
        PROVE  (Pending(f) \/ LogNames(f) \/ Stage(Now(f), {}, f))'
    <2>1. Staged(q)
      BY Stages
    <2>2. CASE Only("walk")'
      BY <2>2, <1>b DEF Only, NoStage
    <2>3. CASE Only("scoped")' /\ ScopedEligible
      <3>1. /\ UNCHANGED <<tree, queue, session, passed>> /\ todo' = log.set /\ gones' = {}
            /\ ~log.doubt /\ eligible /\ full_pass_done
        BY <1>6, <2>3 DEF Drain, ScopedEligible, history
      <3>2. ~BatchNames(f)
        <4>1. batch = EmptyLog
          BY <2>1, <1>6 DEF Staged, Only, PassScoped, Passing
        <4> QED  BY <4>1 DEF BatchNames, EmptyLog, Names
      <3>3. Pending(f) \/ Names(log.set, f) \/ Base(Now(f), {}, f)
        BY <3>1, <3>2 DEF PresentBase, LogNames
      <3>4. Pending(f) => Pending(f)'
        BY <3>1 DEF queue, Pending
      <3>5. Base(Now(f), {}, f) => Base(Now(f), {}, f)'
        BY <3>1 DEF Base, Good, tree, session, passed, Now
      <3>6. Names(log.set, f) \/ Base(Now(f), {}, f) => Scoping(Now(f), {}, f)'
        BY <3>1, <3>5 DEF Scoping
      <3> QED  BY <2>3, <3>3, <3>4, <3>6 DEF Stage, Only
    <2> QED  BY <1>6, <2>1, <2>2, <2>3 DEF Staged
  <1>7. ASSUME NEW q \in Queries, Scoped(q) \/ Full(q)
        PROVE  (Pending(f) \/ LogNames(f) \/ Stage(Now(f), {}, f))'
    <2>1. UNCHANGED <<tree, queue, log, witness>>
      BY <1>7, PassFrame
    <2>2. eligible /\ (Pending(f) => Pending(f)') /\ (LogNames(f) => LogNames(f)')
          /\ Now(f)' = Now(f)
      BY <2>1 DEF eligible, queue, witness, Pending, LogNames, tree, Now
    <2>3. ASSUME Stage(Now(f), {}, f)
          PROVE  Stage(Now(f), {}, f)'
      <3>1. PICK S: S = Now(f)
        OBVIOUS
      <3>2. Stage(S, {}, f)
        BY <2>3, <3>1
      <3>3. Stage(S, {}, f)'
        BY <1>7, <3>1, <3>2, ScopedStage, FullStage DEF Excuses
      <3> QED  BY <2>2, <3>1, <3>3, StageNow
    <2> QED  BY <1>0, <2>2, <2>3
  <1> QED  BY <1>1, <1>2, <1>3, <1>4, <1>5, <1>6, <1>7 DEF Next, QueryNext, Aside

LEMMA BatchNamed == ASSUME NEW f \in Files, BatchNames(f) PROVE f \in Named(batch)
  BY DEF BatchNames, Names, Named

LEMMA PresentBaseKept ==
    ASSUME Typed, Locks, ClocksPast, CursorSound, Listed, PassScoped, PresentStage, PresentBase,
           [Next]_vars
    PROVE  PresentBase'
  <1> SUFFICES ASSUME NEW f \in Files, eligible', full_pass_done'
               PROVE  (Pending(f) \/ LogNames(f) \/ BatchNames(f) \/ Base(Now(f), {}, f))'
    BY DEF PresentBase
  <1>0. eligible /\ full_pass_done =>
            Pending(f) \/ LogNames(f) \/ BatchNames(f) \/ Base(Now(f), {}, f)
    BY DEF PresentBase
  <1>a. ASSUME UNCHANGED <<mirror, overtaken>>, dropped \subseteq dropped', Now(f)' = Now(f),
               Base(Now(f), {}, f)
        PROVE  Base(Now(f), {}, f)'
    BY <1>a DEF Base, Good
  <1>1. CASE TreeNext \/ UNCHANGED vars
    <2>1. /\ UNCHANGED <<armed, poison, log, full_pass_done, mirror, pass, passed>>
          /\ Pending(f) => Pending(f)'
          /\ armed => Pending(f)' \/ Now(f)' = Now(f)
      BY <1>1, TreeReports
    <2>2. eligible /\ armed /\ full_pass_done /\ (LogNames(f) => LogNames(f)')
          /\ (BatchNames(f) => BatchNames(f)')
      BY <2>1 DEF eligible, LogNames, BatchNames, pass
    <2> QED  BY <1>0, <1>a, <2>1, <2>2 DEF passed
  <1>2. CASE WatchNext
    <2>1. /\ UNCHANGED <<tree, mirror, full_pass_done, pass, passed>>
          /\ LogNames(f) => LogNames(f)'
          /\ eligible /\ (Pending(f) => Pending(f)' \/ LogNames(f)')
      BY <1>2, WatchReports DEF session, history
    <2>2. full_pass_done /\ (BatchNames(f) => BatchNames(f)') /\ Now(f)' = Now(f)
      BY <2>1 DEF BatchNames, pass, tree, Now
    <2> QED  BY <1>0, <1>a, <2>1, <2>2 DEF passed
  <1>3. CASE ControlNext
    <2>1. full_pass_done => armed
      BY DEF PassScoped
    <2>2. full_pass_done
      BY <1>3 DEF ControlNext, armWatcher, disarmWatcher, session
    <2> QED  BY <1>3, <2>1, <2>2, ControlClear
  <1>4. ASSUME NEW q \in Queries, Aside(q)
        PROVE  (Pending(f) \/ LogNames(f) \/ BatchNames(f) \/ Base(Now(f), {}, f))'
    <2>1. UNCHANGED <<tree, armed, kernel, overflow, log, witness, session, pass, passed>>
      BY <1>4, AsideStands
    <2>2. eligible /\ full_pass_done /\ (Pending(f) => Pending(f)') /\ (LogNames(f) => LogNames(f)')
          /\ (BatchNames(f) => BatchNames(f)') /\ UNCHANGED mirror /\ Now(f)' = Now(f)
      BY <2>1 DEF eligible, witness, Pending, LogNames, BatchNames, session, pass, tree, Now
    <2> QED  BY <1>0, <1>a, <2>1, <2>2 DEF passed
  <1>5. ASSUME NEW q \in Queries, Gate(q) \/ Enter(q)
        PROVE  (Pending(f) \/ LogNames(f) \/ BatchNames(f) \/ Base(Now(f), {}, f))'
    <2>1. UNCHANGED <<tree, queue, log, clean, poison, session, batch, history>>
      BY <1>5 DEF Gate, Enter, witness
    <2>2. eligible /\ full_pass_done /\ (Pending(f) => Pending(f)') /\ (LogNames(f) => LogNames(f)')
          /\ (BatchNames(f) => BatchNames(f)') /\ UNCHANGED mirror /\ Now(f)' = Now(f)
      BY <2>1 DEF eligible, queue, Pending, LogNames, BatchNames, session, tree, Now
    <2> QED  BY <1>0, <1>a, <2>1, <2>2 DEF history, passed
  <1>6. ASSUME NEW q \in Queries, Load(q)
        PROVE  Base(Now(f), {}, f)'
    <2>1. mirror'[f] = Live(f) /\ UNCHANGED <<disk, hidden>>
      BY <1>6 DEF Load, tree
    <2> QED  BY <2>1, NowAllows DEF Base, Good, Now
  <1>7. ASSUME NEW q \in Queries, Drain(q)
        PROVE  (Pending(f) \/ LogNames(f) \/ BatchNames(f) \/ Base(Now(f), {}, f))'
    <2>1. ~BatchNames(f)
      <3>1. Staged(q)
        BY Stages
      <3>2. batch = EmptyLog
        BY <3>1, <1>7 DEF Staged, Only, PassScoped, Passing
      <3> QED  BY <3>2 DEF BatchNames, EmptyLog, Names
    <2>2. UNCHANGED <<tree, queue, witness, session, history>> /\ batch' = log
      BY <1>7 DEF Drain
    <2>3. eligible /\ full_pass_done /\ (Pending(f) => Pending(f)') /\ (LogNames(f) => BatchNames(f)')
          /\ UNCHANGED mirror /\ Now(f)' = Now(f)
      BY <2>2 DEF eligible, witness, queue, Pending, LogNames, BatchNames, session, tree, Now
    <2> QED  BY <1>0, <1>a, <2>1, <2>2, <2>3 DEF history, passed
  <1>8. ASSUME NEW q \in Queries, Decline(q)
        PROVE  (Pending(f) \/ LogNames(f) \/ BatchNames(f) \/ Base(Now(f), {}, f))'
    <2>1. UNCHANGED <<tree, queue, log, witness, session, overtaken>>
          /\ dropped' = dropped \cup Named(batch)
      BY <1>8 DEF Decline
    <2>2. BatchNames(f) => Base(Now(f), {}, f)'
      BY <2>1, BatchNamed DEF Base
    <2>3. eligible /\ full_pass_done /\ (Pending(f) => Pending(f)') /\ (LogNames(f) => LogNames(f)')
          /\ UNCHANGED mirror /\ Now(f)' = Now(f)
      BY <2>1 DEF eligible, witness, queue, Pending, LogNames, session, tree, Now
    <2> QED  BY <1>0, <1>a, <2>1, <2>2, <2>3
  <1>9. ASSUME NEW q \in Queries, Commit(q)
        PROVE  (Pending(f) \/ LogNames(f) \/ BatchNames(f) \/ Base(Now(f), {}, f))'
    <2>1. /\ UNCHANGED <<tree, queue, log, poison, mirror, full_pass_done, dropped>>
          /\ overtaken \subseteq overtaken'
      BY <1>9 DEF Commit
    <2>2. eligible /\ (Pending(f) => Pending(f)') /\ (LogNames(f) => LogNames(f)')
          /\ Now(f)' = Now(f)
      BY <2>1 DEF eligible, queue, Pending, LogNames, tree, Now
    <2>3. At("commit")
      BY <1>9, Stages DEF Staged, Only
    <2>4. Pending(f) \/ LogNames(f) \/ Base(Now(f), {}, f)
      BY <2>2, <2>3 DEF PresentStage, Stage
    <2>5. Base(Now(f), {}, f) => Base(Now(f), {}, f)'
      BY <2>1, <2>2 DEF Base, Good
    <2> QED  BY <2>2, <2>4, <2>5
  <1>10. ASSUME NEW q \in Queries, Scoped(q) \/ Full(q)
         PROVE  (Pending(f) \/ LogNames(f) \/ BatchNames(f) \/ Base(Now(f), {}, f))'
    <2>1. UNCHANGED <<tree, queue, log, witness, batch>>
      BY <1>10, PassFrame
    <2>2. eligible /\ (Pending(f) => Pending(f)') /\ (LogNames(f) => LogNames(f)')
          /\ (BatchNames(f) => BatchNames(f)') /\ Now(f)' = Now(f)
      BY <2>1 DEF eligible, queue, witness, Pending, LogNames, BatchNames, tree, Now
    <2>3. PICK S: S = Now(f)
      OBVIOUS
    <2>4. CASE ~full_pass_done
      <3>1. FullEnd(q)
        BY <1>10, <2>4 DEF Scoped, Full, ScopedOne, ScopedEnd, FullWalk, FullOne, session
      <3>2. Only("visit") /\ Only("commit")'
        BY <3>1, Stages DEF Staged
      <3>3. Pending(f) \/ LogNames(f) \/ Stage(S, {}, f)
        BY <2>2, <2>3 DEF PresentStage
      <3>4. Stage(S, {}, f) => Stage(S, {}, f)'
        BY <3>1, <2>3, FullStage DEF Full
      <3>5. Stage(S, {}, f)' => Base(S, {}, f)'
        BY <3>2 DEF Stage, Only
      <3>6. Base(S, {}, f)' => Base(Now(f), {}, f)'
        BY <2>2, <2>3, StageNow
      <3> QED  BY <2>2, <3>3, <3>4, <3>5, <3>6
    <2>5. CASE full_pass_done
      <3>1. Pending(f) \/ LogNames(f) \/ (At("visit") => Visiting(S, f))
        BY <2>2, <2>3 DEF PresentStage, Stage
      <3>2. (At("visit") => Visiting(S, f)) /\ Base(S, {}, f) => Base(S, {}, f)'
        BY <1>10, <2>3, PassReads DEF Excuses
      <3>3. Base(S, {}, f)' => Base(Now(f), {}, f)'
        BY <2>2, <2>3, StageNow
      <3> QED  BY <1>0, <2>2, <2>3, <2>5, <3>1, <3>2, <3>3
    <2> QED  BY <2>4, <2>5
  <1> QED  BY <1>1, <1>2, <1>3, <1>4, <1>5, <1>6, <1>7, <1>8, <1>9, <1>10 DEF Next, QueryNext, Aside

(***************************************************************************)
(* What the queries in flight have asked for.                               *)
(***************************************************************************)

Waiting(q) == pc[q] \in {"check", "upgrade"}
Before(q) == pc[q] \in {"check", "upgrade", "gate", "load", "enter", "drain"}
Through(q) == pc[q] \in {"walk", "scoped", "visit", "commit", "downgrade"}

(* The running pass settles every file for those that run or ran a pass, and  *)
(* for those that wait for one unless the file is logged anew, which the pass *)
(* will see at its commit.                                                    *)
QueryStage == \A q \in Queries: \A f \in Files:
    /\ Through(q) => Stage(since[q][f], returned, f)
    /\ Waiting(q) /\ eligible =>
           (raced /\ LogNames(f)) \/ Stage(since[q][f], returned, f)

(* Between covering passes the mirror answers for whatever is not logged.     *)
QueryBase == eligible /\ full_pass_done =>
    \A q \in Queries: Before(q) => \A f \in Files:
        LogNames(f) \/ BatchNames(f) \/ Base(since[q][f], returned, f)

(* Past the barrier, or free to skip it, the mirror holds an answer that is   *)
(* allowed, or a file passed over where paths are exact.                      *)
Excused(f) == exact /\ (f \in overtaken \/ f \in dropped \/ f \in returned)
Answerable(q) == pc[q] \in {"downgrade", "answer"} \/ (Before(q) /\ skip)
Served == \A q \in Queries: Answerable(q) =>
    \A f \in Files: Good(since[q][f], f) \/ Excused(f)

(* A flush leaves its query where the log, or the running pass, knows all it  *)
(* is owed.                                                                   *)
LEMMA FlushedStage ==
    ASSUME Typed, Locks, LogMarked, Windows, PresentStage, DrainDone,
           NEW q \in Queries, reader = q, eligible, NEW f \in Files
    PROVE  (raced' /\ LogNames(f)) \/ Stage(since[q][f], returned, f)
  <1>1. LogNames(f) \/ Stage(Now(f), {}, f)
    BY DEF PresentStage, DrainDone, Pending, Names
  <1>2. Now(f) \subseteq since[q][f]
    BY DEF Windows, Locks, ReaderKnown
  <1>3. Stage(Now(f), {}, f) => Stage(since[q][f], returned, f)
    BY <1>2 DEF Stage, Visiting, Scoping, Base, Good
  <1>4. CASE LogNames(f) /\ noted
    BY <1>4 DEF DrainDone, MarkDirty
  <1>5. CASE LogNames(f) /\ ~noted /\ Passing
    <2>1. ~LogEmpty
      BY <1>5 DEF LogEmpty, LogNames, Names
    <2>2. raced
      BY <1>5, <2>1 DEF LogMarked
    <2> QED  BY <1>5, <2>2 DEF DrainDone
  <1>6. CASE ~Passing
    BY <1>6 DEF Stage, Passing
  <1> QED  BY <1>1, <1>3, <1>4, <1>5, <1>6

LEMMA FlushedBase ==
    ASSUME Typed, Locks, Windows, PresentBase, DrainDone,
           NEW q \in Queries, reader = q, eligible, full_pass_done, NEW f \in Files
    PROVE  LogNames(f) \/ BatchNames(f) \/ Base(since[q][f], returned, f)
  <1>1. LogNames(f) \/ BatchNames(f) \/ Base(Now(f), {}, f)
    BY DEF PresentBase, DrainDone, Pending, Names
  <1>2. Now(f) \subseteq since[q][f]
    BY DEF Windows, Locks, ReaderKnown
  <1> QED  BY <1>1, <1>2 DEF Base, Good

(* Only a flush or a step of its own moves a query.                           *)
LEMMA DrainMoves ==
    ASSUME Typed, Locks, DrainDone, NEW q \in Queries
    PROVE  /\ q = reader => pc[q] = "flushing" /\ pc'[q] = "check"
           /\ q # reader => pc'[q] = pc[q]
  BY DEF DrainDone, Typed, Locks, ReaderKnown

LEMMA QueryStageKept ==
    ASSUME Typed, Locks, ClocksPast, CursorSound, Listed, LogMarked, Windows, PassScoped,
           PresentStage, QueryStage, QueryBase, Served, [Next]_vars
    PROVE  QueryStage'
  <1> SUFFICES ASSUME NEW r \in Queries, NEW f \in Files
               PROVE  /\ Through(r)' => Stage(since[r][f], returned, f)'
                      /\ Waiting(r)' /\ eligible' =>
                             (raced' /\ LogNames(f)') \/ Stage(since[r][f], returned, f)'
    BY DEF QueryStage
  <1>0. /\ Through(r) => Stage(since[r][f], returned, f)
        /\ Waiting(r) /\ eligible => (raced /\ LogNames(f)) \/ Stage(since[r][f], returned, f)
    BY DEF QueryStage
  <1>a. ASSUME StageKept, UNCHANGED <<mirror, fresh_ns, pass, passed>>,
               since[r][f] \subseteq since'[r][f], Stage(since[r][f], returned, f)
        PROVE  Stage(since[r][f], returned, f)'
    <2>1. PICK S, T, X: S = since[r][f] /\ T = since'[r][f] /\ X = returned
      OBVIOUS
    <2>2. Stage(S, X, f)
      BY <1>a, <2>1
    <2>3. Stage(T, X, f)'
      BY <1>a, <2>1, <2>2, StageStill DEF passed
    <2>4. X = returned'
      BY <1>a, <2>1 DEF passed
    <2> QED  BY <2>1, <2>3, <2>4, StageSeen
  <1>b. NoStage' => Stage(since[r][f], returned, f)'
    BY DEF NoStage, Stage
  <1>1. CASE TreeNext \/ UNCHANGED vars
    <2>1. /\ UNCHANGED <<armed, poison, log, mirror, fresh_ns, pass, passed, raced, pc>>
          /\ since[r][f] \subseteq since'[r][f]
      BY <1>1, TreeReports
    <2>2. StageKept
      BY <1>1, OutsideStands DEF Outside
    <2>3. (eligible' => eligible) /\ (LogNames(f) => LogNames(f)')
          /\ (Through(r)' => Through(r)) /\ (Waiting(r)' => Waiting(r))
      BY <2>1 DEF eligible, LogNames, Through, Waiting
    <2> QED  BY <1>0, <1>a, <2>1, <2>2, <2>3
  <1>2. CASE WatchNext
    <2>1. /\ UNCHANGED <<mirror, fresh_ns, pass, passed, since>>
          /\ LogNames(f) => LogNames(f)'
          /\ eligible' => eligible
          /\ raced => raced'
      BY <1>2, WatchReports DEF session, history
    <2>2. StageKept
      BY <1>2, OutsideStands DEF Outside
    <2>3. CASE ~DrainDone \/ r # reader
      <3>1. pc'[r] = pc[r]
        BY <1>2, <2>3, DrainMoves DEF WatchNext, LoopDrain, NoteRecord, NoteOverflow
      <3>2. (Through(r)' => Through(r)) /\ (Waiting(r)' => Waiting(r))
        BY <3>1 DEF Through, Waiting
      <3> QED  BY <1>0, <1>a, <2>1, <2>2, <3>2
    <2>4. CASE DrainDone /\ r = reader
      <3>1. ~Through(r)'
        BY <2>4, DrainMoves DEF Through
      <3>2. eligible => (raced' /\ LogNames(f)) \/ Stage(since[r][f], returned, f)
        BY <2>4, FlushedStage
      <3> QED  BY <1>a, <2>1, <2>2, <3>1, <3>2
    <2> QED  BY <2>3, <2>4
  <1>3. CASE ControlNext
    BY <1>3, <1>b, ControlClear
  <1>4. ASSUME NEW q \in Queries, Aside(q)
        PROVE  /\ Through(r)' => Stage(since[r][f], returned, f)'
               /\ Waiting(r)' /\ eligible' =>
                      (raced' /\ LogNames(f)') \/ Stage(since[r][f], returned, f)'
    <2>1. StageKept /\ UNCHANGED <<tree, armed, log, witness, session, pass, passed>>
      BY <1>4, AsideStands
    <2>2. (eligible' => eligible) /\ (LogNames(f) => LogNames(f)') /\ (raced => raced')
      BY <2>1 DEF eligible, witness, LogNames
    <2>3. (Through(r)' => Through(r)) /\ (Waiting(r)' /\ eligible' => Waiting(r))
          /\ (Through(r)' \/ (Waiting(r)' /\ eligible') => since'[r] = since[r])
      <3>1. CASE Arrive(q) \/ Answer(q)
        BY <3>1 DEF Arrive, Answer, Goto, Through, Waiting, Typed
      <3>2. CASE Flush(q)
        BY <3>2 DEF Flush, Goto, Through, Waiting, Typed, history, eligible
      <3>3. CASE Check(q) \/ Upgrade(q) \/ Downgrade(q)
        BY <3>3 DEF Check, Upgrade, Downgrade, Goto, Through, Waiting, Typed, history
      <3> QED  BY <1>4, <3>1, <3>2, <3>3 DEF Aside
    <2>4. UNCHANGED <<mirror, fresh_ns>>
      BY <2>1 DEF session
    <2>5. ASSUME since'[r] = since[r], Stage(since[r][f], returned, f)
          PROVE  Stage(since[r][f], returned, f)'
      BY <1>a, <2>1, <2>4, <2>5
    <2> QED  BY <1>0, <2>2, <2>3, <2>5
  <1>5. ASSUME NEW q \in Queries, Gate(q) \/ Load(q) \/ Enter(q) \/ Commit(q) \/ Decline(q)
        PROVE  Stage(since[r][f], returned, f)'
    BY <1>5, <1>b, StagesClear
  <1>6. ASSUME NEW q \in Queries, Drain(q)
        PROVE  Through(r)' \/ Waiting(r)' => Stage(since[r][f], returned, f)'
    <2>0. Staged(q)
      BY Stages
    <2>1. CASE Only("walk")'
      BY <2>1, <1>b DEF Only, NoStage
    <2>2. CASE Only("scoped")' /\ ScopedEligible
      <3>1. /\ UNCHANGED <<mirror, passed, since>> /\ todo' = log.set /\ gones' = {}
            /\ ~log.doubt /\ eligible /\ full_pass_done /\ pc[q] = "drain"
            /\ r # q => pc'[r] = pc[r]
        BY <1>6, <2>2 DEF Drain, ScopedEligible, session, history, Goto, Typed
      <3>2. ~BatchNames(f)
        <4>1. batch = EmptyLog
          BY <2>0, <1>6 DEF Staged, Only, PassScoped, Passing
        <4> QED  BY <4>1 DEF BatchNames, EmptyLog, Names
      <3>3. ASSUME Through(r)' \/ Waiting(r)'
            PROVE  Names(log.set, f) \/ Base(since[r][f], returned, f)
        <4>1. CASE Before(r)
          BY <3>1, <3>2, <4>1 DEF QueryBase, LogNames
        <4>2. CASE ~Before(r)
          <5>1. r # q /\ pc[r] \notin Writing
            BY <3>1, <4>2 DEF Before, Locks, Exclusive, Writing
          <5>2. pc[r] = "downgrade"
            BY <3>1, <3>3, <4>2, <5>1 DEF Before, Through, Waiting, Writing
          <5> QED  BY <5>2 DEF Served, Answerable, Excused, Base
        <4> QED  BY <4>1, <4>2
      <3>4. Base(since[r][f], returned, f) => Base(since[r][f], returned, f)'
        BY <3>1 DEF Base, Good, passed
      <3>5. ASSUME Names(log.set, f) \/ Base(since[r][f], returned, f)
            PROVE  Scoping(since[r][f], returned, f)'
        BY <3>1, <3>4, <3>5 DEF Scoping
      <3> QED  BY <2>2, <3>3, <3>5 DEF Stage, Only
    <2> QED  BY <1>6, <2>0, <2>1, <2>2 DEF Staged
  <1>7. ASSUME NEW q \in Queries, Scoped(q) \/ Full(q)
        PROVE  /\ Through(r)' => Stage(since[r][f], returned, f)'
               /\ Waiting(r)' /\ eligible' =>
                      (raced' /\ LogNames(f)') \/ Stage(since[r][f], returned, f)'
    <2>1. UNCHANGED <<tree, queue, log, witness, since>>
      BY <1>7, PassFrame
    <2>2. (eligible' => eligible) /\ (LogNames(f) => LogNames(f)') /\ (raced => raced')
      BY <2>1 DEF eligible, queue, witness, LogNames
    <2>3. (Through(r)' => Through(r)) /\ (Waiting(r)' => Waiting(r))
      <3>1. CASE r = q
        BY <1>7, <3>1, PassFrame DEF Through, Waiting
      <3>2. CASE r # q
        BY <1>7, <3>2, PassFrame DEF Through, Waiting
      <3> QED  BY <3>1, <3>2
    <2>4. ASSUME Stage(since[r][f], returned, f), Through(r) \/ Waiting(r)
          PROVE  Stage(since[r][f], returned, f)'
      <3>1. PICK S, X, Y: S = since[r][f] /\ X = returned /\ Y = returned'
        OBVIOUS
      <3>2. Stage(S, X, f)
        BY <2>4, <3>1
      <3>3. Now(f) \subseteq S
        BY <2>4, <3>1 DEF Windows, Through, Waiting
      <3>4. Stage(S, Y, f)'
        BY <1>7, <3>1, <3>2, <3>3, ScopedStage, FullStage DEF Excuses
      <3> QED  BY <2>1, <3>1, <3>4, StageSeen
    <2> QED  BY <1>0, <2>2, <2>3, <2>4
  <1> QED  BY <1>1, <1>2, <1>3, <1>4, <1>5, <1>6, <1>7 DEF Next, QueryNext, Aside

(* No step of a query puts one, itself or another, before a pass.             *)
LEMMA BeforeKept ==
    ASSUME Typed, Locks, NEW q \in Queries, QueryNext(q), NEW r \in Queries, Before(r)', eligible'
    PROVE  Before(r)
  <1> USE DEF Before
  <1>1. CASE q # r
    <2>1. pc'[r] = pc[r]
      <3>1. CASE Aside(q)
        BY <1>1, <3>1 DEF Aside, Arrive, Flush, Check, Upgrade, Downgrade, Answer, Goto, Typed
      <3>2. CASE Gate(q) \/ Load(q) \/ Enter(q) \/ Commit(q) \/ Decline(q) \/ Drain(q)
        BY <1>1, <3>2 DEF Gate, Load, Enter, Commit, Decline, Drain, Goto, Typed
      <3>3. CASE Scoped(q) \/ Full(q)
        BY <1>1, <3>3, PassFrame
      <3> QED  BY <3>1, <3>2, <3>3 DEF QueryNext, Aside
    <2> QED  BY <2>1
  <1>2. CASE q = r
    <2>1. CASE Flush(q)
      BY <1>2, <2>1 DEF Flush, Goto, Typed, eligible
    <2>2. CASE Arrive(q) \/ Check(q) \/ Upgrade(q) \/ Downgrade(q) \/ Answer(q)
      BY <1>2, <2>2 DEF Arrive, Check, Upgrade, Downgrade, Answer, Goto, Typed
    <2>3. CASE Gate(q) \/ Load(q) \/ Enter(q) \/ Commit(q) \/ Decline(q) \/ Drain(q)
      BY <1>2, <2>3 DEF Gate, Load, Enter, Commit, Decline, Drain, Goto, Typed
    <2>4. CASE Scoped(q) \/ Full(q)
      BY <1>2, <2>4, PassFrame
    <2> QED  BY <2>1, <2>2, <2>3, <2>4 DEF QueryNext
  <1> QED  BY <1>1, <1>2

LEMMA QueryBaseKept ==
    ASSUME Typed, Locks, ClocksPast, CursorSound, Listed, PassScoped, Windows,
           PresentBase, QueryStage, QueryBase, [Next]_vars
    PROVE  QueryBase'
  <1> SUFFICES ASSUME NEW r \in Queries, NEW f \in Files, eligible', full_pass_done', Before(r)'
               PROVE  (LogNames(f) \/ BatchNames(f) \/ Base(since[r][f], returned, f))'
    BY DEF QueryBase
  <1>0. eligible /\ full_pass_done /\ Before(r) =>
            LogNames(f) \/ BatchNames(f) \/ Base(since[r][f], returned, f)
    BY DEF QueryBase
  <1>a. ASSUME UNCHANGED <<mirror, overtaken, returned>>, dropped \subseteq dropped',
               since[r][f] \subseteq since'[r][f], Base(since[r][f], returned, f)
        PROVE  Base(since[r][f], returned, f)'
    BY <1>a DEF Base, Good
  <1>1. CASE TreeNext \/ UNCHANGED vars
    <2>1. /\ UNCHANGED <<armed, poison, log, full_pass_done, mirror, pass, passed, pc>>
          /\ since[r][f] \subseteq since'[r][f]
      BY <1>1, TreeReports
    <2>2. eligible /\ full_pass_done /\ Before(r) /\ (LogNames(f) => LogNames(f)')
          /\ (BatchNames(f) => BatchNames(f)')
      BY <2>1 DEF eligible, LogNames, BatchNames, pass, Before
    <2> QED  BY <1>0, <1>a, <2>1, <2>2 DEF passed
  <1>2. CASE WatchNext
    <2>1. /\ UNCHANGED <<mirror, full_pass_done, pass, passed, since>>
          /\ LogNames(f) => LogNames(f)'
          /\ eligible
      BY <1>2, WatchReports DEF session, history
    <2>2. full_pass_done /\ (BatchNames(f) => BatchNames(f)')
      BY <2>1 DEF BatchNames, pass
    <2>3. CASE ~DrainDone \/ r # reader
      <3>1. pc'[r] = pc[r]
        BY <1>2, <2>3, DrainMoves DEF WatchNext, LoopDrain, NoteRecord, NoteOverflow
      <3>2. Before(r)
        BY <3>1 DEF Before
      <3> QED  BY <1>0, <1>a, <2>1, <2>2, <3>2 DEF passed
    <2>4. CASE DrainDone /\ r = reader
      <3>1. LogNames(f) \/ BatchNames(f) \/ Base(since[r][f], returned, f)
        BY <2>1, <2>2, <2>4, FlushedBase
      <3> QED  BY <1>a, <2>1, <2>2, <3>1 DEF passed
    <2> QED  BY <2>3, <2>4
  <1>3. CASE ControlNext
    BY <1>3, ControlClear DEF Before
  <1>4. ASSUME NEW q \in Queries, Aside(q)
        PROVE  (LogNames(f) \/ BatchNames(f) \/ Base(since[r][f], returned, f))'
    <2>1. UNCHANGED <<tree, armed, log, witness, session, pass, passed>>
      BY <1>4, AsideStands
    <2>2. eligible /\ full_pass_done /\ (LogNames(f) => LogNames(f)') /\ UNCHANGED mirror
          /\ (BatchNames(f) => BatchNames(f)')
      BY <2>1 DEF eligible, witness, LogNames, BatchNames, session, pass
    <2>3. Before(r)
      BY <1>4, BeforeKept DEF QueryNext, Aside
    <2>4. since'[r] = since[r]
      BY <1>4, <2>3 DEF Aside, Arrive, Flush, Check, Upgrade, Downgrade, Answer, history, Before,
                        Goto, Typed
    <2> QED  BY <1>0, <1>a, <2>1, <2>2, <2>3, <2>4 DEF passed
  <1>5. ASSUME NEW q \in Queries, Gate(q) \/ Enter(q)
        PROVE  (LogNames(f) \/ BatchNames(f) \/ Base(since[r][f], returned, f))'
    <2>1. UNCHANGED <<tree, queue, log, clean, poison, session, batch, history>>
      BY <1>5 DEF Gate, Enter, witness
    <2>2. eligible /\ full_pass_done /\ (LogNames(f) => LogNames(f)')
          /\ (BatchNames(f) => BatchNames(f)') /\ UNCHANGED mirror
      BY <2>1 DEF eligible, queue, LogNames, BatchNames, session
    <2>3. Before(r)
      BY <1>5, BeforeKept DEF QueryNext
    <2> QED  BY <1>0, <1>a, <2>1, <2>2, <2>3 DEF history, passed
  <1>6. ASSUME NEW q \in Queries, Load(q)
        PROVE  Base(since[r][f], returned, f)'
    <2>1. Before(r)
      BY <1>6, BeforeKept DEF QueryNext
    <2>2. mirror'[f] = Live(f) /\ since' = since /\ Now(f) \subseteq since[r][f]
      BY <1>6, <2>1 DEF Load, Windows, Before
    <2> QED  BY <2>2, NowAllows DEF Base, Good
  <1>7. ASSUME NEW q \in Queries, Drain(q)
        PROVE  (LogNames(f) \/ BatchNames(f) \/ Base(since[r][f], returned, f))'
    <2>1. ~BatchNames(f)
      <3>1. Staged(q)
        BY Stages
      <3>2. batch = EmptyLog
        BY <3>1, <1>7 DEF Staged, Only, PassScoped, Passing
      <3> QED  BY <3>2 DEF BatchNames, EmptyLog, Names
    <2>2. UNCHANGED <<tree, queue, witness, session, history>> /\ batch' = log
      BY <1>7 DEF Drain
    <2>3. eligible /\ full_pass_done /\ (LogNames(f) => BatchNames(f)') /\ UNCHANGED mirror
      BY <2>2 DEF eligible, witness, queue, LogNames, BatchNames, session
    <2>4. Before(r)
      BY <1>7, BeforeKept DEF QueryNext
    <2> QED  BY <1>0, <1>a, <2>1, <2>2, <2>3, <2>4 DEF history, passed
  <1>8. ASSUME NEW q \in Queries, Decline(q)
        PROVE  (LogNames(f) \/ BatchNames(f) \/ Base(since[r][f], returned, f))'
    <2>1. UNCHANGED <<tree, queue, log, witness, session, overtaken, returned>>
          /\ dropped' = dropped \cup Named(batch)
      BY <1>8 DEF Decline
    <2>2. BatchNames(f) => Base(since[r][f], returned, f)'
      BY <2>1, BatchNamed DEF Base
    <2>3. eligible /\ full_pass_done /\ (LogNames(f) => LogNames(f)') /\ UNCHANGED mirror
      BY <2>1 DEF eligible, witness, queue, LogNames, session
    <2>4. Before(r) /\ since'[r] = since[r]
      BY <1>8, BeforeKept DEF QueryNext, Decline, Goto, Typed, Before
    <2> QED  BY <1>0, <1>a, <2>1, <2>2, <2>3, <2>4
  <1>9. ASSUME NEW q \in Queries, Commit(q)
        PROVE  (LogNames(f) \/ BatchNames(f) \/ Base(since[r][f], returned, f))'
    <2>1. /\ UNCHANGED <<tree, queue, log, poison, mirror, full_pass_done, dropped, returned, since>>
          /\ overtaken \subseteq overtaken'
      BY <1>9 DEF Commit
    <2>2. eligible /\ (LogNames(f) => LogNames(f)')
      BY <2>1 DEF eligible, queue, LogNames
    <2>3. Waiting(r)
      <3>1. Before(r) /\ pc[q] = "commit"
        BY <1>9, BeforeKept DEF QueryNext, Commit
      <3> QED  BY <3>1 DEF Before, Waiting, Locks, Exclusive, Writing
    <2>4. At("commit")
      BY <1>9, Stages DEF Staged, Only
    <2>5. LogNames(f) \/ Base(since[r][f], returned, f)
      BY <2>2, <2>3, <2>4 DEF QueryStage, Stage
    <2>6. Base(since[r][f], returned, f) => Base(since[r][f], returned, f)'
      BY <2>1 DEF Base, Good
    <2> QED  BY <2>2, <2>5, <2>6
  <1>10. ASSUME NEW q \in Queries, Scoped(q) \/ Full(q)
         PROVE  (LogNames(f) \/ BatchNames(f) \/ Base(since[r][f], returned, f))'
    <2>1. UNCHANGED <<tree, queue, log, witness, batch, since>>
      BY <1>10, PassFrame
    <2>2. eligible /\ (LogNames(f) => LogNames(f)') /\ (BatchNames(f) => BatchNames(f)')
      BY <2>1 DEF eligible, queue, witness, LogNames, BatchNames
    <2>3. Before(r) /\ Waiting(r)
      <3>1. Before(r) /\ pc[q] \in {"scoped", "walk", "visit"}
        BY <1>10, BeforeKept, PassFrame DEF QueryNext
      <3> QED  BY <3>1 DEF Before, Waiting, Locks, Exclusive, Writing
    <2>4. PICK S, X, Y: S = since[r][f] /\ X = returned /\ Y = returned'
      OBVIOUS
    <2>5. Now(f) \subseteq S
      BY <2>3, <2>4 DEF Windows, Waiting
    <2>6. LogNames(f) \/ Stage(S, X, f)
      BY <2>2, <2>3, <2>4 DEF QueryStage
    <2>7. Base(S, Y, f)' => Base(since[r][f], returned, f)'
      BY <2>1, <2>4, StageSeen
    <2>8. CASE ~full_pass_done
      <3>1. FullEnd(q)
        BY <1>10, <2>8 DEF Scoped, Full, ScopedOne, ScopedEnd, FullWalk, FullOne, session
      <3>2. Only("visit") /\ Only("commit")'
        BY <3>1, Stages DEF Staged
      <3>3. Stage(S, X, f) => Stage(S, Y, f)'
        BY <3>1, <2>5, FullStage DEF Full
      <3>4. Stage(S, Y, f)' => Base(S, Y, f)'
        BY <3>2 DEF Stage, Only
      <3> QED  BY <2>2, <2>6, <2>7, <3>3, <3>4
    <2>9. CASE full_pass_done
      <3>1. LogNames(f) \/ (At("visit") => Visiting(S, f))
        BY <2>6 DEF Stage
      <3>2. (At("visit") => Visiting(S, f)) /\ Base(S, X, f) => Base(S, Y, f)'
        BY <1>10, <2>4, <2>5, PassReads DEF Excuses
      <3>3. LogNames(f) \/ BatchNames(f) \/ Base(S, X, f)
        BY <1>0, <2>2, <2>3, <2>4, <2>9
      <3> QED  BY <2>2, <2>7, <3>1, <3>2, <3>3
    <2> QED  BY <2>8, <2>9
  <1> QED  BY <1>1, <1>2, <1>3, <1>4, <1>5, <1>6, <1>7, <1>8, <1>9, <1>10 DEF Next, QueryNext, Aside

(* A flush that ends on a clean session has found nothing to report: what the *)
(* mirror holds is what the tree holds.                                       *)
LEMMA CleanServes ==
    ASSUME Typed, LogMarked, PassScoped, NoneExcused, PresentBase,
           skip, ~noted, kernel = {}, ~overflow, NEW f \in Files
    PROVE  \/ Good(Now(f), f)
           \/ exact /\ (f \in overtaken \/ f \in dropped)
  <1>1. eligible /\ clean /\ full_pass_done
    BY DEF skip, eligible, PassScoped
  <1>2. ~Pending(f)
    BY DEF Pending, Names
  <1>3. ~LogNames(f)
    BY <1>1 DEF LogMarked, LogEmpty, LogNames, Names
  <1>4. ~BatchNames(f)
    <2>1. batch = EmptyLog
      BY DEF PassScoped, Entered
    <2> QED  BY <2>1 DEF BatchNames, EmptyLog, Names
  <1>5. Base(Now(f), {}, f)
    BY <1>1, <1>2, <1>3, <1>4 DEF PresentBase
  <1> QED  BY <1>5 DEF Base, NoneExcused

LEMMA ServedKept ==
    ASSUME Typed, Locks, ClocksPast, CursorSound, NoneExcused, Listed, PassScoped, LogMarked, Windows,
           PresentBase, QueryStage, Served, [Next]_vars
    PROVE  Served'
  <1> SUFFICES ASSUME NEW r \in Queries, NEW f \in Files, Answerable(r)'
               PROVE  (Good(since[r][f], f) \/ Excused(f))'
    BY DEF Served
  <1>0. Answerable(r) => Good(since[r][f], f) \/ Excused(f)
    BY DEF Served
  <1>a. ASSUME UNCHANGED <<exact, mirror, returned>>, overtaken \subseteq overtaken',
               dropped \subseteq dropped', since[r][f] \subseteq since'[r][f],
               Good(since[r][f], f) \/ Excused(f)
        PROVE  (Good(since[r][f], f) \/ Excused(f))'
    BY <1>a DEF Good, Excused
  <1>1. CASE TreeNext \/ UNCHANGED vars
    <2>1. /\ UNCHANGED <<exact, armed, poison, clean, mirror, passed, pc>>
          /\ since[r][f] \subseteq since'[r][f]
      BY <1>1, TreeReports
    <2>2. Answerable(r)
      BY <2>1 DEF Answerable, Before, skip, eligible
    <2> QED  BY <1>0, <1>a, <2>1, <2>2 DEF passed
  <1>2. CASE WatchNext
    <2>1. UNCHANGED <<tree, mirror, passed, since>> /\ (skip' => skip)
      BY <1>2, WatchReports DEF session, history
    <2>2. CASE ~DrainDone \/ r # reader
      <3>1. pc'[r] = pc[r]
        BY <1>2, <2>2, DrainMoves DEF WatchNext, LoopDrain, NoteRecord, NoteOverflow
      <3>2. Answerable(r)
        BY <2>1, <3>1 DEF Answerable, Before
      <3> QED  BY <1>0, <1>a, <2>1, <3>2 DEF passed, tree
    <2>3. CASE DrainDone /\ r = reader
      <3>1. skip /\ ~noted /\ kernel = {} /\ ~overflow
        <4>1. skip' /\ skip
          BY <2>1, <2>3, DrainMoves DEF Answerable
        <4> QED  BY <2>3, <4>1 DEF DrainDone, MarkDirty, skip
      <3>2. Good(Now(f), f) \/ Excused(f)
        BY <3>1, CleanServes DEF Excused
      <3>3. Now(f) \subseteq since[r][f]
        BY <2>3, DrainMoves DEF Windows
      <3>4. Good(since[r][f], f) \/ Excused(f)
        BY <3>2, <3>3 DEF Good
      <3> QED  BY <1>a, <2>1, <3>4 DEF passed, tree
    <2> QED  BY <2>2, <2>3
  <1>3. CASE ControlNext
    BY <1>3, ControlClear DEF Answerable, Before
  <1>4. ASSUME NEW q \in Queries, Aside(q)
        PROVE  (Good(since[r][f], f) \/ Excused(f))'
    <2>1. UNCHANGED <<tree, armed, witness, session, passed>>
      BY <1>4, AsideStands
    <2>2. (skip' => skip /\ eligible') /\ UNCHANGED <<exact, mirror>>
      BY <2>1 DEF skip, eligible, witness, session, tree
    <2>3. Answerable(r) /\ since'[r] = since[r]
      <3>1. CASE r # q
        <4>1. pc'[r] = pc[r] /\ since'[r] = since[r]
          BY <1>4, <3>1 DEF Aside, Arrive, Flush, Check, Upgrade, Downgrade, Answer, history, Goto,
                            Typed
        <4> QED  BY <2>2, <4>1 DEF Answerable, Before
      <3>2. CASE r = q
        <4>1. CASE Arrive(q) \/ Answer(q)
          BY <3>2, <4>1 DEF Arrive, Answer, Goto, Answerable, Before, Typed
        <4>2. CASE Flush(q)
          BY <3>2, <4>2 DEF Flush, Goto, Answerable, Before, Typed, skip, eligible
        <4>3. CASE Check(q) \/ Upgrade(q) \/ Downgrade(q)
          BY <2>2, <3>2, <4>3 DEF Check, Upgrade, Downgrade, Goto, Answerable, Before, Typed, history
        <4> QED  BY <1>4, <4>1, <4>2, <4>3 DEF Aside
      <3> QED  BY <3>1, <3>2
    <2> QED  BY <1>0, <1>a, <2>1, <2>2, <2>3 DEF passed
  <1>5. ASSUME NEW q \in Queries, Gate(q) \/ Enter(q) \/ Drain(q)
        PROVE  (Good(since[r][f], f) \/ Excused(f))'
    <2>1. UNCHANGED <<tree, armed, clean, poison, session, history>>
      BY <1>5 DEF Gate, Enter, Drain, witness, queue
    <2>2. (skip' <=> skip) /\ UNCHANGED <<exact, mirror>>
      BY <2>1 DEF skip, eligible, session, tree
    <2>3. Answerable(r)
      BY <1>5, <2>2 DEF Gate, Enter, Drain, Goto, Answerable, Before, Typed
    <2> QED  BY <1>0, <1>a, <2>1, <2>2, <2>3 DEF history, passed
  <1>6. ASSUME NEW q \in Queries, Load(q)
        PROVE  Good(since[r][f], f)'
    <2>1. ~skip'
      BY <1>6 DEF Load, MarkDirty, skip
    <2>2. pc[r] # "idle"
      BY <1>6, <2>1 DEF Load, Goto, Answerable, Typed
    <2>3. mirror'[f] = Live(f) /\ since' = since /\ Now(f) \subseteq since[r][f]
      BY <1>6, <2>2 DEF Load, Windows
    <2> QED  BY <2>3, NowAllows DEF Good
  <1>7. ASSUME NEW q \in Queries, Decline(q)
        PROVE  (Good(since[r][f], f) \/ Excused(f))'
    <2>1. UNCHANGED <<tree, queue, witness, session, overtaken, returned>>
          /\ dropped \subseteq dropped'
      BY <1>7 DEF Decline
    <2>2. (skip' <=> skip) /\ UNCHANGED <<exact, mirror>>
      BY <2>1 DEF skip, eligible, queue, witness, session, tree
    <2>3. Answerable(r) /\ since'[r] = since[r]
      BY <1>7, <2>2 DEF Decline, Goto, Answerable, Before, Typed
    <2> QED  BY <1>0, <1>a, <2>1, <2>2, <2>3
  <1>8. ASSUME NEW q \in Queries, Commit(q)
        PROVE  (Good(since[r][f], f) \/ Excused(f))'
    <2>1. /\ UNCHANGED <<tree, queue, poison, raced, mirror, since, dropped, returned>>
          /\ overtaken \subseteq overtaken'
          /\ clean' = (clean \/ (eligible /\ ~raced))
          /\ pc[q] = "commit"
          /\ pc' = [pc EXCEPT ![q] = "downgrade"]
      BY <1>8 DEF Commit, Goto
    <2>2. At("commit")
      BY <2>1 DEF At
    <2>3. ~exact => overtaken = {} /\ returned = {} /\ dropped = {}
      BY <2>2 DEF NoneExcused
    <2>4. CASE r # q /\ pc[r] = "downgrade"
      BY <1>0, <1>a, <2>1, <2>4 DEF Answerable, tree
    <2>5. CASE r = q \/ pc[r] # "downgrade"
      <3>1. Stage(since[r][f], returned, f)
        <4>1. CASE r = q
          BY <2>1, <4>1 DEF QueryStage, Through
        <4>2. CASE r # q
          <5>1. pc'[r] = pc[r] /\ pc[r] \notin Writing \cup {"answer"}
            BY <2>1, <4>2 DEF Locks, Exclusive, Writing, Typed
          <5>2. Waiting(r) /\ skip'
            BY <2>5, <4>2, <5>1 DEF Answerable, Before, Waiting, Writing
          <5>3. eligible /\ ~raced
            <6>1. ~skip
              BY <2>2 DEF PassScoped, Entered, Passing
            <6>2. eligible
              BY <2>1, <5>2 DEF skip, eligible, queue
            <6> QED  BY <2>1, <5>2, <6>1, <6>2 DEF skip
          <5> QED  BY <5>2, <5>3 DEF QueryStage
        <4> QED  BY <4>1, <4>2
      <3>2. Base(since[r][f], returned, f)
        BY <2>2, <3>1 DEF Stage
      <3>3. Good(since[r][f], f) \/ Excused(f)
        BY <2>3, <3>2 DEF Base, Excused
      <3> QED  BY <1>a, <2>1, <3>3 DEF tree
    <2> QED  BY <2>4, <2>5
  <1>9. ASSUME NEW q \in Queries, Scoped(q) \/ Full(q)
        PROVE  (Good(since[r][f], f) \/ Excused(f))'
    <2>1. /\ UNCHANGED <<tree, queue, witness, since>>
          /\ pc[q] \in {"scoped", "walk", "visit"}
          /\ pc'[q] \in {"scoped", "walk", "visit", "commit"}
          /\ r # q => pc'[r] = pc[r] /\ pc[r] # "answer"
      BY <1>9, PassFrame
    <2>2. ~skip'
      <3>1. ~skip
        BY <2>1 DEF PassScoped, Entered, Passing, At
      <3> QED  BY <2>1, <3>1 DEF skip, eligible, queue, witness
    <2>3. pc[r] = "downgrade"
      BY <2>1, <2>2 DEF Answerable
    <2>4. PICK S, X, Y: S = since[r][f] /\ X = returned /\ Y = returned'
      OBVIOUS
    <2>5. Now(f) \subseteq S
      BY <2>3, <2>4 DEF Windows
    <2>6. At("visit") => Visiting(S, f)
      BY <2>3, <2>4 DEF QueryStage, Through, Stage
    <2>7. (Good(S, f) => Good(S, f)') /\ (Base(S, X, f) => Base(S, Y, f)')
      BY <1>9, <2>4, <2>5, <2>6, PassReads DEF Excuses
    <2>8. CASE Good(S, f)
      BY <2>1, <2>4, <2>7, <2>8, StageSeen
    <2>9. CASE Excused(f)
      <3>1. Base(S, X, f)
        BY <2>4, <2>9 DEF Base, Excused
      <3>2. Base(since[r][f], returned, f)'
        BY <2>1, <2>4, <2>7, <3>1, StageSeen
      <3>3. exact'
        BY <2>1, <2>9 DEF Excused, tree
      <3> QED  BY <3>2, <3>3 DEF Base, Excused
    <2>10. Good(S, f) \/ Excused(f)
      BY <1>0, <2>3, <2>4 DEF Answerable
    <2> QED  BY <2>8, <2>9, <2>10
  <1> QED  BY <1>1, <1>2, <1>3, <1>4, <1>5, <1>6, <1>7, <1>8, <1>9 DEF Next, QueryNext, Aside

(***************************************************************************)
(* The inductive invariant, and what it shows.                              *)
(***************************************************************************)

IInv == /\ Typed /\ Locks /\ ClocksPast /\ CursorSound /\ NoneExcused /\ Listed
        /\ PassScoped /\ LogMarked /\ Windows
        /\ PresentStage /\ PresentBase /\ QueryStage /\ QueryBase /\ Served

LEMMA Idle == Init => ~At("load") /\ ~Entered /\ NoStage
  BY DEF Init, At, Entered, Passing, NoStage

LEMMA Initially == Init => IInv
  <1> SUFFICES ASSUME Init PROVE IInv
    OBVIOUS
  <1>1. Typed
    BY InitTyped
  <1>2. \A q \in Queries: pc[q] = "idle"
    BY DEF Init
  <1>3. Locks
    BY <1>2, ConstantsAssumption DEF Init, Locks, Exclusive, ReaderKnown, Writing
  <1>4. ClocksPast /\ CursorSound /\ NoneExcused /\ Listed
    <2>1. ~At("load") /\ ~Entered /\ NoStage
      BY Idle
    <2>2. ClocksPast
      BY <2>1 DEF Init, ClocksPast, Entered
    <2>3. CursorSound
      BY <2>1 DEF Init, CursorSound, Held, NoStage
    <2>4. NoneExcused /\ Listed
      BY <2>1 DEF Init, NoneExcused, Listed, NoStage
    <2> QED  BY <2>2, <2>3, <2>4
  <1>5. PassScoped /\ LogMarked /\ Windows
    BY <1>2, Idle DEF Init, PassScoped, Entered, NoStage, LogMarked, LogEmpty, EmptyLog, Windows
  <1>6. PresentStage /\ PresentBase
    BY DEF Init, PresentStage, PresentBase, eligible
  <1>7. QueryStage /\ QueryBase /\ Served
    BY <1>2 DEF Init, QueryStage, QueryBase, Served, Through, Waiting, Before, Answerable, eligible
  <1> QED  BY <1>1, <1>3, <1>4, <1>5, <1>6, <1>7 DEF IInv

LEMMA IInvKept == IInv /\ [Next]_vars => IInv'
  BY TypedKept, LocksKept, ClocksKept, CursorKept, NoneExcusedKept, ListedKept, PassScopedKept,
     LogMarkedKept, WindowsKept, PresentStageKept, PresentBaseKept, QueryStageKept, QueryBaseKept,
     ServedKept DEF IInv

LEMMA Invariant == Spec => []IInv
  BY Initially, IInvKept, PTL DEF Spec

(* Every value the barrier works on has its type: the log keeps its cap, and  *)
(* the cursor is never 0 (DirtyLog.note, dirty.zig; resident.zig).            *)
THEOREM TypeCorrect == Spec => []TypeOK
  <1>1. IInv => TypeOK
    BY TypedMeansTypeOK DEF IInv, ClocksPast
  <1> QED  BY <1>1, Invariant, PTL

(* A query past the barrier says nothing of a file that was not so at some    *)
(* instant since it arrived.  Off the clean path a file that is gone is not   *)
(* reported at all, and its absence is an instant too.                        *)
LEMMA GoodIsFresh ==
    ASSUME Typed, Windows, NEW q \in Queries, NEW f \in Files, pc[q] = "answer",
           Good(since[q][f], f)
    PROVE  Fresh(q, f)
  <1>1. Now(f) \subseteq since[q][f]
    BY DEF Windows
  <1>2. CASE ~clean /\ disk[f] = 0
    BY <1>1, <1>2, NowAllows DEF Fresh, Reported
  <1>3. CASE ~(~clean /\ disk[f] = 0)
    BY <1>3 DEF Fresh, Reported, Good
  <1> QED  BY <1>2, <1>3

(* Where paths are not exact every warm answer is fresh, file by file         *)
(* (Ward.readReconciled, reconcile.zig; resident.zig).                        *)
THEOREM AnswersFresh == Spec => []FreshAnswer
  <1>1. IInv => FreshAnswer
    BY GoodIsFresh DEF IInv, FreshAnswer, Served, Answerable, Excused
  <1> QED  BY <1>1, Invariant, PTL

(* Where they are, an answer is stale only of a file the cursor overtook, a   *)
(* failing pass dropped, or a scoped pass took for gone.                      *)
THEOREM StalenessAccounted == Spec => []StaleOnlyIfPassedOver
  <1>1. IInv => StaleOnlyIfPassedOver
    BY GoodIsFresh DEF IInv, StaleOnlyIfPassedOver, Served, Answerable, Excused
  <1> QED  BY <1>1, Invariant, PTL

(* A clean session with nothing left to report mirrors the tree, save for     *)
(* what was overtaken or dropped.                                             *)
THEOREM CleanCurrent == Spec => []CleanMeansCurrent
  <1>1. ASSUME IInv, skip, reader = Nobody, kernel = {}, ~overflow, NEW f \in Files
        PROVE  mirror[f] = Live(f) \/ f \in overtaken \cup dropped
    <2>1. ~noted
      BY <1>1 DEF IInv, Locks, ReaderKnown
    <2>2. Good(Now(f), f) \/ f \in overtaken \cup dropped
      BY <1>1, <2>1, CleanServes DEF IInv
    <2>3. Good(Now(f), f) => mirror[f] = Live(f)
      BY <1>1 DEF IInv, Typed, Good, Now, Instant, Live, InWalk, Absent, Shown
    <2> QED  BY <2>2, <2>3
  <1>2. IInv => CleanMeansCurrent
    BY <1>1 DEF CleanMeansCurrent
  <1> QED  BY <1>2, Invariant, PTL

=============================================================================
