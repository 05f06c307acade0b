---------------------------- MODULE SwarmProofs ----------------------------
(* The parallel walk is complete, nobody leaves it early, one write at most   *)
(* is refused and every thread is joined: for any tree, any set of matches,   *)
(* any number of workers, with or without failures.                           *)
EXTENDS Swarm, FiniteSetTheorems, TLAPS

(***************************************************************************)
(* The inductive invariant.                                                *)
(***************************************************************************)

(* The types, less the bounds that come from counting. *)
Typed ==
    /\ items \subseteq Dirs /\ live \in Int /\ starving \in Int /\ waiting \in Int
    /\ aborted \in BOOLEAN /\ walk_error \in BOOLEAN /\ closed \in BOOLEAN
    /\ pipe \in BOOLEAN /\ ready \in BOOLEAN /\ old \in BOOLEAN
    /\ mu \in Workers \cup {Nobody} /\ smu \in Workers \cup {Nobody}
    /\ pc \in [Workers -> Labels]
    /\ local \in [Workers -> SUBSET Dirs] /\ task \in [Workers -> Dirs \cup {NoTask}]
    /\ found \in [Workers -> Nat]
    /\ out \in [Workers -> SUBSET Hits] /\ pending \in [Workers -> SUBSET Hits]
    /\ back \in [Workers -> {"note", "loop", "gone"}]
    /\ muster \in {"spawn", "count", "hired", "walk", "join", "returned"}
    /\ next \in 1 .. Seats /\ running \in 0 .. Seats - 1 /\ joining \in 0 .. Seats - 1
    /\ hired \in 1 .. Seats /\ want \in [Workers -> 0 .. Seats]
    /\ matched_files \in Nat /\ broken \in Nat
    /\ listed \subseteq Dirs /\ emitted \subseteq Hits /\ refused \subseteq Workers

(* A refused write is the first: it cancels the walk, and none follows that. *)
Unbroken == broken <= 1 /\ (~aborted => broken = 0)

(* Who has a seat and who has not: seats are taken in order, by the caller     *)
(* until the walk begins and by hiring afterwards, which closing ends.        *)
Mustering == muster \in {"spawn", "count", "hired"}
Seating ==
    /\ Mustering => next = running + 1 /\ ~old /\ pc[0] = "seat"
    /\ muster = "count" => next < Start
    /\ \A w \in Workers: pc[w] = "hire" => old
    /\ \A s \in Workers \ {0}:
          s > running /\ ~(muster = "count" /\ s = next) => pc[s] = "seat"
    /\ closed <=> muster \in {"join", "returned"}
    /\ closed => joining = running /\ pc[0] = "gone"
    /\ muster = "returned" => \A s \in Workers: s \in 1 .. joining => pc[s] = "gone"

Posture(w) ==
    /\ task[w] = NoTask <=> Duty(w) = "none"
    /\ Duty(w) # "owing" => found[w] = 0
    /\ out[w] # {} => Emitting(w)
    /\ pc[w] \in {"seat", "start"} => local[w] = {} /\ pending[w] = {}
    /\ pc[w] = "abort" => smu = w
    /\ pc[w] = "last" => smu # w
    /\ smu = w => pc[w] \in {"abort", "cast"}
    /\ Emitting(w) /\ back[w] = "gone" => pending[w] = {}
    /\ pc[w] = "gone" /\ ~aborted => pending[w] = {}
Postures == \A w \in Workers: Posture(w)

(* A directory is in one place: queued, stacked, in somebody's hand or listed. *)
InOnePlace ==
    /\ items \cap listed = {}
    /\ \A w \in Workers: /\ local[w] \cap (items \cup listed) = {}
                         /\ task[w] \notin items \cup listed
    /\ \A v, w \in Workers: /\ task[w] \notin local[v]
                            /\ v # w => local[v] \cap local[w] = {}
                            /\ v # w /\ task[v] = task[w] => task[v] = NoTask

Seen == Outstanding \cup listed

(* The walk sees a directory once it has opened the one above it, not before. *)
FromAbove ==
    /\ Roots \subseteq Seen
    /\ \A d \in Dirs \ Opened: Children[d] \cap Seen = {}
    /\ \A d \in Opened \ Unlisted: Children[d] \subseteq Seen

(* `live` counts every outstanding directory but those just found, which their *)
(* finder has yet to add.                                                     *)
JustFound(w) == IF Duty(w) = "owing" THEN local[w] \cap Children[task[w]] ELSE {}
Counted == Outstanding \ UNION {JustFound(w): w \in Workers}
LiveCounts ==
    /\ \A w \in Workers: Duty(w) = "owing" => found[w] = Cardinality(JustFound(w))
    /\ live = Cardinality(Counted)

Hunting == {w \in Workers: pc[w] \in {"pop", "avail", "take", "live", "park", "park_live",
                                      "park_aborted", "wait", "woken"}}
Waiting == {w \in Workers: pc[w] \in {"wait", "woken"}}
HuntCounts == starving = Cardinality(Hunting) /\ waiting = Cardinality(Waiting)

(* Leaving for good, the last writes included. *)
Leaving(w) == pc[w] \in {"tail", "gone"} \/ (Emitting(w) /\ back[w] = "gone")
NobodyEarly == ~aborted => \A w \in Workers \ refused: Leaving(w) => Outstanding = {}

(* A match of an opened directory is printed once or is still to be.           *)
Held == UNION {out[w] \cup pending[w]: w \in Workers}
OnceEach ==
    /\ emitted \cup Held \subseteq Opened
    /\ emitted \cap Held = {}
    /\ \A v, w \in Workers: v # w =>
           (out[v] \cup pending[v]) \cap (out[w] \cup pending[w]) = {}
    /\ \A w \in Workers: out[w] \cap pending[w] = {}
    /\ ~aborted => /\ Hits \cap (Opened \ Unlisted) \subseteq emitted \cup Held
                   /\ matched_files = Cardinality(emitted)

IInv == /\ Typed /\ Unbroken /\ Seating /\ Postures
        /\ InOnePlace /\ FromAbove /\ LiveCounts /\ HuntCounts /\ NobodyEarly /\ OnceEach

(***************************************************************************)
(* Types.                                                                  *)
(***************************************************************************)

LEMMA SmallerTyped ==
    ASSUME NEW a \in Int, NEW b \in Int
    PROVE  Smaller(a, b) \in Int /\ Smaller(a, b) <= a /\ Smaller(a, b) <= b
           /\ (Smaller(a, b) = a \/ Smaller(a, b) = b)
  BY DEF Smaller

LEMMA GotoTyped ==
    ASSUME Typed, NEW w \in Workers, NEW label \in Labels, Goto(w, label)
    PROVE  pc' \in [Workers -> Labels]
  BY DEF Goto, Typed

LEMMA PopTyped == ASSUME Typed, NEW w \in Workers, Pop(w) PROVE Typed'
  <1> USE DEF Typed, PopKeeps, Goto, LeavePop, Labels, crew, sink, world, history
  <1>1. CASE PopAborted(w) \/ PopAvail(w)
    BY <1>1 DEF PopAborted, PopAvail
  <1>2. CASE PopTake(w)
    BY <1>2 DEF PopTake
  <1>3. CASE PopLive(w)
    BY <1>3 DEF PopLive
  <1>4. CASE Park(w) \/ ParkLive(w) \/ ParkWait(w)
    BY <1>4 DEF Park, ParkLive, ParkWait
  <1> QED  BY <1>1, <1>2, <1>3, <1>4 DEF Pop

(* A worker with a duty has the directory in its hand. *)
LEMMA InHand ==
    ASSUME Typed, Postures, NEW w \in Workers, Duty(w) # "none"
    PROVE  task[w] \in Dirs
  BY DEF Typed, Postures, Posture

LEMMA ChildrenTyped ==
    ASSUME NEW d \in Dirs, NEW S \in SUBSET Children[d]
    PROVE  /\ S \subseteq Dirs /\ IsFiniteSet(S) /\ Cardinality(S) \in Nat
  BY SwarmAssumption, FS_Subset, FS_CardinalityType

LEMMA WorkTyped == ASSUME Typed, Postures, NEW w \in Workers, Work(w) PROVE Typed'
  <1> USE DEF Typed, Goto, Labels, queue, worker, crew, sink, world, history
  <1>1. CASE Unopened(w)
    BY <1>1 DEF Unopened
  <1>2. CASE List(w)
    <2>1. PICK kids \in SUBSET Children[task[w]], hit \in SUBSET ({task[w]} \cap Hits):
             Admit(w, kids, hit)
      BY <1>2 DEF List
    <2>2. task[w] \in Dirs
      BY <1>2, InHand DEF List, Duty
    <2>3. kids \subseteq Dirs /\ Cardinality(kids) \in Nat
      BY <2>2, ChildrenTyped
    <2>4. UNCHANGED <<items, live, starving, waiting, aborted, mu, task, crew, sink, world, history>>
      BY <1>2 DEF List
    <2>5. local' \in [Workers -> SUBSET Dirs] /\ found' \in [Workers -> Nat]
      BY <2>1, <2>3 DEF Admit
    <2>6. out' \in [Workers -> SUBSET Hits] /\ pending' \in [Workers -> SUBSET Hits]
      BY <2>1 DEF Admit
    <2>7. /\ walk_error' \in BOOLEAN /\ back' \in [Workers -> {"note", "loop", "gone"}]
          /\ pc' \in [Workers -> Labels]
      BY <1>2 DEF List
    <2> QED  BY <2>4, <2>5, <2>6, <2>7
  <1>3. CASE Emit(w)
    <2>1. PICK d \in out[w]:
             /\ out' = [out EXCEPT ![w] = @ \ {d}]
             /\ emitted' \in {emitted, emitted \cup {d}}
      BY <1>3 DEF Emit
    <2>2. out' \in [Workers -> SUBSET Hits] /\ emitted' \subseteq Hits
      BY <2>1
    <2>3. UNCHANGED <<items, live, starving, waiting, walk_error, mu, local, task, found, back,
                      pending, crew, world, listed, refused>>
      BY <1>3 DEF Emit
    <2>4. \/ UNCHANGED <<pc, aborted, smu, broken>>
          \/ aborted' = TRUE /\ broken' = broken + 1 /\ smu' = w /\ Goto(w, "abort")
      BY <1>3 DEF Emit, sink
    <2>5. matched_files' \in {matched_files, matched_files + 1}
      BY <1>3 DEF Emit, sink
    <2>6. /\ broken' \in Nat /\ aborted' \in BOOLEAN /\ smu' \in Workers \cup {Nobody}
          /\ pc' \in [Workers -> Labels]
      <3>1. CASE UNCHANGED <<pc, aborted, smu, broken>>
        BY <3>1
      <3>2. CASE aborted' = TRUE /\ broken' = broken + 1 /\ smu' = w /\ Goto(w, "abort")
        <4>1. broken' \in Nat /\ aborted' \in BOOLEAN
          BY <3>2
        <4>2. smu' \in Workers \cup {Nobody} /\ pc' \in [Workers -> Labels]
          BY <3>2
        <4> QED  BY <4>1, <4>2
      <3> QED  BY <2>4, <3>1, <3>2
    <2> QED  BY <2>2, <2>3, <2>5, <2>6
  <1>4. CASE Emitted(w) \/ Note(w)
    BY <1>4 DEF Emitted, Note
  <1>5. CASE Done(w)
    <2>1. task[w] \in Dirs
      BY <1>5, InHand DEF Done, Duty
    <2> QED  BY <1>5, <2>1 DEF Done
  <1>6. CASE WakeParked(w)
    BY <1>6 DEF WakeParked, AfterWake
  <1>7. CASE Broadcast(w)
    BY <1>7 DEF Broadcast, AfterWake, Wake
  <1> QED  BY <1>1, <1>2, <1>3, <1>4, <1>5, <1>6, <1>7 DEF Work

LEMMA BetweenTyped == ASSUME Typed, NEW w \in Workers, Between(w) PROVE Typed'
  <1> USE DEF Typed, Goto, Labels, queue, worker, crew, sink, world, history
  <1>1. CASE Consider(w)
    <2>1. CASE hired < Seats /\ live >= hired * 2 /\ old
      <3>1. live \div 2 \in Nat /\ Seats \in Nat
        BY <2>1, SwarmAssumption
      <3>2. Smaller(Seats, live \div 2) \in 0 .. Seats
        BY <3>1 DEF Smaller
      <3> QED  BY <1>1, <2>1, <3>2 DEF Consider
    <2> QED  BY <1>1, <2>1 DEF Consider
  <1>2. CASE Hire(w)
    <2>1. PICK last \in {running} \cup (running + 1 .. Smaller(want[w], Seats) - 1):
             /\ running' = last
             /\ hired' = IF last > running THEN last + 1 ELSE hired
             /\ pc' = [s \in Workers |->
                          IF s = w THEN "donate" ELSE Started(running + 1 .. last, s)]
      BY <1>2 DEF Hire
    <2>2. Seats \in Nat /\ Smaller(want[w], Seats) <= Seats /\ Smaller(want[w], Seats) \in Int
      BY SwarmAssumption DEF Smaller
    <2>3. running' \in 0 .. Seats - 1 /\ hired' \in 1 .. Seats
      BY <2>1, <2>2
    <2>4. pc' \in [Workers -> Labels]
      BY <2>1 DEF Started
    <2> QED  BY <1>2, <2>3, <2>4 DEF Hire
  <1>3. CASE Donate(w)
    <2>1. PICK G \in SUBSET local[w]:
             /\ items' = items \cup G
             /\ local' = [local EXCEPT ![w] = @ \ G]
      BY <1>3 DEF Donate
    <2>2. items' \subseteq Dirs /\ local' \in [Workers -> SUBSET Dirs]
      BY <2>1
    <2>3. pc' \in [Workers -> Labels]
      BY <1>3 DEF Donate
    <2>4. UNCHANGED <<live, starving, waiting, aborted, walk_error, mu, task, found, out, back,
                      pending, crew, sink, world, history>>
      BY <1>3 DEF Donate
    <2> QED  BY <2>2, <2>3, <2>4
  <1>4. CASE KeepAll(w)
    BY <1>4 DEF KeepAll
  <1>5. CASE Signal(w)
    BY <1>5 DEF Signal, Sleepers, Wake
  <1>6. CASE Flush(w) \/ Tail(w)
    BY <1>6 DEF Flush, Tail, Release
  <1> QED  BY <1>1, <1>2, <1>3, <1>4, <1>5, <1>6 DEF Between

LEMMA CallerTyped == ASSUME Typed, Seating, Caller PROVE Typed'
  <1> USE SwarmAssumption DEF Typed, Seating, Mustering, Muster, Goto, Labels, queue, worker, sink,
                              world, history
  <1>1. CASE MusterSpawn
    BY <1>1 DEF MusterSpawn, Started
  <1>2. CASE MusterCount
    BY <1>2 DEF MusterCount
  <1>3. CASE MusterWalk
    BY <1>3 DEF MusterWalk, Workers
  <1>4. CASE MusterClose \/ MusterJoin
    <2>1. UNCHANGED <<queue, pc, worker, next, running, hired, want, sink, world, history>>
      BY <1>4 DEF MusterClose, MusterJoin
    <2>2. closed' \in BOOLEAN /\ joining' \in {joining, running}
      BY <1>4 DEF MusterClose, MusterJoin
    <2>3. muster' \in {"join", "returned"}
      BY <1>4 DEF MusterClose, MusterJoin
    <2> QED  BY <2>1, <2>2, <2>3
  <1> QED  BY <1>1, <1>2, <1>3, <1>4 DEF Caller

LEMMA TypedKept == ASSUME Typed, Seating, Postures, [Next]_vars PROVE Typed'
  <1>1. CASE UNCHANGED vars \/ Returned
    BY <1>1 DEF Returned, vars, Typed, queue, worker, crew, sink, world, history
  <1>2. CASE World
    <2>1. UNCHANGED <<queue, pc, worker, crew, sink, history>>
      BY <1>2 DEF World
    <2>2. pipe' \in BOOLEAN /\ ready' \in BOOLEAN /\ old' \in BOOLEAN
      BY <1>2 DEF World, ClosePipe, OracleReady, PatienceSpent, Typed
    <2> QED  BY <2>1, <2>2 DEF Typed, queue, worker, crew, sink, history
  <1>3. ASSUME NEW w \in Workers, Begin(w) \/ Loop(w)  PROVE Typed'
    <2>1. CASE Begin(w)
      BY <2>1 DEF Begin, Goto, Labels, Typed, queue, worker, crew, sink, world
    <2>2. CASE Loop(w)
      <3>1. task' \in [Workers -> Dirs \cup {NoTask}] /\ local' \in [Workers -> SUBSET Dirs]
        BY <2>2 DEF Loop, Typed
      <3>2. starving' \in Int /\ pc' \in [Workers -> Labels]
        BY <2>2 DEF Loop, Typed, Goto, Labels
      <3> QED  BY <2>2, <3>1, <3>2 DEF Loop, Typed, crew, sink, world, history
    <2> QED  BY <1>3, <2>1, <2>2
  <1> QED  BY <1>1, <1>2, <1>3, PopTyped, WorkTyped, BetweenTyped, CallerTyped DEF Next, Worker

LEMMA UnbrokenKept == ASSUME Typed, Unbroken, [Next]_vars PROVE Unbroken'
  <1> USE DEF Typed, Unbroken
  <1>1. ASSUME NEW w \in Workers, Emit(w)  PROVE Unbroken'
    <2>1. \/ UNCHANGED <<aborted, broken>>
          \/ ~aborted /\ aborted' = TRUE /\ broken' = broken + 1
      BY <1>1 DEF Emit
    <2> QED  BY <2>1
  <1>2. CASE UNCHANGED <<aborted, broken>>
    BY <1>2
  <1> QED  BY <1>1, <1>2
           DEF Next, Caller, MusterSpawn, MusterCount, MusterWalk, MusterClose, MusterJoin, World,
               Returned, Worker, Begin, Loop, Pop, PopAborted, PopAvail, PopTake, PopLive, Park,
               ParkLive, ParkWait, PopKeeps, Work, Unopened, List, Emitted, Note, Done, WakeParked,
               Broadcast, Between, Consider, Hire, Donate, KeepAll, Signal, Flush, Tail,
               vars, queue, history

(***************************************************************************)
(* A step moves one worker.  The others stay, wake, or take a seat.        *)
(***************************************************************************)

Same(v) ==
    /\ local'[v] = local[v] /\ task'[v] = task[v] /\ found'[v] = found[v]
    /\ out'[v] = out[v] /\ back'[v] = back[v] /\ pending'[v] = pending[v]
    /\ smu' = v <=> smu = v
    /\ \/ pc'[v] = pc[v]
       \/ pc[v] = "wait" /\ pc'[v] = "woken"
       \/ pc[v] = "seat" /\ pc'[v] = "start"

LEMMA HiredSeats ==
    ASSUME Typed, Seating, NEW w \in Workers, Hire(w)
    PROVE  \E last \in running .. Seats - 1:
              /\ closed => last = running
              /\ running' = last
              /\ pc' = [s \in Workers |->
                           IF s = w THEN "donate" ELSE Started(running + 1 .. last, s)]
              /\ \A s \in running + 1 .. last: s \in Workers /\ pc[s] = "seat"
              /\ muster \in {"walk", "join", "returned"}
  <1> USE SwarmAssumption DEF Typed, Seating, Mustering
  <1>1. PICK last \in {running} \cup (running + 1 .. Smaller(want[w], Seats) - 1):
           /\ closed => last = running
           /\ running' = last
           /\ pc' = [s \in Workers |->
                        IF s = w THEN "donate" ELSE Started(running + 1 .. last, s)]
    BY DEF Hire
  <1>2. last \in running .. Seats - 1
    <2>1. Seats \in Nat /\ want[w] \in Int /\ running \in 0 .. Seats - 1
      OBVIOUS
    <2> QED  BY <1>1, <2>1 DEF Smaller
  <1>3. muster \in {"walk", "join", "returned"}
    BY DEF Hire
  <1>4. \A s \in running + 1 .. last: s \in Workers \ {0}
    BY <1>2 DEF Workers
  <1>5. \A s \in running + 1 .. last: s \in Workers /\ pc[s] = "seat"
    BY <1>2, <1>3, <1>4
  <1> QED  BY <1>1, <1>2, <1>3, <1>5

LEMMA Bystanders ==
    ASSUME Typed, Seating, NEW w \in Workers, Worker(w), NEW v \in Workers, v # w
    PROVE  Same(v) /\ (pc[v] = "seat" /\ pc'[v] = "start" => Hire(w))
  <1> USE DEF Typed, Same, Goto, worker, crew, sink, world, history, queue
  <1>0. v # Nobody
    BY SwarmAssumption DEF Workers, Nobody
  <1>1. CASE Begin(w) \/ Loop(w)
    BY <1>1 DEF Begin, Loop
  <1>2. CASE Pop(w)
    BY <1>2 DEF Pop, PopAborted, PopAvail, PopTake, PopLive, Park, ParkLive, ParkWait, PopKeeps,
                LeavePop
  <1>3. CASE Unopened(w) \/ Emitted(w) \/ Note(w) \/ Done(w)
    BY <1>3 DEF Unopened, Emitted, Note, Done
  <1>4. CASE List(w)
    BY <1>4 DEF List, Admit
  <1>5. CASE Emit(w)
    <2>1. UNCHANGED <<local, task, found, back, pending>> /\ out'[v] = out[v]
      BY <1>5 DEF Emit
    <2>2. UNCHANGED <<pc, smu>> \/ (smu = Nobody /\ smu' = w /\ Goto(w, "abort"))
      BY <1>5 DEF Emit
    <2> QED  BY <1>0, <2>1, <2>2
  <1>6. CASE WakeParked(w) \/ Broadcast(w)
    <2>1. UNCHANGED worker /\ smu' \in {smu, IF smu = w THEN Nobody ELSE smu}
      BY <1>6 DEF WakeParked, Broadcast
    <2>2. pc'[v] = pc[v] \/ (pc[v] = "wait" /\ pc'[v] = "woken")
      BY <1>6 DEF WakeParked, Broadcast, Wake, Sleepers
    <2> QED  BY <1>0, <2>1, <2>2
  <1>7. CASE Consider(w) \/ KeepAll(w) \/ Flush(w) \/ Tail(w)
    BY <1>7 DEF Consider, KeepAll, Flush, Tail, Release
  <1>8. CASE Hire(w)
    <2>1. UNCHANGED <<worker, sink>>
      BY <1>8 DEF Hire
    <2>2. pc'[v] = pc[v] \/ (pc[v] = "seat" /\ pc'[v] = "start")
      BY <1>8, HiredSeats DEF Started
    <2> QED  BY <1>8, <2>1, <2>2
  <1>9. CASE Donate(w)
    BY <1>9 DEF Donate
  <1>10. CASE Signal(w)
    BY <1>10 DEF Signal, Wake, Sleepers
  <1> QED  BY <1>1, <1>2, <1>3, <1>4, <1>5, <1>6, <1>7, <1>8, <1>9, <1>10
           DEF Worker, Work, Between

(* Nor does the caller, or the world, move any but those it seats. *)
Elsewhere == Caller \/ World \/ Returned \/ UNCHANGED vars

LEMMA Seated ==
    ASSUME Typed, Seating, Elsewhere, NEW v \in Workers
    PROVE  Same(v)
  <1> USE SwarmAssumption DEF Typed, Same, Goto, worker, sink, Muster, Seating, Mustering
  <1>1. CASE MusterSpawn
    BY <1>1 DEF MusterSpawn, Started
  <1>2. CASE MusterWalk
    BY <1>2 DEF MusterWalk
  <1>3. CASE MusterCount \/ MusterClose \/ MusterJoin \/ World \/ Returned \/ UNCHANGED vars
    BY <1>3 DEF MusterCount, MusterClose, MusterJoin, World, Returned, vars
  <1> QED  BY <1>1, <1>2, <1>3 DEF Elsewhere, Caller


LEMMA SameDuty ==
    ASSUME Typed, NEW v \in Workers, Same(v)
    PROVE  /\ Duty(v)' = Duty(v) /\ (Emitting(v)' <=> Emitting(v))
           /\ JustFound(v)' = JustFound(v) /\ (Leaving(v)' <=> Leaving(v))
  <1>1. Emitting(v)' <=> Emitting(v)
    BY DEF Same, Emitting
  <1>2. Duty(v)' = Duty(v)
    BY <1>1 DEF Same, Duty
  <1>3. Leaving(v)' <=> Leaving(v)
    BY <1>1 DEF Same, Leaving
  <1>4. JustFound(v)' = JustFound(v)
    BY <1>2 DEF Same, JustFound
  <1> QED  BY <1>1, <1>2, <1>3, <1>4

LEMMA SamePosture ==
    ASSUME Typed, NEW v \in Workers, Same(v), Posture(v), aborted => aborted'
    PROVE  Posture(v)'
  BY SameDuty DEF Same, Posture

(* A cancelled walk stays cancelled. *)
LEMMA AbortedStays == ASSUME Typed, [Next]_vars PROVE aborted => aborted'
  <1>1. ASSUME NEW w \in Workers, Emit(w)  PROVE aborted => aborted'
    BY <1>1 DEF Emit
  <1> QED  BY <1>1
           DEF Next, Caller, MusterSpawn, MusterCount, MusterWalk, MusterClose, MusterJoin, World,
               Returned, Worker, Begin, Loop, Pop, PopAborted, PopAvail, PopTake, PopLive, Park,
               ParkLive, ParkWait, PopKeeps, Work, Unopened, List, Emitted, Note, Done, WakeParked,
               Broadcast, Between, Consider, Hire, Donate, KeepAll, Signal, Flush, Tail,
               vars, queue

(***************************************************************************)
(* Seats.                                                                  *)
(***************************************************************************)

(* Nobody without a seat acts, nor anybody gone; only the patient hire.        *)
LEMMA WhoActs ==
    ASSUME Typed, NEW w \in Workers, Worker(w)
    PROVE  /\ pc[w] \notin {"seat", "gone"}
           /\ pc'[w] = "hire" => old
           /\ UNCHANGED <<muster, next, joining, closed, old>>
           /\ running' = running \/ Hire(w)
  <1> USE DEF Typed, Goto, crew, world
  <1>1. CASE Begin(w) \/ Loop(w)
    BY <1>1 DEF Begin, Loop
  <1>2. CASE Pop(w)
    BY <1>2 DEF Pop, PopAborted, PopAvail, PopTake, PopLive, Park, ParkLive, ParkWait, PopKeeps,
                LeavePop
  <1>3. CASE Unopened(w) \/ Emitted(w) \/ Note(w) \/ Done(w)
    BY <1>3 DEF Unopened, Emitted, Note, Done
  <1>4. CASE List(w)
    BY <1>4 DEF List
  <1>5. CASE Emit(w)
    BY <1>5 DEF Emit
  <1>6. CASE WakeParked(w) \/ Broadcast(w)
    BY <1>6 DEF WakeParked, Broadcast, Wake, AfterWake
  <1>7. CASE Consider(w) \/ KeepAll(w) \/ Flush(w) \/ Tail(w)
    BY <1>7 DEF Consider, KeepAll, Flush, Tail, Release
  <1>8. CASE Hire(w)
    BY <1>8, HiredSeats DEF Hire
  <1>9. CASE Donate(w)
    BY <1>9 DEF Donate
  <1>10. CASE Signal(w)
    BY <1>10 DEF Signal, Wake, Sleepers
  <1> QED  BY <1>1, <1>2, <1>3, <1>4, <1>5, <1>6, <1>7, <1>8, <1>9, <1>10
           DEF Worker, Work, Between

LEMMA SeatingKept == ASSUME Typed, Seating, [Next]_vars PROVE Seating'
  <1> USE SwarmAssumption DEF Typed
  <1>1. ASSUME NEW w \in Workers, Worker(w), ~Hire(w)  PROVE Seating'
    <2>1. \A v \in Workers: v # w => pc'[v] = pc[v] \/ (pc[v] = "wait" /\ pc'[v] = "woken")
      BY <1>1, Bystanders DEF Same
    <2>2. /\ pc[w] \notin {"seat", "gone"} /\ (pc'[w] = "hire" => old)
          /\ UNCHANGED <<muster, next, running, joining, closed, old>>
      BY <1>1, WhoActs
    <2>3. \A s \in Workers: /\ pc[s] = "seat" => pc'[s] = "seat"
                            /\ pc[s] = "gone" => pc'[s] = "gone"
                            /\ pc'[s] = "hire" => pc[s] = "hire" \/ old
      BY <2>1, <2>2
    <2>4. 0 \in Workers /\ 1 .. joining \subseteq Workers
      BY DEF Workers
    <2> QED  BY <2>2, <2>3, <2>4 DEF Seating, Mustering
  <1>2. ASSUME NEW w \in Workers, Hire(w)  PROVE Seating'
    <2>1. PICK last \in running .. Seats - 1:
             /\ closed => last = running
             /\ running' = last
             /\ pc' = [s \in Workers |->
                          IF s = w THEN "donate" ELSE Started(running + 1 .. last, s)]
             /\ \A s \in running + 1 .. last: s \in Workers /\ pc[s] = "seat"
             /\ muster \in {"walk", "join", "returned"}
      BY <1>2, HiredSeats
    <2>2. /\ pc[w] = "hire"
          /\ UNCHANGED <<muster, next, joining, closed, old>>
      BY <1>2 DEF Hire, world
    <2>3. \A s \in Workers: pc[s] = "gone" => pc'[s] = "gone"
      BY <2>1, <2>2 DEF Started
    <2>4. \A s \in Workers: s > last => s # w /\ pc'[s] = "seat"
      <3>1. SUFFICES ASSUME NEW s \in Workers, s > last  PROVE s # w /\ pc'[s] = "seat"
        OBVIOUS
      <3>2. pc[s] = "seat" /\ s \notin running + 1 .. last
        BY <2>1, <3>1 DEF Seating, Workers
      <3> QED  BY <2>1, <2>2, <3>2 DEF Started
    <2>5. \A v \in Workers: pc'[v] = "hire" => old
      BY <2>1 DEF Started, Seating
    <2> QED  BY <2>1, <2>2, <2>3, <2>4, <2>5 DEF Seating, Mustering, Workers
  <1>3. CASE Caller
    <2> USE DEF Seating, Mustering, Muster, Workers, Goto, world
    <2>1. CASE MusterSpawn
      BY <2>1 DEF MusterSpawn, Started
    <2>2. CASE MusterCount
      BY <2>2 DEF MusterCount
    <2>3. CASE MusterWalk
      BY <2>3 DEF MusterWalk
    <2>4. CASE MusterClose
      BY <2>4 DEF MusterClose
    <2>5. CASE MusterJoin
      BY <2>5 DEF MusterJoin, Smaller
    <2> QED  BY <1>3, <2>1, <2>2, <2>3, <2>4, <2>5 DEF Caller
  <1>4. CASE World
    BY <1>4 DEF World, ClosePipe, OracleReady, PatienceSpent, Seating, Mustering, crew
  <1>5. CASE Returned \/ UNCHANGED vars
    BY <1>5 DEF Returned, vars, Seating, Mustering, crew, world
  <1> QED  BY <1>1, <1>2, <1>3, <1>4, <1>5 DEF Next

(***************************************************************************)
(* Postures.                                                               *)
(***************************************************************************)

LEMMA OwnPosture ==
    ASSUME Typed, NEW w \in Workers, Posture(w), Worker(w), aborted => aborted'
    PROVE  Posture(w)'
  <1> USE DEF Typed, Posture, Duty, Emitting, Goto, worker
  <1>1. w # Nobody /\ NoTask \notin Dirs
    BY SwarmAssumption DEF Workers, Nobody, NoTask
  <1>2. CASE Begin(w)
    BY <1>2 DEF Begin, sink
  <1>3. CASE Loop(w)
    BY <1>1, <1>3 DEF Loop, sink
  <1>4. CASE Pop(w)
    BY <1>1, <1>4 DEF Pop, PopAborted, PopAvail, PopTake, PopLive, Park, ParkLive, ParkWait, PopKeeps,
                LeavePop, sink
  <1>5. CASE Unopened(w) \/ Emitted(w) \/ Note(w)
    BY <1>5 DEF Unopened, Emitted, Note, sink
  <1>6. CASE Done(w)
    BY <1>6 DEF Done, sink
  <1>7. CASE List(w)
    BY <1>7 DEF List, Admit, sink
  <1>8. CASE Emit(w)
    <2>1. UNCHANGED <<local, task, found, back, pending>> /\ out[w] # {} /\ pc[w] = "emit"
      BY <1>8 DEF Emit
    <2>2. UNCHANGED <<pc, smu>> \/ (smu' = w /\ Goto(w, "abort"))
      BY <1>8 DEF Emit, sink
    <2> QED  BY <1>1, <2>1, <2>2
  <1>9. CASE WakeParked(w)
    BY <1>1, <1>9 DEF WakeParked, AfterWake
  <1>10. CASE Broadcast(w)
    BY <1>1, <1>10 DEF Broadcast, Wake, AfterWake
  <1>11. CASE Consider(w) \/ KeepAll(w) \/ Flush(w) \/ Tail(w)
    BY <1>11 DEF Consider, KeepAll, Flush, Tail, Release, sink
  <1>12. CASE Hire(w)
    BY <1>12 DEF Hire, sink
  <1>13. CASE Donate(w)
    BY <1>13 DEF Donate, sink
  <1>14. CASE Signal(w)
    BY <1>14 DEF Signal, Wake, sink
  <1> QED  BY <1>2, <1>3, <1>4, <1>5, <1>6, <1>7, <1>8, <1>9, <1>10, <1>11, <1>12, <1>13, <1>14
           DEF Worker, Work, Between

LEMMA PosturesKept == ASSUME Typed, Seating, Postures, [Next]_vars PROVE Postures'
  <1>1. aborted => aborted'
    BY AbortedStays
  <1>2. CASE Elsewhere
    BY <1>1, <1>2, Seated, SamePosture DEF Postures
  <1>3. ASSUME NEW w \in Workers, Worker(w)  PROVE Postures'
    BY <1>1, <1>3, Bystanders, SamePosture, OwnPosture DEF Postures
  <1> QED  BY <1>2, <1>3 DEF Next, Elsewhere

(***************************************************************************)
(* The flow of directories: what a step does with them.                    *)
(***************************************************************************)

Idle(v) == /\ local'[v] = local[v] /\ task'[v] = task[v] /\ found'[v] = found[v]
           /\ Duty(v)' = Duty(v)
Alone(w) == \A v \in Workers: v # w => Idle(v)
Turns(w, from, to) == Alone(w) /\ Duty(w) = from /\ Duty(w)' = to

Still == UNCHANGED <<items, live, listed>> /\ \A v \in Workers: Idle(v)

Took(w, d) ==
    /\ Turns(w, "none", "list") /\ task'[w] = d /\ found'[w] = found[w]
    /\ \/ d \in local[w] /\ local'[w] = local[w] \ {d} /\ items' = items
       \/ d \in items /\ items' = items \ {d} /\ local'[w] = local[w]
    /\ UNCHANGED <<live, listed>>

Balked(w) ==
    /\ Turns(w, "list", "done") /\ task[w] \in Unlisted
    /\ local'[w] = local[w] /\ task'[w] = task[w] /\ found'[w] = found[w]
    /\ UNCHANGED <<items, live, listed>>

Listed(w, kids) ==
    /\ Turns(w, "list", "owing")
    /\ kids \subseteq Children[task[w]] /\ (task[w] \notin Unlisted => kids = Children[task[w]])
    /\ local'[w] = local[w] \cup kids /\ task'[w] = task[w] /\ found'[w] = Cardinality(kids)
    /\ UNCHANGED <<items, live, listed>>

Noted(w) ==
    /\ Turns(w, "owing", "done") /\ live' = live + found[w] /\ found'[w] = 0
    /\ local'[w] = local[w] /\ task'[w] = task[w]
    /\ UNCHANGED <<items, listed>>

Finished(w) ==
    /\ Turns(w, "done", "none") /\ live' = live - 1 /\ listed' = listed \cup {task[w]}
    /\ task'[w] = NoTask /\ local'[w] = local[w] /\ found'[w] = found[w]
    /\ UNCHANGED items

Gave(w, G) ==
    /\ Turns(w, "none", "none") /\ G \subseteq local[w]
    /\ items' = items \cup G /\ local'[w] = local[w] \ G
    /\ task'[w] = task[w] /\ found'[w] = found[w]
    /\ UNCHANGED <<live, listed>>

Moves(w) == \/ \E d \in Dirs: Took(w, d)
            \/ Balked(w) \/ (\E kids \in SUBSET Dirs: Listed(w, kids)) \/ Noted(w) \/ Finished(w)
            \/ \E G \in SUBSET Dirs: Gave(w, G)

LEMMA WorkerFlow ==
    ASSUME Typed, Seating, Postures, NEW w \in Workers, Worker(w)
    PROVE  Still \/ Moves(w)
  <1> USE DEF Typed, Goto, worker, queue, history
  <1>0. Alone(w)
    BY Bystanders, SameDuty DEF Alone, Idle, Same
  <1>1. ASSUME UNCHANGED <<items, live, listed>>, Idle(w)  PROVE Still
    BY <1>0, <1>1 DEF Still, Alone
  <1> HIDE DEF Typed
  <1>2. CASE Begin(w)
    BY <1>1, <1>2 DEF Begin, Idle, Duty, Emitting, Typed
  <1>3. CASE Loop(w)
    <2>1. CASE UNCHANGED <<local, task>>
      BY <1>1, <1>3, <2>1 DEF Loop, Idle, Duty, Emitting, Typed
    <2>2. CASE ~ UNCHANGED <<local, task>>
      <3>1. PICK d \in local[w]: /\ local' = [local EXCEPT ![w] = @ \ {d}]
                                 /\ task' = [task EXCEPT ![w] = d]
                                 /\ Goto(w, "list")
        BY <1>3, <2>2 DEF Loop
      <3>2. d \in Dirs
        BY DEF Typed
      <3>3. Turns(w, "none", "list")
        BY <1>0, <1>3, <3>1 DEF Loop, Turns, Duty, Emitting, Typed
      <3>4. UNCHANGED <<items, live, listed, found>>
        BY <1>3 DEF Loop
      <3>5. Took(w, d)
        BY <3>1, <3>3, <3>4 DEF Took, Typed
      <3> QED  BY <3>2, <3>5 DEF Moves
    <2> QED  BY <2>1, <2>2
  <1>4. CASE Pop(w)
    <2>1. CASE UNCHANGED task
      <3>1. UNCHANGED items
        BY <1>4, <2>1, SwarmAssumption DEF Pop, PopAborted, PopAvail, PopTake, PopLive, Park, ParkLive, ParkWait,
                               Postures, Posture, Duty, Emitting, Typed, LeavePop, NoTask
      <3>2. UNCHANGED <<live, listed, local, found>>
        BY <1>4 DEF Pop, PopAborted, PopAvail, PopTake, PopLive, Park, ParkLive, ParkWait, PopKeeps
      <3>3. Duty(w) = "none"
        BY <1>4 DEF Pop, PopAborted, PopAvail, PopTake, PopLive, Park, ParkLive, ParkWait,
                    Duty, Emitting
      <3>4. Duty(w)' = "none"
        <4>1. Posture(w)'
          BY PosturesKept DEF Postures, Next
        <4> QED  BY <2>1, <3>3, <4>1 DEF Postures, Posture
      <3> QED  BY <1>1, <2>1, <3>1, <3>2, <3>3, <3>4 DEF Idle
    <2>2. CASE ~ UNCHANGED task
      <3>1. PopTake(w) /\ Goto(w, "list")
        BY <1>4, <2>2 DEF Pop, PopAborted, PopAvail, PopTake, PopLive, Park, ParkLive, ParkWait,
                          LeavePop
      <3>2. PICK d \in items: items' = items \ {d} /\ task' = [task EXCEPT ![w] = d]
        BY <2>2, <3>1 DEF PopTake
      <3>3. d \in Dirs
        BY DEF Typed
      <3>4. Turns(w, "none", "list")
        BY <1>0, <3>1 DEF PopTake, Turns, Duty, Emitting, Typed
      <3>5. UNCHANGED <<live, listed, local, found>>
        BY <3>1 DEF PopTake, PopKeeps
      <3>6. Took(w, d)
        BY <3>2, <3>4, <3>5 DEF Took, Typed
      <3> QED  BY <3>3, <3>6 DEF Moves
    <2> QED  BY <2>1, <2>2
  <1>5. CASE Unopened(w)
    BY <1>0, <1>5 DEF Unopened, Moves, Balked, Turns, Duty, Emitting, Typed
  <1>6. CASE List(w)
    <2>1. PICK kids \in SUBSET Children[task[w]], hit \in SUBSET ({task[w]} \cap Hits):
             /\ kids = Children[task[w]] \/ task[w] \in Unlisted
             /\ Admit(w, kids, hit)
      BY <1>6 DEF List
    <2>2. task[w] \in Dirs
      BY <1>6, InHand DEF List, Duty
    <2>3. kids \in SUBSET Dirs
      BY <2>2, ChildrenTyped
    <2>4. Turns(w, "list", "owing")
      BY <1>0, <1>6 DEF List, Turns, Duty, Emitting, Typed
    <2>5. UNCHANGED <<items, live, listed, task>>
      BY <1>6 DEF List
    <2>6. local'[w] = local[w] \cup kids /\ found'[w] = Cardinality(kids)
      BY <2>1 DEF Admit, Typed
    <2>7. Listed(w, kids)
      BY <2>1, <2>4, <2>5, <2>6 DEF Listed
    <2> QED  BY <2>3, <2>7 DEF Moves
  <1>7. CASE Emit(w)
    BY <1>1, <1>7 DEF Emit, Idle, Duty, Emitting, Typed
  <1>8. CASE Emitted(w)
    BY <1>1, <1>8 DEF Emitted, Idle, Duty, Emitting, Typed
  <1>9. CASE Note(w)
    BY <1>0, <1>9 DEF Note, Moves, Noted, Turns, Duty, Emitting, Typed
  <1>10. CASE Done(w)
    <2>1. Turns(w, "done", "none")
      BY <1>0, <1>10 DEF Done, Turns, Duty, Emitting, Typed
    <2>2. Finished(w)
      BY <1>10, <2>1 DEF Done, Finished, Typed
    <2> QED  BY <2>2 DEF Moves
  <1>11. CASE WakeParked(w)
    BY <1>1, <1>11, SwarmAssumption
       DEF WakeParked, AfterWake, Idle, Duty, Emitting, Typed, Workers, Nobody, Postures, Posture
  <1>12. CASE Broadcast(w)
    BY <1>1, <1>12, SwarmAssumption
       DEF Broadcast, AfterWake, Wake, Idle, Duty, Emitting, Typed, Workers, Nobody
  <1>13. CASE Consider(w) \/ KeepAll(w)
    BY <1>1, <1>13 DEF Consider, KeepAll, Idle, Duty, Emitting, Typed
  <1>14. CASE Flush(w) \/ Tail(w)
    BY <1>1, <1>14 DEF Flush, Tail, Release, Idle, Duty, Emitting, Typed
  <1>15. CASE Hire(w)
    BY <1>1, <1>15 DEF Hire, Idle, Duty, Emitting, Typed
  <1>16. CASE Donate(w)
    <2>1. PICK G \in SUBSET local[w]:
             items' = items \cup G /\ local' = [local EXCEPT ![w] = @ \ G]
      BY <1>16 DEF Donate
    <2>2. Turns(w, "none", "none")
      BY <1>0, <1>16 DEF Donate, Turns, Duty, Emitting, Typed
    <2>3. UNCHANGED <<live, listed, task, found>>
      BY <1>16 DEF Donate
    <2>4. Gave(w, G) /\ G \in SUBSET Dirs
      BY <2>1, <2>2, <2>3 DEF Gave, Typed
    <2> QED  BY <2>4 DEF Moves
  <1>17. CASE Signal(w)
    BY <1>1, <1>17 DEF Signal, Wake, Idle, Duty, Emitting, Typed
  <1> QED  BY <1>2, <1>3, <1>4, <1>5, <1>6, <1>7, <1>8, <1>9, <1>10, <1>11, <1>12, <1>13, <1>14,
              <1>15, <1>16, <1>17 DEF Worker, Work, Between

LEMMA Flow ==
    ASSUME Typed, Seating, Postures, [Next]_vars
    PROVE  Still \/ \E w \in Workers: Moves(w)
  <1>1. CASE Elsewhere
    <2>1. \A v \in Workers: Idle(v)
      BY <1>1, Seated, SameDuty DEF Idle, Same
    <2>2. UNCHANGED <<items, live, listed>>
      BY <1>1 DEF Elsewhere, Caller, MusterSpawn, MusterCount, MusterWalk, MusterClose, MusterJoin,
                  World, Returned, vars, queue, history
    <2> QED  BY <2>1, <2>2 DEF Still
  <1> QED  BY <1>1, WorkerFlow DEF Next, Elsewhere

(***************************************************************************)
(* Where the directories are.                                              *)
(***************************************************************************)

LEMMA Untouched ==
    ASSUME Typed
    PROVE  /\ NoTask \notin Dirs /\ NoTask \notin items \cup listed
           /\ \A w \in Workers: NoTask \notin local[w] /\ local[w] \subseteq Dirs
  BY SwarmAssumption DEF Typed, NoTask

LEMMA MovesKeepPlaces ==
    ASSUME Typed, Postures, Postures', InOnePlace, FromAbove, NEW w \in Workers, Moves(w)
    PROVE  InOnePlace'
  <1> USE DEF InOnePlace, Turns, Alone, Idle
  <1>1. ASSUME NEW d \in Dirs, Took(w, d)  PROVE InOnePlace'
    <2>1. d # NoTask /\ task[w] = NoTask
      BY <1>1, Untouched DEF Took, Postures, Posture
    <2>2. items' \cap listed' = {}
      BY <1>1 DEF Took
    <2>3. \A v \in Workers: task[v] # d
      BY <1>1 DEF Took
    <2>4. /\ d \notin items' \cup listed'
          /\ \A v \in Workers: d \notin local'[v] /\ local'[v] \subseteq local[v]
      BY <1>1 DEF Took
    <2>5. task'[w] = d /\ \A v \in Workers: v # w => task'[v] = task[v]
      BY <1>1 DEF Took
    <2>6. items' \subseteq items /\ listed' = listed
      BY <1>1 DEF Took
    <2> QED  BY <2>1, <2>2, <2>3, <2>4, <2>5, <2>6
  <1>2. CASE Balked(w) \/ Noted(w)
    BY <1>2 DEF Balked, Noted
  <1>3. ASSUME NEW kids \in SUBSET Dirs, Listed(w, kids)  PROVE InOnePlace'
    <2>1. task[w] \in Dirs
      BY <1>3, InHand DEF Listed
    <2>2. kids \cap Seen = {}
      <3>1. task[w] \notin Opened
        BY <1>3, <2>1, Untouched DEF Listed, Opened
      <3> QED  BY <1>3, <2>1, <3>1 DEF FromAbove, Listed
    <2>3. /\ kids \cap (items \cup listed) = {}
          /\ \A v \in Workers: kids \cap local[v] = {} /\ task[v] \notin kids
      <3>1. items \cup listed \subseteq Seen /\ \A v \in Workers: local[v] \subseteq Seen
        BY DEF Seen, Outstanding
      <3>2. \A v \in Workers: task[v] # NoTask => task[v] \in Seen
        BY DEF Seen, Outstanding
      <3>3. NoTask \notin kids
        BY Untouched
      <3> QED  BY <2>2, <3>1, <3>2, <3>3
    <2>4. /\ UNCHANGED <<items, listed>> /\ local'[w] = local[w] \cup kids
          /\ \A v \in Workers: task'[v] = task[v] /\ (v # w => local'[v] = local[v])
      BY <1>3 DEF Listed
    <2> QED  BY <2>3, <2>4
  <1>4. CASE Finished(w)
    <2>1. task[w] \in Dirs
      BY <1>4, InHand DEF Finished
    <2> QED  BY <1>4, <2>1, Untouched DEF Finished
  <1>5. ASSUME NEW G \in SUBSET Dirs, Gave(w, G)  PROVE InOnePlace'
    <2>1. \A v \in Workers: task[v] \notin G
      BY <1>5 DEF Gave
    <2> QED  BY <1>5, <2>1, Untouched DEF Gave
  <1> QED  BY <1>1, <1>2, <1>3, <1>4, <1>5 DEF Moves

LEMMA InOnePlaceKept ==
    ASSUME Typed, Seating, Postures, InOnePlace, FromAbove, [Next]_vars
    PROVE  InOnePlace'
  <1>1. CASE Still
    BY <1>1 DEF Still, Idle, InOnePlace
  <1> QED  BY <1>1, Flow, PosturesKept, MovesKeepPlaces

(* What a move does to the sets the invariant speaks of. *)
LEMMA StillSets ==
    ASSUME Still
    PROVE  /\ UNCHANGED <<Outstanding, Opened, listed, live>>
           /\ \A v \in Workers: JustFound(v)' = JustFound(v) /\ Duty(v)' = Duty(v)
                               /\ found'[v] = found[v]
  <1>1. \A v \in Workers: JustFound(v)' = JustFound(v)
    BY DEF Still, Idle, JustFound
  <1>2. Outstanding' = Outstanding
    BY DEF Still, Idle, Outstanding
  <1>3. Opened' = Opened
    BY DEF Still, Idle, Opened
  <1> QED  BY <1>1, <1>2, <1>3 DEF Still, Idle

LEMMA TookSets ==
    ASSUME Typed, Postures, InOnePlace, NEW w \in Workers, NEW d \in Dirs, Took(w, d)
    PROVE  /\ UNCHANGED <<Outstanding, Opened, listed, live>>
           /\ \A v \in Workers: JustFound(v)' = JustFound(v) /\ found'[v] = found[v]
                               /\ (Duty(v) = "owing" <=> Duty(v)' = "owing")
  <1> USE DEF Took, Turns, Alone, Idle
  <1>1. d # NoTask /\ task[w] = NoTask
    BY Untouched DEF Postures, Posture
  <1>2. Outstanding' = Outstanding
    <2>1. \A x: x \in Outstanding' => x \in Outstanding
      <3> SUFFICES ASSUME NEW x \in Outstanding'  PROVE x \in Outstanding
        OBVIOUS
      <3>1. \/ x \in items' \/ (\E v \in Workers: x \in local'[v])
            \/ (x # NoTask /\ \E v \in Workers: x = task'[v])
        BY DEF Outstanding
      <3>2. \/ x \in items \/ (\E v \in Workers: x \in local[v])
            \/ (x # NoTask /\ \E v \in Workers: x = task[v])
        BY <3>1
      <3> QED  BY <3>2 DEF Outstanding
    <2>2. \A x: x \in Outstanding => x \in Outstanding'
      <3> SUFFICES ASSUME NEW x \in Outstanding  PROVE x \in Outstanding'
        OBVIOUS
      <3>1. \/ x \in items \/ (\E v \in Workers: x \in local[v])
            \/ (x # NoTask /\ \E v \in Workers: x = task[v])
        BY DEF Outstanding
      <3>2. \/ x \in items' \/ (\E v \in Workers: x \in local'[v])
            \/ (x # NoTask /\ \E v \in Workers: x = task'[v])
        BY <1>1, <3>1
      <3> QED  BY <3>2 DEF Outstanding
    <2> QED  BY <2>1, <2>2
  <1>3. Opened' = Opened
    <2>1. {v \in Workers: Duty(v) \in {"owing", "done"}}' = {v \in Workers: Duty(v) \in {"owing", "done"}}
      OBVIOUS
    <2>2. \A v \in Workers: Duty(v) \in {"owing", "done"} => task'[v] = task[v]
      OBVIOUS
    <2> QED  BY <2>1, <2>2 DEF Opened
  <1>4. \A v \in Workers: JustFound(v)' = JustFound(v)
    BY DEF JustFound
  <1> QED  BY <1>2, <1>3, <1>4

(* A directory in somebody's hand that is not opened yet, or not any more. *)
LEMMA NotOpened ==
    ASSUME Typed, Postures, InOnePlace, NEW w \in Workers, Duty(w) = "list"
    PROVE  task[w] \in Dirs /\ task[w] \in Outstanding /\ task[w] \notin Opened
  <1>1. task[w] \in Dirs
    BY InHand
  <1>2. \A v \in Workers: task[v] = task[w] => v = w
    BY <1>1, Untouched DEF InOnePlace
  <1> QED  BY <1>1, <1>2, Untouched DEF InOnePlace, Opened, Outstanding

LEMMA BalkedSets ==
    ASSUME Typed, Postures, InOnePlace, NEW w \in Workers, Balked(w)
    PROVE  /\ UNCHANGED <<Outstanding, listed, live>> /\ Opened' = Opened \cup {task[w]}
           /\ task[w] \in Unlisted
           /\ \A v \in Workers: JustFound(v)' = JustFound(v) /\ found'[v] = found[v]
                               /\ (Duty(v) = "owing" <=> Duty(v)' = "owing")
  <1> USE DEF Balked, Turns, Alone, Idle
  <1>1. UNCHANGED items /\ \A v \in Workers: local'[v] = local[v] /\ task'[v] = task[v]
    OBVIOUS
  <1>2. Outstanding' = Outstanding
    BY <1>1 DEF Outstanding
  <1>3. Opened' = Opened \cup {task[w]}
    BY DEF Opened
  <1>4. \A v \in Workers: JustFound(v)' = JustFound(v)
    BY DEF JustFound
  <1> QED  BY <1>2, <1>3, <1>4

LEMMA ListedSets ==
    ASSUME Typed, Postures, InOnePlace, FromAbove, NEW w \in Workers, NEW kids \in SUBSET Dirs,
           Listed(w, kids)
    PROVE  /\ UNCHANGED <<listed, live>>
           /\ Outstanding' = Outstanding \cup kids /\ Opened' = Opened \cup {task[w]}
           /\ kids \cap Seen = {} /\ JustFound(w) = {} /\ JustFound(w)' = kids
           /\ Duty(w)' = "owing" /\ found'[w] = Cardinality(kids)
           /\ \A v \in Workers \ {w}: JustFound(v)' = JustFound(v) /\ found'[v] = found[v]
                                      /\ Duty(v)' = Duty(v)
  <1> USE DEF Listed, Turns, Alone, Idle
  <1>1. task[w] \in Dirs /\ task[w] \notin Opened
    BY NotOpened
  <1>2. Children[task[w]] \cap Seen = {}
    BY <1>1 DEF FromAbove
  <1>3. Outstanding' = Outstanding \cup kids
    <2>1. \A v \in Workers: task'[v] = task[v]
      OBVIOUS
    <2>2. UNION {local'[v]: v \in Workers} = kids \cup UNION {local[v]: v \in Workers}
      OBVIOUS
    <2> QED  BY <2>1, <2>2 DEF Outstanding
  <1>4. Opened' = Opened \cup {task[w]}
    BY DEF Opened
  <1>5. JustFound(w) = {} /\ JustFound(w)' = kids
    <2>1. local[w] \subseteq Seen
      BY DEF Seen, Outstanding
    <2> QED  BY <1>2, <2>1 DEF JustFound
  <1>6. \A v \in Workers \ {w}: JustFound(v)' = JustFound(v)
    BY DEF JustFound
  <1> QED  BY <1>2, <1>3, <1>4, <1>5, <1>6

LEMMA NotedSets ==
    ASSUME Typed, Postures, InOnePlace, NEW w \in Workers, Noted(w)
    PROVE  /\ UNCHANGED <<Outstanding, Opened, listed>> /\ live' = live + found[w]
           /\ Duty(w) = "owing" /\ Duty(w)' # "owing" /\ JustFound(w)' = {}
           /\ \A v \in Workers \ {w}: JustFound(v)' = JustFound(v) /\ found'[v] = found[v]
                                      /\ Duty(v)' = Duty(v)
  <1> USE DEF Noted, Turns, Alone, Idle
  <1>1. UNCHANGED items /\ \A v \in Workers: local'[v] = local[v] /\ task'[v] = task[v]
    OBVIOUS
  <1>2. Outstanding' = Outstanding
    BY <1>1 DEF Outstanding
  <1>3. Opened' = Opened
    BY <1>1 DEF Opened
  <1>4. JustFound(w)' = {} /\ \A v \in Workers \ {w}: JustFound(v)' = JustFound(v)
    BY DEF JustFound
  <1> QED  BY <1>2, <1>3, <1>4

LEMMA FinishedSets ==
    ASSUME Typed, Postures, InOnePlace, NEW w \in Workers, Finished(w)
    PROVE  /\ Outstanding' = Outstanding \ {task[w]} /\ listed' = listed \cup {task[w]}
           /\ Opened' = Opened /\ live' = live - 1
           /\ task[w] \in Outstanding /\ \A v \in Workers: task[w] \notin local[v]
           /\ \A v \in Workers: JustFound(v)' = JustFound(v) /\ found'[v] = found[v]
                               /\ (Duty(v) = "owing" <=> Duty(v)' = "owing")
  <1> USE DEF Finished, Turns, Alone, Idle
  <1>1. task[w] \in Dirs /\ \A v \in Workers: task[w] \notin local[v]
    BY InHand DEF InOnePlace
  <1>2. \A v \in Workers: task[v] = task[w] => v = w
    BY <1>1, Untouched DEF InOnePlace
  <1>3. task[w] # NoTask /\ task[w] \notin items
    BY <1>1, Untouched DEF InOnePlace
  <1>4. Outstanding' = Outstanding \ {task[w]}
    <2>1. {task'[v]: v \in Workers} \ {NoTask} = ({task[v]: v \in Workers} \ {NoTask}) \ {task[w]}
      BY <1>2, <1>3
    <2>2. UNION {local'[v]: v \in Workers} = UNION {local[v]: v \in Workers}
      OBVIOUS
    <2>3. task[w] \notin UNION {local[v]: v \in Workers}
      BY <1>1
    <2> QED  BY <1>3, <2>1, <2>2, <2>3 DEF Outstanding
  <1>5. Opened' = Opened
    <2>1. {task[v]: v \in {u \in Workers: Duty(u) \in {"owing", "done"}}}
          = {task[w]} \cup {task[v]: v \in {u \in Workers \ {w}: Duty(u) \in {"owing", "done"}}}
      OBVIOUS
    <2>2. {task'[v]: v \in {u \in Workers: Duty(u)' \in {"owing", "done"}}}
          = {task[v]: v \in {u \in Workers \ {w}: Duty(u) \in {"owing", "done"}}}
      OBVIOUS
    <2> QED  BY <2>1, <2>2 DEF Opened
  <1>6. \A v \in Workers: JustFound(v)' = JustFound(v)
    BY DEF JustFound
  <1>7. task[w] \in Outstanding
    BY <1>3 DEF Outstanding
  <1> QED  BY <1>1, <1>4, <1>5, <1>6, <1>7

LEMMA GaveSets ==
    ASSUME Typed, Postures, InOnePlace, NEW w \in Workers, NEW G \in SUBSET Dirs, Gave(w, G)
    PROVE  /\ UNCHANGED <<Outstanding, Opened, listed, live>>
           /\ \A v \in Workers: JustFound(v)' = JustFound(v) /\ found'[v] = found[v]
                               /\ (Duty(v) = "owing" <=> Duty(v)' = "owing")
  <1> USE DEF Gave, Turns, Alone, Idle
  <1>1. Outstanding' = Outstanding
    <2>1. \A v \in Workers: task'[v] = task[v]
      OBVIOUS
    <2>2. items' \cup UNION {local'[v]: v \in Workers} = items \cup UNION {local[v]: v \in Workers}
      OBVIOUS
    <2> QED  BY <2>1, <2>2 DEF Outstanding
  <1>2. Opened' = Opened
    BY DEF Opened
  <1>3. \A v \in Workers: JustFound(v)' = JustFound(v)
    BY DEF JustFound
  <1> QED  BY <1>1, <1>2, <1>3

LEMMA FromAboveKept ==
    ASSUME Typed, Seating, Postures, InOnePlace, FromAbove, [Next]_vars
    PROVE  FromAbove'
  <1>1. ASSUME UNCHANGED <<Outstanding, Opened, listed>>  PROVE FromAbove'
    BY <1>1 DEF FromAbove, Seen
  <1>2. CASE Still
    BY <1>1, <1>2, StillSets
  <1>3. ASSUME NEW w \in Workers, NEW d \in Dirs, Took(w, d)  PROVE FromAbove'
    BY <1>1, <1>3, TookSets
  <1>4. ASSUME NEW w \in Workers, Balked(w)  PROVE FromAbove'
    BY <1>4, BalkedSets DEF FromAbove, Seen
  <1>5. ASSUME NEW w \in Workers, NEW kids \in SUBSET Dirs, Listed(w, kids)  PROVE FromAbove'
    <2>1. /\ Seen' = Seen \cup kids /\ Opened' = Opened \cup {task[w]} /\ kids \cap Seen = {}
          /\ task[w] \in Dirs
      BY <1>5, ListedSets, InHand DEF Seen, Listed, Turns
    <2>2. kids \subseteq Children[task[w]] /\ (task[w] \notin Unlisted => kids = Children[task[w]])
      BY <1>5 DEF Listed
    <2>3. \A d \in Dirs \ Opened': Children[d] \cap Seen' = {}
      <3>1. SUFFICES ASSUME NEW d \in Dirs \ Opened'  PROVE Children[d] \cap Seen' = {}
        OBVIOUS
      <3>2. d # task[w] /\ d \notin Opened
        BY <2>1
      <3>3. Children[d] \cap Children[task[w]] = {} /\ Children[d] \cap Seen = {}
        BY <2>1, <3>2, SwarmAssumption DEF FromAbove
      <3> QED  BY <2>1, <2>2, <3>3
    <2>4. \A d \in Opened' \ Unlisted: Children[d] \subseteq Seen'
      BY <2>1, <2>2 DEF FromAbove
    <2> QED  BY <2>1, <2>3, <2>4 DEF FromAbove
  <1>6. ASSUME NEW w \in Workers, Noted(w)  PROVE FromAbove'
    BY <1>1, <1>6, NotedSets
  <1>7. ASSUME NEW w \in Workers, Finished(w)  PROVE FromAbove'
    <2>1. Seen' = Seen /\ Opened' = Opened
      BY <1>7, FinishedSets DEF Seen
    <2> QED  BY <2>1 DEF FromAbove
  <1>8. ASSUME NEW w \in Workers, NEW G \in SUBSET Dirs, Gave(w, G)  PROVE FromAbove'
    BY <1>1, <1>8, GaveSets
  <1> QED  BY <1>2, <1>3, <1>4, <1>5, <1>6, <1>7, <1>8, Flow DEF Moves

(***************************************************************************)
(* The counter of outstanding directories.                                 *)
(***************************************************************************)

LEMMA OutstandingFinite ==
    ASSUME Typed
    PROVE  Outstanding \subseteq Dirs /\ IsFiniteSet(Outstanding) /\ IsFiniteSet(Counted)
           /\ Cardinality(Counted) <= Cardinality(Dirs)
  <1>1. Outstanding \subseteq Dirs
    BY DEF Typed, Outstanding
  <1>2. Counted \subseteq Dirs
    BY <1>1 DEF Counted
  <1> QED  BY <1>1, <1>2, SwarmAssumption, FS_Subset

LEMMA LiveCountsKept ==
    ASSUME Typed, Seating, Postures, InOnePlace, FromAbove, LiveCounts, [Next]_vars
    PROVE  LiveCounts'
  <1>1. ASSUME UNCHANGED <<Outstanding, live>>,
               \A v \in Workers: JustFound(v)' = JustFound(v) /\ found'[v] = found[v]
                                /\ (Duty(v) = "owing" <=> Duty(v)' = "owing")
        PROVE  LiveCounts'
    <2>1. Counted' = Counted
      BY <1>1 DEF Counted
    <2> QED  BY <1>1, <2>1 DEF LiveCounts
  <1>2. CASE Still
    BY <1>1, <1>2, StillSets
  <1>3. ASSUME NEW w \in Workers, NEW d \in Dirs, Took(w, d)  PROVE LiveCounts'
    BY <1>1, <1>3, TookSets
  <1>4. ASSUME NEW w \in Workers, Balked(w)  PROVE LiveCounts'
    BY <1>1, <1>4, BalkedSets
  <1>5. ASSUME NEW w \in Workers, NEW kids \in SUBSET Dirs, Listed(w, kids)  PROVE LiveCounts'
    <2>1. /\ live' = live /\ Outstanding' = Outstanding \cup kids /\ kids \cap Seen = {}
          /\ JustFound(w) = {} /\ JustFound(w)' = kids /\ found'[w] = Cardinality(kids)
          /\ \A v \in Workers \ {w}: /\ JustFound(v)' = JustFound(v) /\ found'[v] = found[v]
                                     /\ Duty(v)' = Duty(v)
      BY <1>5, ListedSets
    <2>2. UNION {JustFound(v)': v \in Workers} = kids \cup UNION {JustFound(v): v \in Workers}
      <3>1. Workers = {w} \cup (Workers \ {w})
        OBVIOUS
      <3> QED  BY <2>1, <3>1
    <2>3. Counted' = Counted
      BY <2>1, <2>2 DEF Counted, Seen
    <2>4. \A v \in Workers: Duty(v)' = "owing" => found'[v] = Cardinality(JustFound(v)')
      BY <2>1 DEF LiveCounts
    <2> QED  BY <2>1, <2>3, <2>4 DEF LiveCounts
  <1>6. ASSUME NEW w \in Workers, Noted(w)  PROVE LiveCounts'
    <2>1. /\ Outstanding' = Outstanding /\ live' = live + found[w]
          /\ Duty(w) = "owing" /\ Duty(w)' # "owing" /\ JustFound(w)' = {}
          /\ \A v \in Workers \ {w}: /\ JustFound(v)' = JustFound(v) /\ found'[v] = found[v]
                                     /\ Duty(v)' = Duty(v)
      BY <1>6, NotedSets
    <2>2. JustFound(w) \subseteq Outstanding
      BY DEF JustFound, Outstanding
    <2>3. \A v \in Workers \ {w}: JustFound(v) \cap JustFound(w) = {}
      BY DEF JustFound, InOnePlace
    <2>4. Counted' = Counted \cup JustFound(w) /\ Counted \cap JustFound(w) = {}
      BY <2>1, <2>2, <2>3 DEF Counted
    <2>5. IsFiniteSet(Counted) /\ IsFiniteSet(JustFound(w))
      BY <2>2, OutstandingFinite, FS_Subset
    <2>6. Cardinality(Counted') = Cardinality(Counted) + Cardinality(JustFound(w))
      <3>1. Cardinality(Counted \cap JustFound(w)) = 0
        BY <2>4, FS_EmptySet
      <3>2. Cardinality(Counted) \in Nat /\ Cardinality(JustFound(w)) \in Nat
        BY <2>5, FS_CardinalityType
      <3>3. Cardinality(Counted \cup JustFound(w))
            = Cardinality(Counted) + Cardinality(JustFound(w)) - Cardinality(Counted \cap JustFound(w))
        BY <2>5, FS_Union
      <3> QED  BY <2>4, <3>1, <3>2, <3>3
    <2>7. live' = Cardinality(Counted')
      BY <2>1, <2>6 DEF LiveCounts
    <2>8. \A v \in Workers: Duty(v)' = "owing" => found'[v] = Cardinality(JustFound(v)')
      BY <2>1 DEF LiveCounts
    <2> QED  BY <2>7, <2>8 DEF LiveCounts
  <1>7. ASSUME NEW w \in Workers, Finished(w)  PROVE LiveCounts'
    <2>1. /\ Outstanding' = Outstanding \ {task[w]} /\ live' = live - 1
          /\ task[w] \in Outstanding /\ (\A v \in Workers: task[w] \notin local[v])
          /\ \A v \in Workers: /\ JustFound(v)' = JustFound(v) /\ found'[v] = found[v]
                               /\ (Duty(v) = "owing" <=> Duty(v)' = "owing")
      BY <1>7, FinishedSets
    <2>2. task[w] \in Counted /\ Counted' = Counted \ {task[w]}
      <3>1. \A v \in Workers: task[w] \notin JustFound(v)
        BY <2>1 DEF JustFound
      <3> QED  BY <2>1, <3>1 DEF Counted
    <2>3. Cardinality(Counted') = Cardinality(Counted) - 1
      BY <2>2, OutstandingFinite, FS_RemoveElement
    <2> QED  BY <2>1, <2>3 DEF LiveCounts
  <1>8. ASSUME NEW w \in Workers, NEW G \in SUBSET Dirs, Gave(w, G)  PROVE LiveCounts'
    BY <1>1, <1>8, GaveSets
  <1> QED  BY <1>2, <1>3, <1>4, <1>5, <1>6, <1>7, <1>8, Flow DEF Moves

(***************************************************************************)
(* The counters of the hunt.                                               *)
(***************************************************************************)

(* `count` goes with the number of workers in S, of whom w alone may move.     *)
Tallies(w, count, countN, S, T) ==
    \/ countN = count /\ (w \in T <=> w \in S)
    \/ countN = count + 1 /\ w \notin S /\ w \in T
    \/ countN = count - 1 /\ w \in S /\ w \notin T

LEMMA CrewFinite == IsFiniteSet(Workers) /\ Cardinality(Workers) = Seats
  <1>1. 0 \in Int /\ Seats - 1 \in Int /\ Seats \in Nat \ {0}
    BY SwarmAssumption
  <1> QED  BY <1>1, FS_Interval DEF Workers

LEMMA Tallied ==
    ASSUME NEW w \in Workers, NEW count, NEW countN, NEW S \in SUBSET Workers,
           NEW T \in SUBSET Workers, Tallies(w, count, countN, S, T),
           \A v \in Workers: v # w => (v \in S <=> v \in T), count = Cardinality(S)
    PROVE  countN = Cardinality(T)
  <1>1. IsFiniteSet(S) /\ IsFiniteSet(T)
    BY CrewFinite, FS_Subset
  <1>2. CASE countN = count /\ (w \in T <=> w \in S)
    BY <1>2
  <1>3. CASE countN = count + 1 /\ w \notin S /\ w \in T
    <2>1. T = S \cup {w}
      BY <1>3
    <2> QED  BY <1>1, <1>3, <2>1, FS_AddElement
  <1>4. CASE countN = count - 1 /\ w \in S /\ w \notin T
    <2>1. T = S \ {w}
      BY <1>4
    <2> QED  BY <1>1, <1>4, <2>1, FS_RemoveElement
  <1> QED  BY <1>2, <1>3, <1>4 DEF Tallies

LEMMA WorkerTallies ==
    ASSUME Typed, Seating, NEW w \in Workers, Worker(w)
    PROVE  /\ Tallies(w, starving, starving', Hunting, Hunting')
           /\ Tallies(w, waiting, waiting', Waiting, Waiting')
  <1> USE DEF Typed, Goto, queue, Tallies, Hunting, Waiting
  <1>1. CASE Begin(w) \/ Loop(w)
    BY <1>1 DEF Begin, Loop
  <1>2. CASE PopAborted(w) \/ PopAvail(w) \/ PopTake(w) \/ PopLive(w)
    BY <1>2 DEF PopAborted, PopAvail, PopTake, PopLive, LeavePop
  <1>3. CASE Park(w) \/ ParkLive(w) \/ ParkWait(w)
    BY <1>3 DEF Park, ParkLive, ParkWait
  <1>4. CASE Unopened(w) \/ Emitted(w) \/ Note(w) \/ Done(w)
    BY <1>4 DEF Unopened, Emitted, Note, Done
  <1>5. CASE List(w) \/ Emit(w)
    BY <1>5 DEF List, Emit
  <1>6. CASE WakeParked(w)
    BY <1>6 DEF WakeParked, AfterWake
  <1>7. CASE Broadcast(w)
    BY <1>7 DEF Broadcast, Wake, AfterWake
  <1>8. CASE Consider(w) \/ KeepAll(w) \/ Flush(w) \/ Tail(w)
    BY <1>8 DEF Consider, KeepAll, Flush, Tail, Release
  <1>9. CASE Hire(w) \/ Donate(w)
    BY <1>9 DEF Hire, Donate
  <1>10. CASE Signal(w)
    BY <1>10 DEF Signal, Wake
  <1> QED  BY <1>1, <1>2, <1>3, <1>4, <1>5, <1>6, <1>7, <1>8, <1>9, <1>10
           DEF Worker, Pop, Work, Between

LEMMA HuntCountsKept ==
    ASSUME Typed, Seating, HuntCounts, [Next]_vars
    PROVE  HuntCounts'
  <1>1. ASSUME NEW v \in Workers, Same(v)
        PROVE  (v \in Hunting' <=> v \in Hunting) /\ (v \in Waiting' <=> v \in Waiting)
    BY <1>1 DEF Same, Hunting, Waiting
  <1>2. CASE Elsewhere
    <2>1. Hunting' = Hunting /\ Waiting' = Waiting
      <3>1. \A v \in Workers: (v \in Hunting' <=> v \in Hunting) /\ (v \in Waiting' <=> v \in Waiting)
        BY <1>1, <1>2, Seated
      <3> QED  BY <3>1 DEF Hunting, Waiting
    <2>2. UNCHANGED <<starving, waiting>>
      BY <1>2 DEF Elsewhere, Caller, MusterSpawn, MusterCount, MusterWalk, MusterClose, MusterJoin,
                  World, Returned, vars, queue
    <2> QED  BY <2>1, <2>2 DEF HuntCounts
  <1>3. ASSUME NEW w \in Workers, Worker(w)  PROVE HuntCounts'
    <2>1. ASSUME NEW v \in Workers, v # w
          PROVE  (v \in Hunting' <=> v \in Hunting) /\ (v \in Waiting' <=> v \in Waiting)
      BY <1>1, <1>3, <2>1, Bystanders
    <2>2. /\ Hunting \in SUBSET Workers /\ Hunting' \in SUBSET Workers
          /\ Waiting \in SUBSET Workers /\ Waiting' \in SUBSET Workers
      BY DEF Hunting, Waiting
    <2>3. /\ Tallies(w, starving, starving', Hunting, Hunting')
          /\ Tallies(w, waiting, waiting', Waiting, Waiting')
      BY <1>3, WorkerTallies
    <2>4. starving' = Cardinality(Hunting')
      <3>1. PICK S, T, n, m: S = Hunting /\ T = Hunting' /\ n = starving /\ m = starving'
        OBVIOUS
      <3>2. S \in SUBSET Workers /\ T \in SUBSET Workers
        BY <2>2, <3>1
      <3>3. Tallies(w, n, m, S, T)
        BY <2>3, <3>1
      <3>4. n = Cardinality(S)
        BY <3>1 DEF HuntCounts
      <3>5. ASSUME NEW v \in Workers, v # w  PROVE v \in S <=> v \in T
        <4>1. (v \in Hunting' <=> v \in Hunting) /\ (v \in Waiting' <=> v \in Waiting)
          BY <2>1, <3>5
        <4> QED  BY <3>1, <4>1
      <3>6. m = Cardinality(T)
        BY <3>2, <3>3, <3>4, <3>5, Tallied
      <3> QED  BY <3>1, <3>6
    <2>5. waiting' = Cardinality(Waiting')
      <3>1. PICK S, T, n, m: S = Waiting /\ T = Waiting' /\ n = waiting /\ m = waiting'
        OBVIOUS
      <3>2. S \in SUBSET Workers /\ T \in SUBSET Workers
        BY <2>2, <3>1
      <3>3. Tallies(w, n, m, S, T)
        BY <2>3, <3>1
      <3>4. n = Cardinality(S)
        BY <3>1 DEF HuntCounts
      <3>5. ASSUME NEW v \in Workers, v # w  PROVE v \in S <=> v \in T
        <4>1. (v \in Hunting' <=> v \in Hunting) /\ (v \in Waiting' <=> v \in Waiting)
          BY <2>1, <3>5
        <4> QED  BY <3>1, <4>1
      <3>6. m = Cardinality(T)
        BY <3>2, <3>3, <3>4, <3>5, Tallied
      <3> QED  BY <3>1, <3>6
    <2> QED  BY <2>4, <2>5 DEF HuntCounts
  <1> QED  BY <1>2, <1>3 DEF Next, Elsewhere

(***************************************************************************)
(* Nobody leaves early.                                                    *)
(***************************************************************************)

(* The counter is at zero only when nothing is left, found or not.            *)
LEMMA ZeroMeansDone ==
    ASSUME Typed, Postures, InOnePlace, LiveCounts, live = 0
    PROVE  Outstanding = {}
  <1>1. Counted = {}
    BY OutstandingFinite, FS_EmptySet DEF LiveCounts
  <1>2. \A w \in Workers: Duty(w) # "owing"
    <2>1. SUFFICES ASSUME NEW w \in Workers, Duty(w) = "owing"  PROVE FALSE
      OBVIOUS
    <2>2. task[w] \in Dirs /\ task[w] # NoTask
      BY <2>1, InHand, Untouched
    <2>3. task[w] \in Outstanding
      BY <2>2 DEF Outstanding
    <2>4. \A v \in Workers: task[w] \notin JustFound(v)
      BY DEF InOnePlace, JustFound
    <2> QED  BY <1>1, <2>3, <2>4 DEF Counted
  <1>3. \A w \in Workers: JustFound(w) = {}
    BY <1>2 DEF JustFound
  <1> QED  BY <1>1, <1>3 DEF Counted

LEMMA NothingComesBack ==
    ASSUME Typed, Seating, Postures, InOnePlace, FromAbove, [Next]_vars, Outstanding = {}
    PROVE  Outstanding' = {}
  <1>1. ASSUME NEW w \in Workers, NEW kids \in SUBSET Dirs, Listed(w, kids)  PROVE FALSE
    BY <1>1, NotOpened DEF Listed, Turns
  <1>2. CASE Still
    BY <1>2, StillSets
  <1>3. ASSUME NEW w \in Workers, Moves(w)  PROVE Outstanding' = {}
    BY <1>1, <1>3, TookSets, BalkedSets, NotedSets, FinishedSets, GaveSets DEF Moves
  <1> QED  BY <1>2, <1>3, Flow

(* Uncancelled, a worker takes its leave at the counter and nowhere else.      *)
LEMMA TakesLeave ==
    ASSUME Typed, Seating, Postures, NEW w \in Workers, Worker(w),
           ~aborted, ~aborted', w \notin refused', Leaving(w)'
    PROVE  Leaving(w) \/ live = 0
  <1> USE DEF Typed, Goto, Leaving, Emitting
  <1>0. w # Nobody
    BY SwarmAssumption DEF Workers, Nobody
  <1>1. CASE Begin(w) \/ Loop(w)
    BY <1>1 DEF Begin, Loop
  <1>2. CASE PopAborted(w) \/ PopAvail(w) \/ PopTake(w) \/ PopLive(w)
    BY <1>2 DEF PopAborted, PopAvail, PopTake, PopLive, LeavePop
  <1>3. CASE Park(w) \/ ParkLive(w) \/ ParkWait(w)
    BY <1>3 DEF Park, ParkLive, ParkWait
  <1>4. CASE Unopened(w) \/ Emitted(w) \/ Note(w) \/ Done(w)
    BY <1>4 DEF Unopened, Emitted, Note, Done, worker
  <1>5. CASE List(w)
    BY <1>5 DEF List
  <1>6. CASE Emit(w)
    BY <1>6 DEF Emit
  <1>7. CASE WakeParked(w)
    BY <1>0, <1>7 DEF WakeParked, AfterWake, worker, Postures, Posture
  <1>8. CASE Broadcast(w)
    BY <1>0, <1>8 DEF Broadcast, Wake, AfterWake, worker
  <1>9. CASE Consider(w) \/ KeepAll(w) \/ Flush(w) \/ Tail(w)
    BY <1>9 DEF Consider, KeepAll, Flush, Tail, Release
  <1>10. CASE Hire(w) \/ Donate(w)
    BY <1>10 DEF Hire, Donate
  <1>11. CASE Signal(w)
    BY <1>11 DEF Signal, Wake
  <1> QED  BY <1>1, <1>2, <1>3, <1>4, <1>5, <1>6, <1>7, <1>8, <1>9, <1>10, <1>11
           DEF Worker, Pop, Work, Between

LEMMA RefusedStays == ASSUME [Next]_vars PROVE refused \subseteq refused'
  BY DEF Next, Caller, MusterSpawn, MusterCount, MusterWalk, MusterClose, MusterJoin, World,
         Returned, Worker, Begin, Loop, Pop, PopAborted, PopAvail, PopTake, PopLive, Park,
         ParkLive, ParkWait, PopKeeps, Work, Unopened, List, Emit, Emitted, Note, Done, WakeParked,
         Broadcast, Between, Consider, Hire, Donate, KeepAll, Signal, Flush, Tail,
         vars, history

LEMMA NobodyEarlyKept ==
    ASSUME Typed, Seating, Postures, InOnePlace, FromAbove, LiveCounts, NobodyEarly, [Next]_vars
    PROVE  NobodyEarly'
  <1>1. SUFFICES ASSUME ~aborted', NEW v \in Workers, v \notin refused', Leaving(v)'
                 PROVE  Outstanding' = {}
    BY DEF NobodyEarly
  <1>2. ~aborted /\ v \notin refused
    BY <1>1, AbortedStays, RefusedStays
  <1>3. ASSUME Leaving(v)  PROVE Outstanding = {}
    BY <1>2, <1>3 DEF NobodyEarly
  <1>4. Leaving(v) \/ live = 0
    <2>1. CASE Elsewhere
      BY <1>1, <2>1, Seated, SameDuty
    <2>2. ASSUME NEW w \in Workers, Worker(w), w # v  PROVE Leaving(v)
      BY <1>1, <2>2, Bystanders, SameDuty
    <2>3. CASE Worker(v)
      BY <1>1, <1>2, <2>3, TakesLeave
    <2> QED  BY <2>1, <2>2, <2>3 DEF Next, Elsewhere
  <1>5. Outstanding = {}
    BY <1>3, <1>4, ZeroMeansDone
  <1> QED  BY <1>5, NothingComesBack

(***************************************************************************)
(* Every match once.                                                       *)
(***************************************************************************)

Carried(v) == out[v] \cup pending[v]
Rest(w) == UNION {Carried(v): v \in Workers \ {w}}

LEMMA HeldSplits ==
    ASSUME NEW w \in Workers
    PROVE  Held = Carried(w) \cup Rest(w) /\ Held' = Carried(w)' \cup Rest(w)'
  <1>1. Workers = {w} \cup (Workers \ {w})
    OBVIOUS
  <1>2. Held = Carried(w) \cup Rest(w)
    BY <1>1 DEF Held, Carried, Rest
  <1>3. Held' = Carried(w)' \cup Rest(w)'
    BY <1>1 DEF Held, Carried, Rest
  <1> QED  BY <1>2, <1>3

(* Only what w carries, and what is printed, is left to look at. *)
LEMMA OnceEachFrom ==
    ASSUME OnceEach, NEW w \in Workers, \A v \in Workers: v # w => Same(v),
           out'[w] \cap pending'[w] = {}, Carried(w)' \cap Rest(w) = {},
           emitted' \cup Carried(w)' \cup Rest(w) \subseteq Opened',
           emitted' \cap (Carried(w)' \cup Rest(w)) = {},
           ~aborted' => /\ Hits \cap (Opened' \ Unlisted)
                                \subseteq emitted' \cup Carried(w)' \cup Rest(w)
                        /\ matched_files' = Cardinality(emitted')
    PROVE  OnceEach'
  <1>1. \A v \in Workers: v # w => /\ Carried(v)' = Carried(v) /\ Carried(v) \subseteq Rest(w)
                                  /\ out'[v] = out[v] /\ pending'[v] = pending[v]
    BY DEF Same, Carried, Rest
  <1>2. Rest(w)' = Rest(w)
    BY <1>1 DEF Rest
  <1>3. Held' = Carried(w)' \cup Rest(w)
    BY <1>2, HeldSplits
  <1>4. \A u, v \in Workers: u # v => Carried(u)' \cap Carried(v)' = {}
    <2>1. SUFFICES ASSUME NEW u \in Workers, NEW v \in Workers, u # v
                   PROVE  Carried(u)' \cap Carried(v)' = {}
      OBVIOUS
    <2>2. CASE u # w /\ v # w
      BY <1>1, <2>1, <2>2 DEF OnceEach, Carried
    <2>3. CASE u = w
      BY <1>1, <2>1, <2>3
    <2>4. CASE v = w
      BY <1>1, <2>1, <2>4
    <2> QED  BY <2>2, <2>3, <2>4
  <1>5. \A v \in Workers: out'[v] \cap pending'[v] = {}
    BY <1>1 DEF OnceEach
  <1> QED  BY <1>3, <1>4, <1>5 DEF OnceEach, Carried

LEMMA OnceEachGives ==
    ASSUME OnceEach, NEW w \in Workers
    PROVE  /\ out[w] \cap pending[w] = {} /\ Carried(w) \cap Rest(w) = {}
           /\ emitted \cup Carried(w) \cup Rest(w) \subseteq Opened
           /\ emitted \cap (Carried(w) \cup Rest(w)) = {}
           /\ ~aborted => /\ Hits \cap (Opened \ Unlisted)
                                 \subseteq emitted \cup Carried(w) \cup Rest(w)
                          /\ matched_files = Cardinality(emitted)
  <1>1. Held = Carried(w) \cup Rest(w)
    BY HeldSplits
  <1>2. Carried(w) \cap Rest(w) = {}
    BY DEF OnceEach, Carried, Rest
  <1> QED  BY <1>1, <1>2 DEF OnceEach

(* Listing opens a directory, as failing to open it does; nothing else.       *)
LEMMA WhatOpens ==
    ASSUME Typed, Seating, Postures, InOnePlace, FromAbove, NEW w \in Workers, Worker(w)
    PROVE  /\ pc[w] # "list" => Opened' = Opened
           /\ List(w) \/ Unopened(w) => Opened' = Opened \cup {task[w]} /\ task[w] \notin Opened
           /\ Unopened(w) => task[w] \in Unlisted
  <1>1. Still \/ Moves(w)
    BY WorkerFlow
  <1>2. ASSUME pc[w] # "list"  PROVE Opened' = Opened
    <2>1. Duty(w) # "list"
      BY <1>2 DEF Duty
    <2>2. ~Balked(w) /\ \A kids \in SUBSET Dirs: ~Listed(w, kids)
      BY <2>1 DEF Balked, Listed, Turns
    <2> QED  BY <1>1, <2>2, StillSets, TookSets, NotedSets, FinishedSets, GaveSets DEF Moves
  <1>3. ASSUME List(w) \/ Unopened(w)  PROVE Opened' = Opened \cup {task[w]} /\ task[w] \notin Opened
    <2>1. Duty(w) = "list" /\ Duty(w)' # "list"
      BY <1>3 DEF List, Unopened, Duty, Goto, Typed
    <2>2. Balked(w) \/ \E kids \in SUBSET Dirs: Listed(w, kids)
      BY <1>1, <2>1 DEF Still, Idle, Moves, Took, Noted, Finished, Gave, Turns
    <2>3. task[w] \notin Opened
      BY <2>1, NotOpened
    <2> QED  BY <2>2, <2>3, BalkedSets, ListedSets
  <1> QED  BY <1>2, <1>3 DEF Unopened

LEMMA WorkerKeepsOnceEach ==
    ASSUME Typed, Seating, Postures, InOnePlace, FromAbove, OnceEach, NEW w \in Workers, Worker(w),
           aborted => aborted'
    PROVE  OnceEach'
  <1>1. \A v \in Workers: v # w => Same(v)
    BY Bystanders
  <1>2. /\ out[w] \cap pending[w] = {} /\ Carried(w) \cap Rest(w) = {}
        /\ emitted \cup Carried(w) \cup Rest(w) \subseteq Opened
        /\ emitted \cap (Carried(w) \cup Rest(w)) = {}
        /\ ~aborted => /\ Hits \cap (Opened \ Unlisted) \subseteq emitted \cup Carried(w) \cup Rest(w)
                       /\ matched_files = Cardinality(emitted)
    BY OnceEachGives
  <1>3. pc[w] # "list" => Opened' = Opened
    BY WhatOpens
  <1>4. ASSUME UNCHANGED <<out, pending, emitted, matched_files>>, pc[w] # "list" \/ Unopened(w)
        PROVE  OnceEach'
    <2>1. Carried(w)' = Carried(w)
      BY <1>4 DEF Carried
    <2>2. Opened \subseteq Opened' /\ Opened' \ Unlisted = Opened \ Unlisted
      BY <1>3, <1>4, WhatOpens
    <2>3. out'[w] \cap pending'[w] = {} /\ Carried(w)' \cap Rest(w) = {}
      BY <1>2, <1>4, <2>1
    <2>4. emitted' \cup Carried(w)' \cup Rest(w) \subseteq Opened'
      BY <1>2, <1>4, <2>1, <2>2
    <2>5. emitted' \cap (Carried(w)' \cup Rest(w)) = {}
      BY <1>2, <1>4, <2>1
    <2>6. ~aborted' => /\ Hits \cap (Opened' \ Unlisted)
                                \subseteq emitted' \cup Carried(w)' \cup Rest(w)
                       /\ matched_files' = Cardinality(emitted')
      BY <1>2, <1>4, <2>1, <2>2
    <2> QED  BY <1>1, <2>3, <2>4, <2>5, <2>6, OnceEachFrom
  <1>5. ASSUME List(w)  PROVE OnceEach'
    <2>1. PICK kids \in SUBSET Children[task[w]], hit \in SUBSET ({task[w]} \cap Hits):
             /\ hit = {task[w]} \cap Hits \/ task[w] \in Unlisted
             /\ Admit(w, kids, hit)
      BY <1>5 DEF List
    <2>2. Opened' = Opened \cup {task[w]} /\ task[w] \notin Opened
      BY <1>5, WhatOpens
    <2>3. UNCHANGED <<aborted, emitted, matched_files>> /\ out[w] = {}
      BY <1>5 DEF List, Postures, Posture, Emitting, sink, history
    <2>4. /\ out'[w] \cup pending'[w] = pending[w] \cup hit /\ out'[w] \cap pending'[w] = {}
      <3>1. \/ out' = out /\ pending'[w] = pending[w] \cup hit
            \/ out'[w] = hit /\ pending' = pending
        BY <2>1 DEF Admit, Typed
      <3>2. hit \cap pending[w] = {}
        BY <1>2, <2>2 DEF Carried
      <3> QED  BY <2>3, <3>1, <3>2
    <2>5. Carried(w)' = Carried(w) \cup hit
      BY <2>3, <2>4 DEF Carried
    <2>6. hit \cap (emitted \cup Rest(w)) = {}
      BY <1>2, <2>2
    <2>7. Carried(w)' \cap Rest(w) = {} /\ emitted' \cap (Carried(w)' \cup Rest(w)) = {}
      BY <1>2, <2>3, <2>5, <2>6
    <2>8. emitted' \cup Carried(w)' \cup Rest(w) \subseteq Opened'
      BY <1>2, <2>2, <2>3, <2>5
    <2>9. ~aborted' => /\ Hits \cap (Opened' \ Unlisted)
                                \subseteq emitted' \cup Carried(w)' \cup Rest(w)
                       /\ matched_files' = Cardinality(emitted')
      BY <1>2, <2>1, <2>2, <2>3, <2>5
    <2> QED  BY <1>1, <2>4, <2>7, <2>8, <2>9, OnceEachFrom
  <1>6. ASSUME Emit(w)  PROVE OnceEach'
    <2>1. PICK d \in out[w]:
             /\ out' = [out EXCEPT ![w] = @ \ {d}]
             /\ \/ aborted' /\ emitted' = emitted
                \/ /\ ~aborted /\ emitted' = emitted \cup {d}
                   /\ matched_files' = matched_files + 1
      BY <1>6 DEF Emit
    <2>2. pending' = pending /\ Opened' = Opened
      BY <1>3, <1>6 DEF Emit
    <2>3. out'[w] = out[w] \ {d}
      BY <2>1 DEF Typed
    <2>4. Carried(w)' = Carried(w) \ {d} /\ d \in Carried(w) /\ out'[w] \cap pending'[w] = {}
      BY <1>2, <2>2, <2>3 DEF Carried
    <2>5. d \notin Rest(w) /\ d \notin emitted /\ d \in Opened
      BY <1>2, <2>4
    <2>6. Carried(w)' \cap Rest(w) = {} /\ emitted' \cap (Carried(w)' \cup Rest(w)) = {}
      BY <1>2, <2>1, <2>4, <2>5
    <2>7. emitted' \cup Carried(w)' \cup Rest(w) \subseteq Opened'
      BY <1>2, <2>1, <2>2, <2>4
    <2>8. ~aborted' => /\ Hits \cap (Opened' \ Unlisted)
                                \subseteq emitted' \cup Carried(w)' \cup Rest(w)
                       /\ matched_files' = Cardinality(emitted')
      <3>1. SUFFICES ASSUME ~aborted'
                     PROVE  /\ Hits \cap (Opened' \ Unlisted)
                                    \subseteq emitted' \cup Carried(w)' \cup Rest(w)
                            /\ matched_files' = Cardinality(emitted')
        OBVIOUS
      <3>2. ~aborted /\ emitted' = emitted \cup {d} /\ matched_files' = matched_files + 1
        BY <2>1, <3>1
      <3>3. IsFiniteSet(emitted)
        BY SwarmAssumption, FS_Subset DEF Typed
      <3>4. Cardinality(emitted \cup {d}) = Cardinality(emitted) + 1
        BY <2>5, <3>3, FS_AddElement
      <3>5. Hits \cap (Opened' \ Unlisted) \subseteq emitted' \cup Carried(w)' \cup Rest(w)
        BY <1>2, <2>2, <2>4, <3>2
      <3> QED  BY <1>2, <3>2, <3>4, <3>5
    <2> QED  BY <1>1, <2>4, <2>6, <2>7, <2>8, OnceEachFrom
  <1>7. ASSUME Release(w, "loop") \/ Release(w, "gone"), UNCHANGED <<aborted, emitted, matched_files>>,
               pc[w] \in {"flush", "tail"}
        PROVE  OnceEach'
    <2>1. out[w] = {}
      BY <1>7 DEF Postures, Posture, Emitting
    <2>2. out'[w] = pending[w] /\ pending'[w] = {}
      BY <1>7 DEF Release, Typed
    <2>3. Carried(w)' = Carried(w) /\ out'[w] \cap pending'[w] = {}
      BY <2>1, <2>2 DEF Carried
    <2>4. Opened' = Opened
      BY <1>3, <1>7
    <2> QED  BY <1>1, <1>2, <1>7, <2>3, <2>4, OnceEachFrom
  <1> USE DEF queue, worker, sink, history
  <1>8. CASE Begin(w) \/ Loop(w) \/ Unopened(w) \/ Emitted(w) \/ Note(w) \/ Done(w)
    BY <1>4, <1>8 DEF Begin, Loop, Unopened, Emitted, Note, Done
  <1>9. CASE Pop(w)
    BY <1>4, <1>9 DEF Pop, PopAborted, PopAvail, PopTake, PopLive, Park, ParkLive, ParkWait, PopKeeps
  <1>10. CASE WakeParked(w) \/ Broadcast(w) \/ Signal(w)
    BY <1>4, <1>10 DEF WakeParked, Broadcast, Signal
  <1>11. CASE Consider(w) \/ Hire(w) \/ Donate(w) \/ KeepAll(w)
    BY <1>4, <1>11 DEF Consider, Hire, Donate, KeepAll
  <1>12. CASE Flush(w) \/ Tail(w)
    BY <1>4, <1>7, <1>12 DEF Flush, Tail
  <1> QED  BY <1>5, <1>6, <1>8, <1>9, <1>10, <1>11, <1>12 DEF Worker, Work, Between

LEMMA OnceEachKept ==
    ASSUME Typed, Seating, Postures, InOnePlace, FromAbove, OnceEach, [Next]_vars
    PROVE  OnceEach'
  <1>1. CASE Elsewhere
    <2>1. Still /\ UNCHANGED <<emitted, matched_files, aborted>>
      <3>1. \A v \in Workers: Idle(v)
        BY <1>1, Seated, SameDuty DEF Idle, Same
      <3>2. UNCHANGED <<items, live, listed, emitted, matched_files, aborted>>
        BY <1>1 DEF Elsewhere, Caller, MusterSpawn, MusterCount, MusterWalk, MusterClose, MusterJoin,
                    World, Returned, vars, queue, sink, history
      <3> QED  BY <3>1, <3>2 DEF Still
    <2>2. Opened' = Opened
      BY <2>1, StillSets
    <2>3. \A v \in Workers: out'[v] = out[v] /\ pending'[v] = pending[v]
      BY <1>1, Seated DEF Same
    <2>4. Held' = Held
      BY <2>3 DEF Held
    <2> QED  BY <2>1, <2>2, <2>3, <2>4 DEF OnceEach
  <1> QED  BY <1>1, AbortedStays, WorkerKeepsOnceEach DEF Next, Elsewhere

(***************************************************************************)
(* The invariant holds, and what follows from it.                          *)
(***************************************************************************)

LEMMA Initially == ASSUME Init PROVE IInv
  <1> USE DEF Init
  <1>1. IsFiniteSet(Roots) /\ Cardinality(Roots) \in Nat
    BY SwarmAssumption, FS_Subset, FS_CardinalityType
  <1>2. Typed
    <2>1. items \subseteq Dirs /\ live \in Int
      BY <1>1, SwarmAssumption
    <2>2. starving \in Int /\ waiting \in Int /\ matched_files \in Nat /\ broken \in Nat
      OBVIOUS
    <2>3. /\ next \in 1 .. Seats /\ running \in 0 .. Seats - 1 /\ joining \in 0 .. Seats - 1
          /\ hired \in 1 .. Seats /\ want \in [Workers -> 0 .. Seats]
      BY SwarmAssumption
    <2>4. /\ pc \in [Workers -> Labels] /\ local \in [Workers -> SUBSET Dirs]
          /\ task \in [Workers -> Dirs \cup {NoTask}] /\ found \in [Workers -> Nat]
          /\ out \in [Workers -> SUBSET Hits] /\ pending \in [Workers -> SUBSET Hits]
          /\ back \in [Workers -> {"note", "loop", "gone"}]
      BY DEF Labels
    <2> QED  BY <2>1, <2>2, <2>3, <2>4 DEF Typed
  <1>3. Unbroken /\ Seating
    BY SwarmAssumption DEF Unbroken, Seating, Mustering, Workers
  <1>4. \A w \in Workers: Duty(w) = "none" /\ ~Emitting(w) /\ ~Leaving(w)
    BY DEF Duty, Emitting, Leaving
  <1>5. Postures
    <2>1. \A w \in Workers: w # Nobody
      BY SwarmAssumption DEF Workers, Nobody
    <2> QED  BY <1>4, <2>1 DEF Postures, Posture
  <1>6. InOnePlace
    BY SwarmAssumption DEF InOnePlace, NoTask
  <1>7. Outstanding = Roots /\ Opened = {} /\ Held = {} /\ \A w \in Workers: JustFound(w) = {}
    <2>1. UNION {local[w]: w \in Workers} = {} /\ {task[w]: w \in Workers} \ {NoTask} = {}
      OBVIOUS
    <2>2. Outstanding = Roots
      BY <2>1 DEF Outstanding
    <2>3. Opened = {}
      BY <1>4 DEF Opened
    <2>4. Held = {}
      BY DEF Held
    <2>5. \A w \in Workers: JustFound(w) = {}
      BY <1>4 DEF JustFound
    <2> QED  BY <2>2, <2>3, <2>4, <2>5
  <1>8. FromAbove
    BY <1>7, SwarmAssumption DEF FromAbove, Seen
  <1>9. LiveCounts
    <2>1. Counted = Roots
      BY <1>7 DEF Counted
    <2> QED  BY <1>4, <2>1 DEF LiveCounts
  <1>10. HuntCounts
    <2>1. Hunting = {} /\ Waiting = {}
      BY DEF Hunting, Waiting
    <2> QED  BY <2>1, FS_EmptySet DEF HuntCounts
  <1>11. NobodyEarly
    BY <1>4 DEF NobodyEarly
  <1>12. OnceEach
    BY <1>7, FS_EmptySet DEF OnceEach
  <1> QED  BY <1>2, <1>3, <1>5, <1>6, <1>8, <1>9, <1>10, <1>11, <1>12 DEF IInv

LEMMA Inductive == Spec => []IInv
  <1>1. Init => IInv
    BY Initially
  <1>2. IInv /\ [Next]_vars => IInv'
    BY TypedKept, UnbrokenKept, SeatingKept, PosturesKept, InOnePlaceKept, FromAboveKept,
       LiveCountsKept, HuntCountsKept, NobodyEarlyKept, OnceEachKept DEF IInv
  <1> QED  BY <1>1, <1>2, PTL DEF Spec

(* Every variable keeps its type; what is more, `live` never counts more       *)
(* directories than there are and never drops below zero, and `starving` and  *)
(* `waiting` never leave the range of the crew.                               *)
THEOREM SwarmTypeCorrect == Spec => []TypeOK
  <1>1. ASSUME IInv  PROVE TypeOK
    <2> USE <1>1 DEF IInv
    <2>1. live \in 0 .. Cardinality(Dirs)
      <3>1. live = Cardinality(Counted) /\ Cardinality(Counted) \in Nat
        BY OutstandingFinite, FS_CardinalityType DEF LiveCounts
      <3>2. Cardinality(Dirs) \in Nat
        BY SwarmAssumption, FS_CardinalityType
      <3> QED  BY <3>1, <3>2, OutstandingFinite
    <2>2. starving \in 0 .. Seats /\ waiting \in 0 .. Seats
      <3>1. \A S \in SUBSET Workers: Cardinality(S) \in 0 .. Seats
        BY CrewFinite, FS_Subset, FS_CardinalityType
      <3> QED  BY <3>1 DEF HuntCounts, Hunting, Waiting
    <2> QED  BY <2>1, <2>2 DEF Typed, TypeOK
  <1> QED  BY <1>1, Inductive, PTL

(* Queue.pop gives up, on a walk nobody cancelled, only when no directory is   *)
(* queued, stacked or in anybody's hand: whatever the counter, the donations   *)
(* and the other workers' listings did in between.                            *)
THEOREM NobodyQuitsEarly == Spec => []LeaveMeansDone
  <1>1. IInv => LeaveMeansDone
    BY DEF IInv, NobodyEarly, Leaving, LeaveMeansDone
  <1> QED  BY <1>1, Inductive, PTL

(* Sink.emit tries no write after the first that was refused.                 *)
THEOREM NoWriteAfterARefusal == Spec => []OneBrokenWrite
  <1>1. IInv => OneBrokenWrite
    BY DEF IInv, Unbroken, OneBrokenWrite
  <1> QED  BY <1>1, Inductive, PTL

LEMMA AllGone ==
    ASSUME Typed, Seating, closed, \A s \in 1 .. joining: s \in Workers => pc[s] = "gone"
    PROVE  \A w \in Workers: pc[w] \in {"seat", "gone"}
  <1>1. SUFFICES ASSUME NEW w \in Workers  PROVE pc[w] \in {"seat", "gone"}
    OBVIOUS
  <1>2. joining = running /\ pc[0] = "gone" /\ muster # "count"
    BY DEF Seating
  <1>3. w = 0 \/ w \in 1 .. joining \/ w > running
    BY <1>2, SwarmAssumption DEF Typed, Workers
  <1> QED  BY <1>2, <1>3, SwarmAssumption DEF Seating, Workers

(* When nobody is left, of an uncancelled walk that somebody walked.           *)
LEMMA NothingLeft ==
    ASSUME IInv, ~aborted, \A w \in Workers: pc[w] \in {"seat", "gone"}, Worked
    PROVE  /\ Outstanding = {} /\ Opened = listed
           /\ Hits \cap (Opened \ Unlisted) \subseteq emitted
           /\ matched_files = Cardinality(emitted)
  <1>1. Outstanding = {}
    BY DEF IInv, NobodyEarly, Leaving, Worked
  <1>2. \A w \in Workers: ~Emitting(w) /\ Duty(w) = "none"
    BY DEF Emitting, Duty
  <1>3. Opened = listed
    BY <1>2 DEF Opened
  <1>4. \A w \in Workers: out[w] = {} /\ pending[w] = {}
    BY <1>2 DEF IInv, Postures, Posture
  <1>5. Held = {}
    BY <1>4 DEF Held
  <1> QED  BY <1>1, <1>3, <1>5 DEF IInv, OnceEach

(* Crew.muster returns with every thread of the walk gone, hired late or not. *)
THEOREM EveryThreadJoined == Spec => []JoinedAll
  <1>1. IInv => JoinedAll
    <2>1. SUFFICES ASSUME IInv, muster = "returned"  PROVE \A w \in Workers: pc[w] \in {"seat", "gone"}
      BY DEF JoinedAll
    <2>2. closed /\ \A s \in 1 .. joining: s \in Workers => pc[s] = "gone"
      BY <2>1 DEF IInv, Seating
    <2> QED  BY <2>1, <2>2, AllGone DEF IInv
  <1> QED  BY <1>1, Inductive, PTL

(* A walk that was not cancelled, of which a worker saw the end, has listed    *)
(* every directory the tree leads to and printed and counted every match in   *)
(* them once, those held back for the oracle included.                        *)
THEOREM WalkIsComplete == Spec => []WalkComplete
  <1>1. ASSUME IInv, JoinedAll, muster = "returned", ~aborted, Worked
        PROVE  /\ Visited
               /\ Hits \cap (listed \ Unlisted) \subseteq emitted
               /\ matched_files = Cardinality(emitted)
    <2>1. /\ Outstanding = {} /\ Opened = listed
          /\ Hits \cap (Opened \ Unlisted) \subseteq emitted
          /\ matched_files = Cardinality(emitted)
      BY <1>1, NothingLeft DEF JoinedAll
    <2>2. Seen = listed
      BY <2>1 DEF Seen
    <2>3. Visited
      BY <1>1, <2>1, <2>2 DEF IInv, FromAbove, Visited
    <2> QED  BY <2>1, <2>3
  <1>2. IInv /\ JoinedAll => WalkComplete
    BY <1>1 DEF WalkComplete
  <1> QED  BY <1>2, Inductive, EveryThreadJoined, PTL

(***************************************************************************)
(* The walk is one traversal.                                              *)
(***************************************************************************)

(* Who was refused a buffer is gone, and nothing is opened but by somebody     *)
(* who was not.                                                               *)
Begun ==
    /\ \A w \in refused: pc[w] = "gone"
    /\ Opened # {} => \E w \in Workers \ refused: pc[w] \notin {"seat", "start"}

LEMMA WorkerBegins ==
    ASSUME Typed, NEW w \in Workers, Worker(w)
    PROVE  /\ pc'[w] \notin {"seat", "start"}
           /\ \/ refused' = refused
              \/ refused' = refused \cup {w} /\ pc[w] = "start" /\ pc'[w] = "gone"
  <1> USE DEF Typed, Goto, history
  <1>1. CASE Begin(w)
    BY <1>1 DEF Begin
  <1>2. CASE Loop(w)
    BY <1>2 DEF Loop
  <1>3. CASE Pop(w)
    BY <1>3 DEF Pop, PopAborted, PopAvail, PopTake, PopLive, Park, ParkLive, ParkWait, PopKeeps,
                LeavePop
  <1>4. CASE Unopened(w) \/ Emitted(w) \/ Note(w) \/ Done(w)
    BY <1>4 DEF Unopened, Emitted, Note, Done
  <1>5. CASE List(w) \/ Emit(w)
    BY <1>5 DEF List, Emit
  <1>6. CASE WakeParked(w) \/ Broadcast(w)
    BY <1>6 DEF WakeParked, Broadcast, Wake, AfterWake
  <1>7. CASE Consider(w) \/ KeepAll(w) \/ Flush(w) \/ Tail(w)
    BY <1>7 DEF Consider, KeepAll, Flush, Tail, Release
  <1>8. CASE Hire(w)
    BY <1>8 DEF Hire
  <1>9. CASE Donate(w)
    BY <1>9 DEF Donate
  <1>10. CASE Signal(w)
    BY <1>10 DEF Signal, Wake
  <1> QED  BY <1>1, <1>2, <1>3, <1>4, <1>5, <1>6, <1>7, <1>8, <1>9, <1>10
           DEF Worker, Work, Between

LEMMA BegunKept == ASSUME IInv, Begun, [Next]_vars PROVE Begun'
  <1> USE DEF IInv
  <1>1. CASE Elsewhere
    <2>1. UNCHANGED <<refused, Opened>>
      <3>1. Still
        <4>1. \A v \in Workers: Idle(v)
          BY <1>1, Seated, SameDuty DEF Idle, Same
        <4>2. UNCHANGED <<items, live, listed>>
          BY <1>1 DEF Elsewhere, Caller, MusterSpawn, MusterCount, MusterWalk, MusterClose,
                      MusterJoin, World, Returned, vars, queue, history
        <4> QED  BY <4>1, <4>2 DEF Still
      <3>2. refused' = refused
        BY <1>1 DEF Elsewhere, Caller, MusterSpawn, MusterCount, MusterWalk, MusterClose,
                    MusterJoin, World, Returned, vars, history
      <3> QED  BY <3>1, <3>2, StillSets
    <2>2. \A v \in Workers: /\ pc[v] = "gone" => pc'[v] = "gone"
                            /\ pc[v] \notin {"seat", "start"} => pc'[v] \notin {"seat", "start"}
      BY <1>1, Seated DEF Same
    <2> QED  BY <2>1, <2>2 DEF Begun, Typed
  <1>2. ASSUME NEW w \in Workers, Worker(w)  PROVE Begun'
    <2>1. pc[w] \notin {"seat", "gone"} /\ w \notin refused
      BY <1>2, WhoActs DEF Begun
    <2>2. /\ pc'[w] \notin {"seat", "start"}
          /\ \/ refused' = refused
             \/ refused' = refused \cup {w} /\ pc[w] = "start" /\ pc'[w] = "gone"
      BY <1>2, WorkerBegins
    <2>3. \A v \in Workers: v # w =>
             /\ pc[v] = "gone" => pc'[v] = "gone"
             /\ pc[v] \notin {"seat", "start"} => pc'[v] \notin {"seat", "start"}
      BY <1>2, Bystanders DEF Same
    <2>4. \A v \in refused': pc'[v] = "gone"
      BY <2>1, <2>2, <2>3 DEF Begun, Typed
    <2>5. ASSUME NEW v \in Workers \ refused, pc[v] \notin {"seat", "start"}
          PROVE  v \in Workers \ refused' /\ pc'[v] \notin {"seat", "start"}
      BY <2>2, <2>3, <2>5
    <2>6. CASE pc[w] = "list"
      BY <2>1, <2>4, <2>5, <2>6 DEF Begun
    <2>7. CASE pc[w] # "list"
      <3>1. Opened' = Opened
        BY <1>2, <2>7, WhatOpens
      <3> QED  BY <2>4, <2>5, <3>1 DEF Begun
    <2> QED  BY <2>6, <2>7
  <1> QED  BY <1>1, <1>2 DEF Next, Elsewhere

LEMMA InductiveBegun == Spec => []Begun
  <1>1. Init => Begun
    BY DEF Init, Begun, Opened, Duty, Emitting
  <1>2. IInv /\ Begun /\ [Next]_vars => Begun'
    BY BegunKept
  <1> QED  BY <1>1, <1>2, Inductive, PTL DEF Spec

LEMMA WhatCloses ==
    ASSUME IInv, NEW w \in Workers, Worker(w)
    PROVE  /\ pc[w] \notin {"list", "done"} => Outstanding' = Outstanding
           /\ Done(w) => /\ Outstanding' = Outstanding \ {task[w]} /\ Opened' = Opened
                         /\ task[w] \in Outstanding \cap Opened
           /\ Unopened(w) => Outstanding' = Outstanding
           /\ List(w) => \E kids \in SUBSET Dirs: Listed(w, kids)
  <1> USE DEF IInv
  <1>1. Still \/ Moves(w)
    BY WorkerFlow
  <1>2. ASSUME pc[w] \notin {"list", "done"}  PROVE Outstanding' = Outstanding
    <2>1. Duty(w) \notin {"list", "done"}
      BY <1>2 DEF Duty
    <2>2. ~Balked(w) /\ ~Finished(w) /\ \A kids \in SUBSET Dirs: ~Listed(w, kids)
      BY <2>1 DEF Balked, Finished, Listed, Turns
    <2> QED  BY <1>1, <2>2, StillSets, TookSets, NotedSets, GaveSets DEF Moves
  <1>3. ASSUME Done(w)
        PROVE  /\ Outstanding' = Outstanding \ {task[w]} /\ Opened' = Opened
               /\ task[w] \in Outstanding \cap Opened
    <2>1. Duty(w) = "done" /\ Duty(w)' # "done"
      BY <1>3 DEF Done, Duty, Goto, Typed, Emitting
    <2>2. Finished(w)
      BY <1>1, <2>1 DEF Still, Idle, Moves, Took, Balked, Listed, Noted, Gave, Turns
    <2>3. task[w] \in Opened
      BY <2>1 DEF Opened
    <2> QED  BY <2>2, <2>3, FinishedSets
  <1>4. ASSUME Unopened(w)  PROVE Outstanding' = Outstanding
    <2>1. Duty(w) = "list" /\ Duty(w)' = "done"
      BY <1>4 DEF Unopened, Duty, Goto, Typed, Emitting
    <2>2. Balked(w)
      BY <1>1, <2>1 DEF Still, Idle, Moves, Took, Noted, Finished, Listed, Gave, Turns
    <2> QED  BY <2>2, BalkedSets
  <1>5. ASSUME List(w)  PROVE \E kids \in SUBSET Dirs: Listed(w, kids)
    <2>1. Duty(w) = "list" /\ Duty(w)' = "owing"
      BY <1>5 DEF List, Duty, Goto, Typed, Emitting
    <2> QED  BY <1>1, <2>1 DEF Still, Idle, Moves, Took, Noted, Finished, Balked, Gave, Turns
  <1> QED  BY <1>2, <1>3, <1>4, <1>5

(* What can be seen of the walk from outside. *)
Sight == <<Outstanding, Opened, emitted, aborted, broken, muster = "returned">>

(* A directory once opened has been seen. *)
LEMMA OpenedSeen == ASSUME IInv PROVE Opened \subseteq Seen
  <1> SUFFICES ASSUME NEW d \in Opened  PROVE d \in Seen
    OBVIOUS
  <1>1. CASE d \in listed
    BY <1>1 DEF Seen
  <1>2. CASE d \notin listed
    <2>1. PICK w \in Workers: d = task[w] /\ Duty(w) # "none"
      BY <1>2 DEF Opened
    <2>2. d # NoTask
      BY <2>1, InHand, Untouched DEF IInv
    <2> QED  BY <2>1, <2>2 DEF Seen, Outstanding
  <1> QED  BY <1>1, <1>2

LEMMA OpeningRefines ==
    ASSUME IInv, NEW w \in Workers, Worker(w), List(w) \/ Unopened(w)
    PROVE  Promise!Open(task[w]) /\ task[w] \in Dirs
  <1>1. Duty(w) = "list"
    BY DEF List, Unopened, Duty
  <1>2. task[w] \in Dirs /\ task[w] \in Outstanding /\ task[w] \notin Opened
    BY <1>1, NotOpened DEF IInv
  <1>3. Opened' = Opened \cup {task[w]}
    BY WhatOpens DEF IInv
  <1>4. UNCHANGED <<emitted, aborted, broken>>
    BY DEF List, Unopened, history
  <1>5. \E kids \in SUBSET Children[task[w]]:
           /\ task[w] \notin Unlisted => kids = Children[task[w]]
           /\ kids \cap (Outstanding \cup Opened) = {}
           /\ Outstanding' = Outstanding \cup kids
    <2>1. CASE Unopened(w)
      <3>1. Outstanding' = Outstanding /\ task[w] \in Unlisted
        BY <2>1, WhatCloses DEF Unopened
      <3>2. {} \in SUBSET Children[task[w]]
        OBVIOUS
      <3> QED  BY <3>1, <3>2
    <2>2. CASE List(w)
      <3>1. PICK kids \in SUBSET Dirs: Listed(w, kids)
        BY <2>2, WhatCloses
      <3>2. Outstanding' = Outstanding \cup kids /\ kids \cap Seen = {}
        BY <3>1, ListedSets DEF IInv
      <3>3. kids \in SUBSET Children[task[w]] /\ (task[w] \notin Unlisted => kids = Children[task[w]])
        BY <3>1 DEF Listed
      <3>4. Outstanding \cup Opened \subseteq Seen
        BY OpenedSeen DEF Seen
      <3> QED  BY <3>2, <3>3, <3>4
    <2> QED  BY <2>1, <2>2
  <1> QED  BY <1>2, <1>3, <1>4, <1>5 DEF Promise!Open

LEMMA EmittingRefines ==
    ASSUME IInv, NEW w \in Workers, Worker(w), Emit(w)
    PROVE  Promise!Refuse \/ (\E d \in Dirs: Promise!Output(d))
           \/ UNCHANGED <<Outstanding, Opened, emitted, aborted, broken>>
  <1>1. UNCHANGED <<Outstanding, Opened>>
    BY WhatOpens, WhatCloses DEF IInv, Emit
  <1>2. PICK d \in out[w]:
           \/ UNCHANGED <<emitted, aborted, broken>>
           \/ ~aborted /\ emitted' = emitted \cup {d} /\ UNCHANGED <<aborted, broken>>
           \/ ~aborted /\ aborted' = TRUE /\ broken' = broken + 1 /\ emitted' = emitted
    BY DEF Emit
  <1>3. d \in (Hits \cap Opened) \ emitted /\ d \in Dirs
    BY SwarmAssumption DEF IInv, Typed, OnceEach, Held
  <1>4. CASE UNCHANGED <<emitted, aborted, broken>>
    BY <1>1, <1>4
  <1>5. CASE ~aborted /\ emitted' = emitted \cup {d} /\ UNCHANGED <<aborted, broken>>
    BY <1>1, <1>3, <1>5 DEF Promise!Output
  <1>6. CASE ~aborted /\ aborted' = TRUE /\ broken' = broken + 1 /\ emitted' = emitted
    BY <1>1, <1>6 DEF Promise!Refuse
  <1> QED  BY <1>2, <1>4, <1>5, <1>6

(* Everything else a worker does is its own affair. *)
LEMMA RestUnseen ==
    ASSUME IInv, NEW w \in Workers, Worker(w), ~List(w), ~Unopened(w), ~Done(w), ~Emit(w)
    PROVE  UNCHANGED <<Outstanding, Opened, emitted, aborted, broken>>
  <1>1. pc[w] \notin {"list", "done"} /\ UNCHANGED <<emitted, aborted, broken>>
    <2> USE DEF queue, history
    <2>1. CASE Begin(w) \/ Loop(w)
      BY <2>1 DEF Begin, Loop
    <2>2. CASE Pop(w)
      BY <2>2 DEF Pop, PopAborted, PopAvail, PopTake, PopLive, Park, ParkLive, ParkWait, PopKeeps
    <2>3. CASE Emitted(w) \/ Note(w) \/ WakeParked(w) \/ Broadcast(w)
      BY <2>3 DEF Emitted, Note, WakeParked, Broadcast
    <2>4. CASE Between(w)
      BY <2>4 DEF Between, Consider, Hire, Donate, KeepAll, Signal, Flush, Tail
    <2> QED  BY <2>1, <2>2, <2>3, <2>4 DEF Worker, Work
  <1> QED  BY <1>1, WhatOpens, WhatCloses DEF IInv

LEMMA WorkerRefines ==
    ASSUME IInv, NEW w \in Workers, Worker(w)
    PROVE  Promise!TraversalNext \/ UNCHANGED Sight
  <1>1. muster # "returned" /\ muster' = muster
    <2>1. pc[w] \notin {"seat", "gone"} /\ muster' = muster
      BY WhoActs DEF IInv
    <2>2. CASE muster = "returned"
      <3>1. closed /\ \A s \in 1 .. joining: s \in Workers => pc[s] = "gone"
        BY <2>2 DEF IInv, Seating
      <3> QED  BY <2>1, <3>1, AllGone DEF IInv
    <2> QED  BY <2>1, <2>2
  <1>2. CASE List(w) \/ Unopened(w)
    BY <1>1, <1>2, OpeningRefines DEF Promise!TraversalNext
  <1>3. CASE Done(w)
    <2>1. /\ Outstanding' = Outstanding \ {task[w]} /\ Opened' = Opened
          /\ task[w] \in Outstanding \cap Opened
      BY <1>3, WhatCloses
    <2>2. UNCHANGED <<emitted, aborted, broken>>
      BY <1>3 DEF Done
    <2>3. task[w] \in Dirs
      BY <2>1, OutstandingFinite DEF IInv
    <2>4. Promise!Close(task[w])
      BY <2>1, <2>2 DEF Promise!Close
    <2> QED  BY <1>1, <2>3, <2>4 DEF Promise!TraversalNext
  <1>4. CASE Emit(w)
    BY <1>1, <1>4, EmittingRefines DEF Promise!TraversalNext, Sight
  <1>5. CASE ~List(w) /\ ~Unopened(w) /\ ~Done(w) /\ ~Emit(w)
    BY <1>1, <1>5, RestUnseen DEF Sight
  <1> QED  BY <1>2, <1>3, <1>4, <1>5

LEMMA ElsewhereRefines ==
    ASSUME IInv, Begun, Elsewhere
    PROVE  Promise!TraversalNext \/ UNCHANGED Sight
  <1>1. UNCHANGED <<Outstanding, Opened>>
    <2>1. \A v \in Workers: Idle(v)
      BY Seated, SameDuty DEF IInv, Idle, Same
    <2>2. UNCHANGED <<items, live, listed>>
      BY DEF Elsewhere, Caller, MusterSpawn, MusterCount, MusterWalk, MusterClose,
             MusterJoin, World, Returned, vars, queue, history
    <2> QED  BY <2>1, <2>2, StillSets DEF Still
  <1>2. UNCHANGED <<emitted, aborted, broken>>
    BY DEF Elsewhere, Caller, MusterSpawn, MusterCount, MusterWalk, MusterClose,
           MusterJoin, World, Returned, vars, queue, history
  <1>3. CASE MusterJoin
    <2>1. muster = "join" /\ muster' = "returned"
      BY <1>3 DEF MusterJoin, Muster
    <2>2. aborted \/ Opened = {} \/ (Outstanding = {} /\ Hits \cap (Opened \ Unlisted) \subseteq emitted)
      <3>1. SUFFICES ASSUME ~aborted, Opened # {}
                     PROVE  Outstanding = {} /\ Hits \cap (Opened \ Unlisted) \subseteq emitted
        OBVIOUS
      <3>2. closed /\ \A s \in 1 .. joining: pc[s] = "gone"
        <4>1. closed
          BY <2>1 DEF IInv, Seating
        <4>2. Smaller(joining, Seats - 1) = joining
          BY SwarmAssumption DEF IInv, Typed, Smaller
        <4> QED  BY <1>3, <4>1, <4>2 DEF MusterJoin
      <3>3. \A v \in Workers: pc[v] \in {"seat", "gone"}
        BY <3>2, AllGone DEF IInv
      <3>4. Worked
        BY <3>1, <3>3 DEF Begun, Worked
      <3> QED  BY <3>1, <3>3, <3>4, NothingLeft
    <2>3. Promise!Return
      BY <1>1, <1>2, <2>1, <2>2 DEF Promise!Return, Promise!Finished
    <2> QED  BY <2>1, <2>3 DEF Promise!TraversalNext
  <1>4. CASE ~MusterJoin
    <2>1. (muster' = "returned") <=> (muster = "returned")
      BY <1>4 DEF Elsewhere, Caller, MusterSpawn, MusterCount, MusterWalk, MusterClose, Muster,
                  World, Returned, vars, crew
    <2> QED  BY <1>1, <1>2, <2>1 DEF Sight
  <1> QED  BY <1>3, <1>4

(* The parallel walk implements Traversal: a directory is opened once and      *)
(* yields its children once, a match is printed once and only once its        *)
(* directory is open, nothing is printed and no write is refused after the    *)
(* first refusal, nothing happens after muster returned, and it returns only  *)
(* when all is done, or cancelled, or no worker ever had its buffer.          *)
THEOREM WalkIsOneTraversal == Spec => WalkIsOne
  <1>1. Init => Promise!TraversalInit
    <2>1. SUFFICES ASSUME Init  PROVE Promise!TraversalInit
      OBVIOUS
    <2>2. UNION {local[w]: w \in Workers} = {} /\ {task[w]: w \in Workers} \ {NoTask} = {}
      BY <2>1 DEF Init
    <2>3. Outstanding = Roots
      BY <2>1, <2>2 DEF Init, Outstanding
    <2>4. Opened = {}
      BY <2>1 DEF Init, Opened, Duty, Emitting
    <2> QED  BY <2>1, <2>3, <2>4 DEF Init, Promise!TraversalInit
  <1>2. IInv /\ Begun /\ [Next]_vars => [Promise!TraversalNext]_(Promise!traversal)
    <2>1. SUFFICES ASSUME IInv, Begun, [Next]_vars
                   PROVE  Promise!TraversalNext \/ UNCHANGED Sight
      BY DEF Sight, Promise!traversal
    <2> QED  BY <2>1, WorkerRefines, ElsewhereRefines DEF Next, Elsewhere
  <1> QED  BY <1>1, <1>2, Inductive, InductiveBegun, PTL DEF Spec, WalkIsOne, Promise!TraversalSpec
=============================================================================
