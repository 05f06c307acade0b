------------------------------- MODULE Swarm -------------------------------
(* The fused parallel walk of the cold runtime (exec/cold/engine/swarm): the *)
(* work-stealing queue of directories, the workers that list and search      *)
(* them, the crew that may widen mid-walk, and the sink all output crosses.  *)
(*                                                                           *)
(* A directory is its name, under the root it was reached from (reached from  *)
(* two, it is two); searching its files is one emit when it holds a match.  A *)
(* worker's private stack and the shared queue are sets: nothing below        *)
(* depends on the order tasks are taken in.  Every access to an atomic        *)
(* outside a lock is a step of its own, and so is whatever happens between   *)
(* the release of a lock and the wake-up that follows it; `mu` (the queue's  *)
(* mutex) is a variable only where it is held across such a step.            *)
EXTENDS Integers, FiniteSets

CONSTANTS Dirs,       \* every directory of the tree
          Roots,      \* the walk's roots
          Children,   \* Children[d]: the directories the walk admits under d
          Hits,       \* the directories holding a matching file
          Unlisted,   \* those that cannot be opened, or not read to their end
          Seats,      \* Crew.ceiling: worker seats, seat 0 the caller's thread
          Start,      \* seats mustered at once
          Loader,     \* an elision oracle is being loaded beside the walk
          PipeCloses, \* the reader may hang up, or the output budget be spent
          Starved     \* the allocation of a worker's read buffer may fail

ASSUME SwarmAssumption ==
    /\ IsFiniteSet(Dirs) /\ Roots \subseteq Dirs /\ Roots # {}
    /\ Hits \subseteq Dirs /\ Unlisted \subseteq Dirs
    /\ Children \in [Dirs -> SUBSET Dirs]
    /\ \A d, e \in Dirs: d # e => Children[d] \cap Children[e] = {}
    /\ \A d \in Dirs: Children[d] \cap Roots = {}
    /\ Seats \in Nat \ {0} /\ Start \in 1 .. Seats
    /\ "none" \notin Dirs
    /\ {Loader, PipeCloses, Starved} \subseteq BOOLEAN

Workers == 0 .. Seats - 1
Nobody == -1

VARIABLES
    \* Queue: tasks, the atomics, the mutex and the sleepers behind it
    items, live, starving, waiting, aborted, walk_error, mu,
    \* Worker: where it is, its stack, the task in hand, what it owes
    pc, local, task, found, out, back, pending,
    \* Crew
    muster, next, running, joining, hired, closed, want,
    \* Sink and the world: output lock, matched count, the reader, the oracle
    smu, matched_files, pipe, ready, old,
    \* history, read by no guard
    listed, emitted, refused, broken

queue == <<items, live, starving, waiting, aborted, walk_error, mu>>
worker == <<local, task, found, out, back, pending>>
crew == <<muster, next, running, joining, hired, closed, want>>
sink == <<smu, matched_files>>
world == <<pipe, ready, old>>
history == <<listed, emitted, refused, broken>>
vars == <<queue, pc, worker, crew, sink, world, history>>

Goto(w, label) == pc' = [pc EXCEPT ![w] = label]
NoTask == "none"

(***************************************************************************)
(* workerMain.                                                             *)
(***************************************************************************)

(* A worker whose read buffer cannot be allocated retires at once. *)
Begin(w) ==
    /\ pc[w] = "start"
    /\ \/ Goto(w, "loop") /\ UNCHANGED refused
       \/ Starved /\ Goto(w, "gone") /\ refused' = refused \cup {w}
    /\ UNCHANGED <<queue, worker, crew, sink, world, listed, emitted, broken>>

(* The top of the loop: the worker's own stack first, then the shared queue. *)
Loop(w) ==
    /\ pc[w] = "loop"
    /\ \/ aborted /\ Goto(w, "tail") /\ UNCHANGED <<local, task, starving>>
       \/ /\ ~aborted
          /\ \E d \in local[w]: /\ local' = [local EXCEPT ![w] = @ \ {d}]
                                /\ task' = [task EXCEPT ![w] = d]
          /\ Goto(w, "list")
          /\ UNCHANGED starving
       \/ /\ ~aborted /\ local[w] = {}
          /\ starving' = starving + 1
          /\ Goto(w, "pop")
          /\ UNCHANGED <<local, task>>
    /\ UNCHANGED <<items, live, waiting, aborted, walk_error, mu, found, out, back,
                   pending, crew, sink, world, history>>

(***************************************************************************)
(* Queue.pop: spin on the atomics, then park.                              *)
(***************************************************************************)

LeavePop(w, label) == starving' = starving - 1 /\ Goto(w, label)
PopKeeps == UNCHANGED <<live, aborted, walk_error, local, found, out, back, pending,
                        crew, sink, world, history>>

PopAborted(w) ==
    /\ pc[w] = "pop"
    /\ IF aborted THEN LeavePop(w, "tail") ELSE Goto(w, "avail") /\ UNCHANGED starving
    /\ UNCHANGED <<items, waiting, mu, task>> /\ PopKeeps

(* Mutant: the last directory in the queue is not seen. *)
PopAvailMore(w) ==
    /\ pc[w] = "avail"
    /\ Goto(w, IF Cardinality(items) > 1 THEN "take" ELSE "live")
    /\ UNCHANGED <<items, starving, waiting, mu, task>> /\ PopKeeps

(* `avail` mirrors the queue's length: it is stored before mu is released. *)
PopAvail(w) ==
    /\ pc[w] = "avail"
    /\ Goto(w, IF items # {} THEN "take" ELSE "live")
    /\ UNCHANGED <<items, starving, waiting, mu, task>> /\ PopKeeps

PopTake(w) ==
    /\ pc[w] = "take" /\ mu = Nobody
    /\ \/ /\ \E d \in items: items' = items \ {d} /\ task' = [task EXCEPT ![w] = d]
          /\ LeavePop(w, "list")
       \/ items = {} /\ Goto(w, "live") /\ UNCHANGED <<items, task, starving>>
    /\ UNCHANGED <<waiting, mu>> /\ PopKeeps

(* Mutant: an empty queue is taken for the end of the walk. *)
PopLiveEager(w) ==
    /\ pc[w] = "live"
    /\ \/ items = {} /\ LeavePop(w, "tail")
       \/ items # {} /\ (Goto(w, "pop") \/ Goto(w, "park")) /\ UNCHANGED starving
    /\ UNCHANGED <<items, waiting, mu, task>> /\ PopKeeps

(* Nothing undone anywhere ends the walk; otherwise spin again, or park. *)
PopLive(w) ==
    /\ pc[w] = "live"
    /\ \/ live = 0 /\ LeavePop(w, "tail")
       \/ live # 0 /\ (Goto(w, "pop") \/ Goto(w, "park")) /\ UNCHANGED starving
    /\ UNCHANGED <<items, waiting, mu, task>> /\ PopKeeps

(* Under mu the predicate is read again, one load at a time. *)
Park(w) ==
    /\ pc[w] \in {"park", "woken"} /\ mu = Nobody
    /\ waiting' = IF pc[w] = "woken" THEN waiting - 1 ELSE waiting
    /\ IF items # {} THEN Goto(w, "pop") /\ UNCHANGED mu
                     ELSE Goto(w, "park_live") /\ mu' = w
    /\ UNCHANGED <<items, starving, task>> /\ PopKeeps

ParkLive(w) ==
    /\ pc[w] = "park_live"
    /\ IF live = 0 THEN Goto(w, "pop") /\ mu' = Nobody
                   ELSE Goto(w, "park_aborted") /\ UNCHANGED mu
    /\ UNCHANGED <<items, starving, waiting, task>> /\ PopKeeps

(* The condition's wait releases mu. *)
ParkWait(w) ==
    /\ pc[w] = "park_aborted"
    /\ mu' = Nobody
    /\ IF aborted THEN Goto(w, "pop") /\ UNCHANGED waiting
                  ELSE Goto(w, "wait") /\ waiting' = waiting + 1
    /\ UNCHANGED <<items, starving, task>> /\ PopKeeps

Pop(w) == PopAborted(w) \/ PopAvail(w) \/ PopTake(w) \/ PopLive(w)
          \/ Park(w) \/ ParkLive(w) \/ ParkWait(w)

(* The condition's sleepers; whoever is woken must take mu again. *)
Sleepers == {w \in Workers: pc[w] = "wait"}
Wake(S, w, label) ==
    pc' = [v \in Workers |-> IF v = w THEN label ELSE IF v \in S THEN "woken" ELSE pc[v]]

(***************************************************************************)
(* processDir: list, admit, search, and account before `done`.             *)
(***************************************************************************)

(* A directory that will not open is a walk error and yields nothing.        *)
Unopened(w) ==
    /\ pc[w] = "list" /\ task[w] \in Unlisted
    /\ walk_error' = TRUE
    /\ Goto(w, "done")
    /\ UNCHANGED <<items, live, starving, waiting, aborted, mu, worker, crew, sink, world,
                   history>>

(* handleEntry over what was read: directories onto the worker's own stack, a *)
(* match out, or held back while the oracle is still loading.                 *)
Admit(w, kids, hit) ==
    /\ local' = [local EXCEPT ![w] = @ \cup kids]
    /\ found' = [found EXCEPT ![w] = Cardinality(kids)]
    /\ IF Loader /\ ~ready
       THEN pending' = [pending EXCEPT ![w] = @ \cup hit] /\ UNCHANGED out
       ELSE out' = [out EXCEPT ![w] = hit] /\ UNCHANGED pending

(* One whose iteration breaks off is a walk error too, but what was read of   *)
(* it counts.                                                                 *)
List(w) ==
    /\ pc[w] = "list"
    /\ \E kids \in SUBSET Children[task[w]], hit \in SUBSET ({task[w]} \cap Hits):
          /\ \/ kids = Children[task[w]] /\ hit = {task[w]} \cap Hits
             \/ task[w] \in Unlisted
          /\ Admit(w, kids, hit)
    /\ walk_error' = (walk_error \/ task[w] \in Unlisted)
    /\ back' = [back EXCEPT ![w] = "note"]
    /\ Goto(w, "emit")
    /\ UNCHANGED <<items, live, starving, waiting, aborted, mu, task, crew, sink, world,
                   history>>

(* Mutant: fragments keep coming after the walk was cancelled. *)
EmitUnchecked(w) ==
    /\ pc[w] = "emit" /\ out[w] # {} /\ smu = Nobody
    /\ \E d \in out[w]:
          /\ out' = [out EXCEPT ![w] = @ \ {d}]
          /\ matched_files' = matched_files + 1
          /\ IF pipe THEN emitted' = emitted \cup {d} /\ UNCHANGED <<pc, aborted, smu, broken>>
             ELSE /\ aborted' = TRUE /\ broken' = broken + 1 /\ smu' = w
                  /\ Goto(w, "abort") /\ UNCHANGED emitted
    /\ UNCHANGED <<items, live, starving, waiting, walk_error, mu, local, task, found, back,
                   pending, crew, world, listed, refused>>

(* Sink.emit, under the sink's lock: a refused write cancels the walk. *)
Emit(w) ==
    /\ pc[w] = "emit" /\ out[w] # {} /\ smu = Nobody
    /\ \E d \in out[w]:
          /\ out' = [out EXCEPT ![w] = @ \ {d}]
          /\ IF aborted
             THEN UNCHANGED <<pc, aborted, sink, emitted, broken>>
             ELSE /\ matched_files' = matched_files + 1
                  /\ IF pipe
                     THEN emitted' = emitted \cup {d} /\ UNCHANGED <<pc, aborted, smu, broken>>
                     ELSE /\ aborted' = TRUE /\ broken' = broken + 1 /\ smu' = w
                          /\ Goto(w, "abort") /\ UNCHANGED emitted
    /\ UNCHANGED <<items, live, starving, waiting, walk_error, mu, local, task, found, back,
                   pending, crew, world, listed, refused>>

Emitted(w) ==
    /\ pc[w] = "emit" /\ out[w] = {}
    /\ Goto(w, back[w])
    /\ UNCHANGED <<queue, worker, crew, sink, world, history>>

(* Queue.noteDiscovered. *)
Note(w) ==
    /\ pc[w] = "note"
    /\ live' = live + found[w]
    /\ found' = [found EXCEPT ![w] = 0]
    /\ Goto(w, "done")
    /\ UNCHANGED <<items, starving, waiting, aborted, walk_error, mu, local, task, out, back,
                   pending, crew, sink, world, history>>

(* Mutant: every directory is counted off twice. *)
DoneTwice(w) ==
    /\ pc[w] = "done"
    /\ live' = live - 2
    /\ listed' = listed \cup {task[w]}
    /\ task' = [task EXCEPT ![w] = NoTask]
    /\ Goto(w, IF live = 1 THEN "last" ELSE "consider")
    /\ UNCHANGED <<items, starving, waiting, aborted, walk_error, mu, local, found, out, back,
                   pending, crew, sink, world, emitted, refused, broken>>

(* Queue.done: the last task's end must reach whoever is parked. *)
Done(w) ==
    /\ pc[w] = "done"
    /\ live' = live - 1
    /\ listed' = listed \cup {task[w]}
    /\ task' = [task EXCEPT ![w] = NoTask]
    /\ Goto(w, IF live = 1 THEN "last" ELSE "consider")
    /\ UNCHANGED <<items, starving, waiting, aborted, walk_error, mu, local, found, out, back,
                   pending, crew, sink, world, emitted, refused, broken>>

(* wakeParked: `waiting` is read under mu, the broadcast follows outside it.  *)
(* The sink's lock is held throughout when it is an abort.                   *)
AfterWake(w) == IF smu = w THEN "emit" ELSE "consider"

WakeParked(w) ==
    /\ pc[w] \in {"abort", "last"} /\ mu = Nobody
    /\ Goto(w, IF waiting = 0 THEN AfterWake(w) ELSE "cast")
    /\ smu' = IF waiting = 0 /\ smu = w THEN Nobody ELSE smu
    /\ UNCHANGED <<queue, worker, crew, matched_files, world, history>>

Broadcast(w) ==
    /\ pc[w] = "cast"
    /\ Wake(Sleepers, w, AfterWake(w))
    /\ smu' = IF smu = w THEN Nobody ELSE smu
    /\ UNCHANGED <<queue, worker, crew, matched_files, world, history>>

(***************************************************************************)
(* Between two directories: hire, donate, flush what was held back.        *)
(***************************************************************************)

Smaller(a, b) == IF a < b THEN a ELSE b

Consider(w) ==
    /\ pc[w] = "consider"
    /\ IF hired < Seats /\ live >= hired * 2 /\ old
       THEN want' = [want EXCEPT ![w] = Smaller(Seats, live \div 2)] /\ Goto(w, "hire")
       ELSE UNCHANGED want /\ Goto(w, "donate")
    /\ UNCHANGED <<queue, worker, muster, next, running, joining, hired, closed, sink, world, history>>

(* The seats a thread is spawned on. *)
Started(S, s) == IF s \in S THEN "start" ELSE pc[s]

(* Mutant: a roster that is closed is hired onto all the same. *)
HireClosed(w) ==
    /\ pc[w] = "hire"
    /\ \E last \in {running} \cup (running + 1 .. Smaller(want[w], Seats) - 1):
          /\ running' = last
          /\ hired' = IF last > running THEN last + 1 ELSE hired
          /\ pc' = [s \in Workers |->
                       IF s = w THEN "donate" ELSE Started(running + 1 .. last, s)]
    /\ UNCHANGED <<queue, worker, muster, next, joining, closed, want, sink, world,
                   listed, emitted, refused, broken>>

(* hire, under the crew's lock.  The spawn that fails ends it. *)
Hire(w) ==
    /\ pc[w] = "hire"
    /\ \E last \in {running} \cup (running + 1 .. Smaller(want[w], Seats) - 1):
          /\ closed => last = running
          /\ running' = last
          /\ hired' = IF last > running THEN last + 1 ELSE hired
          /\ pc' = [s \in Workers |->
                       IF s = w THEN "donate" ELSE Started(running + 1 .. last, s)]
    /\ UNCHANGED <<queue, worker, muster, next, joining, closed, want, sink, world,
                   listed, emitted, refused, broken>>

(* Half the stack goes to the queue when a peer is hunting; as many sleepers *)
(* are woken as there are tasks for them.                                    *)
Donate(w) ==
    /\ pc[w] = "donate" /\ Cardinality(local[w]) > 1 /\ starving > 0 /\ mu = Nobody
    /\ \E G \in SUBSET local[w]:
          /\ Cardinality(G) = Cardinality(local[w]) \div 2
          /\ items' = items \cup G
          /\ local' = [local EXCEPT ![w] = @ \ G]
          /\ Goto(w, CASE Smaller(Cardinality(G), waiting) = 0 -> "flush"
                       [] Smaller(Cardinality(G), waiting) = 1 -> "signal"
                       [] OTHER -> "signal_all")
    /\ UNCHANGED <<live, starving, waiting, aborted, walk_error, mu, task, found, out, back,
                   pending, crew, sink, world, history>>

KeepAll(w) ==
    /\ pc[w] = "donate" /\ (Cardinality(local[w]) <= 1 \/ starving = 0)
    /\ Goto(w, "flush")
    /\ UNCHANGED <<queue, worker, crew, sink, world, history>>

Signal(w) ==
    /\ \/ pc[w] = "signal" /\ \E v \in Sleepers: Wake({v}, w, "flush")
       \/ pc[w] = "signal" /\ Sleepers = {} /\ Goto(w, "flush")
       \/ pc[w] = "signal_all" /\ Wake(Sleepers, w, "flush")
    /\ UNCHANGED <<queue, worker, crew, sink, world, history>>

(* flushPending: between directories only once the oracle is there, at the   *)
(* end of the walk in any case, unless the walk was cancelled.               *)
Release(w, label) ==
    /\ out' = [out EXCEPT ![w] = pending[w]]
    /\ pending' = [pending EXCEPT ![w] = {}]
    /\ back' = [back EXCEPT ![w] = label]
    /\ Goto(w, "emit")

Flush(w) ==
    /\ pc[w] = "flush"
    /\ IF ready THEN Release(w, "loop") ELSE Goto(w, "loop") /\ UNCHANGED <<out, pending, back>>
    /\ UNCHANGED <<queue, local, task, found, crew, sink, world, history>>

(* Mutant: what is still held back when the walk ends is forgotten. *)
TailForgets(w) ==
    /\ pc[w] = "tail"
    /\ IF ~aborted /\ ready THEN Release(w, "gone") ELSE Goto(w, "gone") /\ UNCHANGED <<out, pending, back>>
    /\ UNCHANGED <<queue, local, task, found, crew, sink, world, history>>

Tail(w) ==
    /\ pc[w] = "tail"
    /\ IF ~aborted THEN Release(w, "gone") ELSE Goto(w, "gone") /\ UNCHANGED <<out, pending, back>>
    /\ UNCHANGED <<queue, local, task, found, crew, sink, world, history>>

(***************************************************************************)
(* Crew.muster, on the caller's thread.                                    *)
(***************************************************************************)

Muster(from, to) == muster = from /\ muster' = to

(* The thread is spawned into slot `running`, which is counted afterwards. *)
MusterSpawn ==
    /\ \/ /\ next < Start
          /\ Muster("spawn", "count")
          /\ pc' = [s \in Workers |-> Started({next}, s)]
       \/ Muster("spawn", "hired") /\ UNCHANGED pc
    /\ UNCHANGED <<queue, worker, next, running, joining, hired, closed, want, sink, world,
                   listed, emitted, refused, broken>>

MusterCount ==
    /\ Muster("count", "spawn")
    /\ running' = running + 1 /\ next' = next + 1
    /\ UNCHANGED <<queue, pc, worker, joining, hired, closed, want, sink, world, history>>

(* The caller's thread becomes worker 0. *)
MusterWalk ==
    /\ Muster("hired", "walk")
    /\ hired' = running + 1
    /\ Goto(0, "start")
    /\ UNCHANGED <<queue, worker, next, running, joining, closed, want, sink, world, history>>

(* The roster closes, and its length at that moment is what will be joined. *)
MusterClose ==
    /\ pc[0] = "gone"
    /\ Muster("walk", "join")
    /\ closed' = TRUE /\ joining' = running
    /\ UNCHANGED <<queue, pc, worker, next, running, hired, want, sink, world, history>>

MusterJoin ==
    /\ \A s \in 1 .. Smaller(joining, Seats - 1): pc[s] = "gone"
    /\ Muster("join", "returned")
    /\ UNCHANGED <<queue, pc, worker, next, running, joining, hired, closed, want, sink, world, history>>

(***************************************************************************)
(* The world beside the walk, and the specification.                       *)
(***************************************************************************)

ClosePipe == PipeCloses /\ pipe /\ pipe' = FALSE /\ UNCHANGED <<ready, old>>
OracleReady == Loader /\ ~ready /\ ready' = TRUE /\ UNCHANGED <<pipe, old>>
(* Half a second: longer than muster takes to spawn.  (Were it not, a hire and *)
(* the spawn loop could take the same seat: nothing in the code forbids that.) *)
PatienceSpent == /\ ~old /\ muster \in {"walk", "join"}
                 /\ old' = TRUE /\ UNCHANGED <<pipe, ready>>
World == /\ ClosePipe \/ OracleReady \/ PatienceSpent
         /\ UNCHANGED <<queue, pc, worker, crew, sink, history>>

Init ==
    /\ items = Roots /\ live = Cardinality(Roots)
    /\ starving = 0 /\ waiting = 0 /\ aborted = FALSE /\ walk_error = FALSE /\ mu = Nobody
    /\ pc = [w \in Workers |-> "seat"]
    /\ local = [w \in Workers |-> {}] /\ task = [w \in Workers |-> NoTask]
    /\ found = [w \in Workers |-> 0] /\ out = [w \in Workers |-> {}]
    /\ back = [w \in Workers |-> "note"] /\ pending = [w \in Workers |-> {}]
    /\ muster = "spawn" /\ next = 1 /\ running = 0 /\ joining = 0 /\ hired = 1 /\ closed = FALSE
    /\ want = [w \in Workers |-> 0]
    /\ smu = Nobody /\ matched_files = 0
    /\ pipe = TRUE /\ ready = FALSE /\ old = FALSE
    /\ listed = {} /\ emitted = {} /\ refused = {} /\ broken = 0

Work(w) == Unopened(w) \/ List(w) \/ Emit(w) \/ Emitted(w) \/ Note(w) \/ Done(w)
           \/ WakeParked(w) \/ Broadcast(w)
Between(w) == Consider(w) \/ Hire(w) \/ Donate(w) \/ KeepAll(w) \/ Signal(w)
              \/ Flush(w) \/ Tail(w)
Worker(w) == Begin(w) \/ Loop(w) \/ Pop(w) \/ Work(w) \/ Between(w)
Caller == MusterSpawn \/ MusterCount \/ MusterWalk \/ MusterClose \/ MusterJoin

(* The walk is over; the process goes on to report it and exit. *)
Returned == muster = "returned" /\ UNCHANGED vars

Next == Caller \/ World \/ Returned \/ \E w \in Workers: Worker(w)

Spec == Init /\ [][Next]_vars

(* Every thread is scheduled. *)
FairSpec == Spec /\ WF_vars(Caller) /\ \A w \in Workers: WF_vars(Worker(w))

(***************************************************************************)
(* Properties.                                                             *)
(***************************************************************************)

Labels == {"seat", "start", "loop", "pop", "avail", "take", "live", "park", "park_live",
           "park_aborted", "wait", "woken", "list", "emit", "note", "done", "abort", "last",
           "cast", "consider", "hire", "donate", "signal", "signal_all", "flush", "tail",
           "gone"}

TypeOK ==
    /\ items \subseteq Dirs /\ live \in 0 .. Cardinality(Dirs)
    /\ starving \in 0 .. Seats /\ waiting \in 0 .. Seats
    /\ {aborted, walk_error, closed, pipe, ready, old} \subseteq BOOLEAN
    /\ {mu, smu} \subseteq Workers \cup {Nobody}
    /\ pc \in [Workers -> Labels]
    /\ local \in [Workers -> SUBSET Dirs] /\ task \in [Workers -> Dirs \cup {NoTask}]
    /\ found \in [Workers -> Nat]
    /\ out \in [Workers -> SUBSET Hits] /\ pending \in [Workers -> SUBSET Hits]
    /\ back \in [Workers -> {"note", "loop", "gone"}]
    /\ muster \in {"spawn", "count", "hired", "walk", "join", "returned"}
    /\ next \in 1 .. Seats /\ {running, joining} \subseteq 0 .. Seats - 1 /\ hired \in 1 .. Seats
    /\ want \in [Workers -> 0 .. Seats]
    /\ matched_files \in Nat /\ broken \in Nat
    /\ listed \subseteq Dirs /\ emitted \subseteq Hits /\ refused \subseteq Workers

Outstanding == items \cup (UNION {local[w]: w \in Workers})
               \cup ({task[w]: w \in Workers} \ {NoTask})

(* Nobody quits early: a worker that leaves a walk nobody cancelled does so   *)
(* because no directory is queued, stacked or being listed anywhere, however  *)
(* the counter, the donations and the other workers' listings interleaved.    *)
LeaveMeansDone ==
    ~aborted => \A w \in Workers \ refused: pc[w] \in {"tail", "gone"} => Outstanding = {}

Worked == \E w \in Workers \ refused: pc[w] = "gone"
Visited == Roots \cup UNION {Children[d]: d \in listed \ Unlisted} \subseteq listed

(* A walk that ran to its end has listed every directory it admitted, and has *)
(* printed and counted every match exactly once, the held back ones too.      *)
WalkComplete ==
    muster = "returned" /\ ~aborted /\ Worked =>
        /\ Visited
        /\ Hits \cap (listed \ Unlisted) \subseteq emitted
        /\ matched_files = Cardinality(emitted)

(* Once a write has been refused no other write is ever tried, by any worker. *)
OneBrokenWrite == broken <= 1

(* When muster returns no thread of the walk is still running: a late hire    *)
(* either was joined or was never made.                                       *)
JoinedAll == muster = "returned" => \A w \in Workers: pc[w] \in {"seat", "gone"}

(* Writing out: at it, or cancelling the walk from within it. *)
Emitting(w) == pc[w] \in {"emit", "abort"} \/ (pc[w] = "cast" /\ smu = w)

(* What a worker has yet to do for the directory in its hand: list it, count   *)
(* what it found in it, or count the directory itself off.                    *)
Duty(w) == IF pc[w] = "list" THEN "list"
           ELSE IF pc[w] = "note" \/ (Emitting(w) /\ back[w] = "note") THEN "owing"
           ELSE IF pc[w] = "done" THEN "done" ELSE "none"

Opened == listed \cup {task[w]: w \in {v \in Workers: Duty(v) \in {"owing", "done"}}}

Promise == INSTANCE Traversal WITH
    todo <- Outstanding, opened <- Opened, printed <- emitted,
    cancelled <- aborted, refusals <- broken, over <- (muster = "returned")

(* To whoever started it, the parallel walk is one traversal: each step of a   *)
(* worker opens one directory, is done with one, prints one match, is refused *)
(* one write, ends the walk, or changes nothing that can be seen.             *)
WalkIsOne == Promise!TraversalSpec

(* The walk always comes to an end: no wake-up is lost between the last       *)
(* directory (or a cancellation, or a donation) and the workers parked on it. *)
Terminates == <>(muster = "returned")
=============================================================================
