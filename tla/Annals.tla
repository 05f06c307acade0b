------------------------------- MODULE Annals -------------------------------
(* The change ledger of a resident session (reconcile/annals.zig) as a        *)
(* watcher over one root feeds it (watch/inotify.zig).                        *)
(*                                                                            *)
(* A file's content is a number unique to the change that made it, 0 when     *)
(* there is no file.  What the kernel has queued is a set: the ledger keeps   *)
(* one instant per path and does not depend on the order of deliveries.  A    *)
(* record leaves the queue and is noted in one step, because read_lock hides  *)
(* whatever lies between from every flushSync.                                *)
EXTENDS Integers, FiniteSets

CONSTANTS Files,      \* the searchable files
          Below,      \* those inside a directory that may come and go whole
          Cap,        \* Annals.cap: distinct paths before an eviction
          KernelCap,  \* records the kernel queues before it overflows
          DirMoves,   \* that directory may be renamed in or out
          ClockFails, \* the wall clock may be unreadable as a watcher arms
          MaxChanges, \* bound: changes to the tree in a behaviour
          MaxClock    \* bound: the wall clock's last instant

ASSUME AnnalsAssumption ==
    /\ IsFiniteSet(Files) /\ Below \subseteq Files /\ "dir" \notin Files
    /\ Cap \in Nat \ {0} /\ KernelCap \in Nat /\ {DirMoves, ClockFails} \subseteq BOOLEAN
    /\ MaxChanges \in Nat /\ MaxClock \in Nat \ {0}

VARIABLES
    \* the tree
    clock, changes, corpus,
    \* the kernel's queue, and whether a watcher reads it
    watched, kernel, overflow,
    \* the ledger
    prefix, floor_ns, doubt, blind, stamp, map,
    \* history, read by no guard: the last change of each file, and the files
    \* whose last change was their directory's
    changed, carried

tree == <<clock, changes, corpus, changed, carried>>
queue == <<watched, kernel, overflow>>
ledger == <<prefix, floor_ns, doubt, blind, stamp, map>>
annals == <<tree, queue, ledger>>

Dir == "dir"             \* a record about the directory itself
Unnoted == 0             \* no instant: the clock starts at 1
Unopened == MaxClock + 1 \* the floor of a ledger whose coverage never opened
Instants == 1 .. MaxClock

(***************************************************************************)
(* The tree.  Each change posts its record inside the syscall that made it.  *)
(***************************************************************************)

Post(e) ==
    IF ~watched THEN UNCHANGED queue
    ELSE /\ IF Cardinality(kernel \cup {e}) > KernelCap
            THEN overflow' = TRUE /\ kernel' = kernel
            ELSE kernel' = kernel \cup {e} /\ overflow' = overflow
         /\ UNCHANGED watched

Change(S, e) ==
    /\ changes < MaxChanges
    /\ changes' = changes + 1
    /\ \/ corpus' = [f \in Files |-> IF f \in S THEN changes + 1 ELSE corpus[f]]
       \/ /\ \E f \in S: corpus[f] # 0
          /\ corpus' = [f \in Files |-> IF f \in S THEN 0 ELSE corpus[f]]
    /\ changed' = [f \in Files |-> IF f \in S THEN clock ELSE changed[f]]
    /\ carried' = IF e = Dir THEN carried \cup S ELSE carried \ S
    /\ Post(e)
    /\ UNCHANGED <<clock, ledger>>

ChangeFile == \E f \in Files: Change({f}, f)

(* A directory renamed in or out, or one filled before its watch landed, is   *)
(* a record about the directory: none follows for the files inside.           *)
MoveDir == DirMoves /\ Below # {} /\ Change(Below, Dir)

Tick == clock < MaxClock /\ clock' = clock + 1
        /\ UNCHANGED <<changes, corpus, changed, carried, queue, ledger>>

(***************************************************************************)
(* The ledger.                                                             *)
(***************************************************************************)

(* evictOldest drops all up to the median instant, and covers them up. *)
Noted == {f \in Files: map[f] # Unnoted}
Medians == {t \in {map[f]: f \in Noted}:
               /\ Cardinality({f \in Noted: map[f] < t}) <= Cardinality(Noted) \div 2
               /\ Cardinality({f \in Noted: map[f] <= t}) > Cardinality(Noted) \div 2}
Later(a, b) == IF a > b THEN a ELSE b

(* Mutant: the floor is raised to the evicted instants, not past them. *)
EvictTo(f, cut) ==
    /\ map' = [[g \in Files |-> IF map[g] > cut THEN map[g] ELSE Unnoted] EXCEPT ![f] = clock]
    /\ floor_ns' = Later(floor_ns, cut)

Evict(f, cut) ==
    /\ map' = [[g \in Files |-> IF map[g] > cut THEN map[g] ELSE Unnoted] EXCEPT ![f] = clock]
    /\ floor_ns' = Later(floor_ns, cut + 1)

Poison == doubt' = TRUE /\ stamp' = stamp + 1 /\ UNCHANGED <<map, floor_ns>>

(* note: the stamp counts the change whether or not its path can be kept. *)
Record(f) ==
    /\ stamp' = stamp + 1 /\ UNCHANGED doubt
    /\ \/ doubt /\ UNCHANGED <<map, floor_ns>>
       \/ /\ ~doubt /\ (f \in Noted \/ Cardinality(Noted) < Cap)
          /\ map' = [map EXCEPT ![f] = clock] /\ UNCHANGED floor_ns
       \/ /\ ~doubt /\ f \notin Noted /\ Cardinality(Noted) >= Cap
          /\ \E median \in Medians: Evict(f, median)

(* A failed allocation poisons, which counts the change again.  One that fails *)
(* inside the eviction leaves the path to be added over the cap; nothing reads *)
(* the map of a doubted ledger.                                                *)
RecordFails(f) ==
    /\ ~doubt /\ f \notin Noted
    /\ doubt' = TRUE
    /\ \/ stamp' = stamp + 2 /\ UNCHANGED map
       \/ Cardinality(Noted) >= Cap /\ stamp' = stamp + 2 /\ map' = [map EXCEPT ![f] = clock]
       \/ Cardinality(Noted) >= Cap /\ stamp' = stamp + 3 /\ UNCHANGED map
    /\ UNCHANGED floor_ns

(* Mutant: a doubted ledger stops counting too. *)
NoteStopped(f) ==
    IF ~prefix \/ doubt THEN UNCHANGED <<doubt, stamp, map, floor_ns>>
                        ELSE Record(f) \/ RecordFails(f)

Note(f) ==
    IF ~prefix THEN UNCHANGED <<doubt, stamp, map, floor_ns>>
               ELSE Record(f) \/ RecordFails(f)

(***************************************************************************)
(* The watcher: what each record does to the ledger, and who watches when.  *)
(***************************************************************************)

(* A record that cannot be placed is noteUnattributable: doubt, never silence. *)
DeliverFile ==
    /\ watched
    /\ \E f \in kernel \cap Files:
          /\ kernel' = kernel \ {f}
          /\ Note(f) \/ Poison
    /\ UNCHANGED <<tree, watched, overflow, prefix, blind>>

goBlind == blind' = TRUE /\ Poison

(* A directory reaches the dirty log only; watching what is new in it may fail. *)
DeliverDir ==
    /\ watched /\ Dir \in kernel
    /\ kernel' = kernel \ {Dir}
    /\ goBlind \/ UNCHANGED <<blind, doubt, stamp, map, floor_ns>>
    /\ UNCHANGED <<tree, watched, overflow, prefix>>

DeliverOverflow ==
    /\ watched /\ overflow
    /\ overflow' = FALSE
    /\ goBlind
    /\ UNCHANGED <<tree, watched, kernel, prefix>>

(* Every watch is registered before the clock is read, so a change that        *)
(* predates its watch predates the floor.  Without memory the prefix stays,    *)
(* without a clock the floor does.                                             *)
Arm ==
    /\ ~watched /\ clock < MaxClock
    /\ watched' = TRUE
    /\ prefix' \in {prefix, TRUE}
    /\ clock' = clock + 1
    /\ floor_ns' \in {clock + 1} \cup (IF ClockFails THEN {floor_ns} ELSE {})
    /\ UNCHANGED <<changes, corpus, changed, carried, kernel, overflow, doubt, blind, stamp, map>>

(* Mutant: the stamp stands still over the unwatched window. *)
ShedSilently ==
    /\ watched
    /\ watched' = FALSE /\ kernel' = {} /\ overflow' = FALSE
    /\ UNCHANGED <<tree, ledger>>

(* shed: disarmWatcher lets the ledger lapse, then the queue is closed. *)
Shed ==
    /\ watched
    /\ watched' = FALSE /\ kernel' = {} /\ overflow' = FALSE
    /\ stamp' = stamp + 1
    /\ UNCHANGED <<tree, prefix, floor_ns, doubt, blind, map>>

(***************************************************************************)
(* The two readings.  Each is asked for after a flushSync.                   *)
(***************************************************************************)

Flushed == watched /\ kernel = {} /\ ~overflow
epoch == IF ~prefix \/ blind THEN {} ELSE {stamp}
since(t) == IF ~prefix \/ doubt \/ t < floor_ns THEN {}
            ELSE {{f \in Noted: map[f] >= t}}

AnnalsInit ==
    /\ clock = 1 /\ changes = 0
    /\ corpus = [f \in Files |-> 0] /\ changed = [f \in Files |-> Unnoted]
    /\ carried = {}
    /\ watched = FALSE /\ kernel = {} /\ overflow = FALSE
    /\ prefix = FALSE /\ floor_ns = Unopened /\ doubt = FALSE /\ blind = FALSE
    /\ stamp = 0 /\ map = [f \in Files |-> Unnoted]

Deliver == DeliverFile \/ DeliverDir \/ DeliverOverflow
AnnalsNext == ChangeFile \/ MoveDir \/ Tick \/ Deliver \/ Arm \/ Shed

AnnalsSpec == AnnalsInit /\ [][AnnalsNext]_annals

(***************************************************************************)
(* Properties.                                                             *)
(***************************************************************************)

(* A vouched answer to "which files changed since t?" leaves out no file that *)
(* did, but for those their directory carried in or out: neither eviction,    *)
(* doubt, lost coverage nor a shed window hides one.                          *)
SinceComplete ==
    Flushed => \A t \in Instants: \A answer \in since(t):
                   {f \in Files \ carried: changed[f] >= t} \subseteq answer
=============================================================================
