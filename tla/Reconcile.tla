----------------------------- MODULE Reconcile -----------------------------
(* The read-your-writes barrier of a resident session: the live tree, the    *)
(* watcher that reports on it, the dirty log, and the queries that bring the *)
(* mirror current before they answer from it (reconcile.zig, dirty.zig,      *)
(* delta.zig, overlay.zig, resident.zig, watch.zig, inotify.zig).            *)
(*                                                                           *)
(* The data is what the barrier can tell apart: a file's content is a number *)
(* unique to the write that made it, 0 when there is no file; its clock is   *)
(* the later of its mtime and ctime.  base + overlay collapse into `mirror`, *)
(* whose 0 is a tombstone or a path never read.  Two directories stand for   *)
(* the tree: a served root, and one directory below it.  The seqlock is      *)
(* taken at its promise here (an event after `enter` forbids `clean`); what  *)
(* it keeps of that promise is module Seqlock's subject.                     *)
EXTENDS Integers, FiniteSets

CONSTANTS Files,        \* the searchable files
          Below,        \* those of them that live below the root's own level
          Queries,      \* concurrent queries
          Exact,        \* whether the roots let a backend promise exact paths: a set
          LogCap,       \* DirtyLog.cap: distinct paths before doubt
          KernelCap,    \* events the kernel queues before it overflows
          AllocFails,   \* an allocation may fail while paths are scoped
          MaxChanges,   \* bound: changes to the tree in a behaviour
          MaxClock      \* bound: the wall clock's last instant

Root == "root"      \* a served root: an event on it cannot be scoped
Sub == "sub"        \* the directory below it
Rules == "rules"    \* an ignore source, which decides who is in the walk set
Paths == Files \cup {Root, Sub, Rules}
EmptyLog == [set |-> {}, doubt |-> FALSE, exact |-> FALSE]
Unlisted == [f \in Files |-> -1]
Unasked == [f \in Files |-> {}]
Nobody == "nobody"
Loop == "loop"      \* the watcher's own thread

ASSUME ConstantsAssumption ==
    /\ IsFiniteSet(Files) /\ Below \subseteq Files
    /\ Files \cap {Root, Sub, Rules} = {} /\ Queries \cap {Nobody, Loop} = {}
    /\ Exact \subseteq BOOLEAN /\ AllocFails \in BOOLEAN
    /\ LogCap \in Nat /\ KernelCap \in Nat /\ MaxChanges \in Nat /\ MaxClock \in Nat \ {0}

VARIABLES
    \* the tree and the clock
    clock, changes, disk, stamp, hidden,
    exact,  \* the roots are case sensitive, as exact paths need
    \* the kernel's event queue and whoever drains it, under read_lock
    armed, kernel, overflow, reader, noted,
    \* the session: dirty log, seqlock, mirror, cursor
    log, clean, poison, mirror, fresh_ns, full_pass_done, rebuilt,
    \* the queries, and the locals of the one that holds the write lease
    pc, raced, now, batch, todo, gones, listing,
    \* history, read by no guard: the instants of each file since a query
    \* arrived, and the files the mirror has passed over until it reads them
    since, overtaken, dropped, returned

tree == <<clock, changes, disk, stamp, hidden, exact>>
queue == <<armed, kernel, overflow, reader, noted>>
witness == <<clean, poison, raced>>
session == <<mirror, fresh_ns, full_pass_done, rebuilt>>
pass == <<now, batch, todo, gones, listing>>
passed == <<overtaken, dropped, returned>>
history == <<since, passed>>
vars == <<tree, queue, log, witness, session, pc, pass, history>>

(***************************************************************************)
(* The tree.  What the certified walk would admit right now is disk less    *)
(* what the ignore rules hide.                                              *)
(***************************************************************************)

InWalk(d, h, f) == IF f \in h THEN 0 ELSE d[f]
Live(f) == InWalk(disk, hidden, f)
Absent == 0
Shown == -1
(* What an instant allows an answer to say of f: the content on disk, and     *)
(* whether f was in the walk set then or not.                                *)
Instant(d, h, f) == {d[f], IF InWalk(d, h, f) # 0 THEN Shown ELSE Absent}
Parent(f) == IF f \in Below THEN Sub ELSE Root

(* Each backend posts its event inside the syscall that caused it. *)
Post(paths) ==
    IF armed /\ Cardinality(kernel \cup paths) > KernelCap
    THEN overflow' = TRUE /\ kernel' = kernel
    ELSE kernel' = (IF armed THEN kernel \cup paths ELSE kernel) /\ overflow' = overflow

Change(paths) ==
    /\ changes < MaxChanges
    /\ changes' = changes + 1
    /\ Post(paths)
    /\ since' = [q \in Queries |->
                   IF pc[q] = "idle" THEN since[q]
                   ELSE [f \in Files |-> since[q][f] \cup Instant(disk', hidden', f)]]
    /\ UNCHANGED <<clock, exact, armed, reader, noted, log, witness, session, pc, pass,
                   passed>>

Write(f, content) ==
    /\ disk' = [disk EXCEPT ![f] = content]
    /\ stamp' = [stamp EXCEPT ![f] = clock]
    /\ UNCHANGED hidden

Edit(f) == disk[f] # 0 /\ Write(f, changes + 2) /\ Change({f})
Create(f) == disk[f] = 0 /\ Write(f, changes + 2) /\ Change({f, Parent(f)})
Delete(f) == disk[f] # 0 /\ Write(f, 0) /\ Change({f, Parent(f)})
EditRules(f) == /\ hidden' = (hidden \ {f}) \cup ({f} \ hidden)
                /\ UNCHANGED <<disk, stamp>>
                /\ Change({Rules})

Tick == /\ clock < MaxClock
        /\ clock' = clock + 1
        /\ UNCHANGED <<changes, disk, stamp, hidden, exact, queue, log, witness, session,
                       pc, pass, history>>

(***************************************************************************)
(* The watcher: every note precedes the batch's one trailing markDirty, and *)
(* read_lock keeps a batch whole between the loop and a flushSync.          *)
(***************************************************************************)

(* Mutant: the log grows without bound. *)
NoteUncapped(p) == IF log.doubt THEN log ELSE [log EXCEPT !.set = @ \cup {p}]

Note(p) ==
    IF log.doubt \/ p \in log.set THEN log
    ELSE IF Cardinality(log.set) >= LogCap THEN [log EXCEPT !.doubt = TRUE]
    ELSE [log EXCEPT !.set = @ \cup {p}]

MarkDirty == clean' = FALSE /\ raced' = TRUE

LoopDrain ==
    /\ armed /\ reader = Nobody
    /\ kernel # {} \/ overflow
    /\ reader' = Loop
    /\ UNCHANGED <<tree, armed, kernel, overflow, noted, log, witness, session, pc,
                   pass, history>>

NoteRecord ==
    /\ reader # Nobody
    /\ \E p \in kernel: kernel' = kernel \ {p} /\ log' = Note(p)
    /\ noted' = TRUE
    /\ UNCHANGED <<tree, armed, overflow, reader, witness, session, pc, pass, history>>

(* A queue overflow is markDoubtForever: events were lost. *)
NoteOverflow ==
    /\ reader # Nobody /\ overflow
    /\ overflow' = FALSE
    /\ noted' = TRUE
    /\ poison' = TRUE /\ MarkDirty
    /\ UNCHANGED <<tree, armed, kernel, reader, log, session, pc, pass, history>>

DrainDone ==
    /\ reader # Nobody /\ kernel = {} /\ ~overflow
    /\ IF noted THEN MarkDirty ELSE UNCHANGED <<clean, raced>>
    /\ noted' = FALSE
    /\ pc' = [q \in Queries |-> IF q = reader THEN "check" ELSE pc[q]]
    /\ reader' = Nobody
    /\ UNCHANGED <<tree, armed, kernel, overflow, log, poison, session, pass, history>>

(* start and shed run only with no query in flight. *)
Quiescent == reader = Nobody /\ \A q \in Queries: pc[q] = "idle"

armWatcher ==
    /\ Quiescent /\ ~armed
    /\ armed' = TRUE
    /\ clean' = FALSE
    /\ log' = [log EXCEPT !.exact = exact]
    /\ UNCHANGED <<tree, kernel, overflow, reader, noted, poison, raced, session,
                   pc, pass, history>>

disarmWatcher ==
    /\ Quiescent /\ armed
    /\ armed' = FALSE /\ kernel' = {} /\ overflow' = FALSE
    /\ clean' = FALSE
    /\ log' = [log EXCEPT !.exact = FALSE]
    /\ full_pass_done' = FALSE
    /\ UNCHANGED <<tree, reader, noted, poison, raced, mirror, fresh_ns, rebuilt, pc,
                   pass, history>>

(***************************************************************************)
(* One query: flushSync, the read lease, and on a miss the barrier under    *)
(* the write lease, then a downgrade back to reading (Ward.readReconciled). *)
(***************************************************************************)

Writing == {"gate", "load", "enter", "drain", "scoped", "walk", "visit", "commit"}
Labels == {"idle", "flush", "flushing", "check", "upgrade", "downgrade", "answer"}
          \cup Writing
WriteFree == \A q \in Queries: pc[q] \notin Writing
ReadFree == \A q \in Queries: pc[q] # "answer"
Goto(q, label) == pc' = [pc EXCEPT ![q] = label]

eligible == armed /\ ~poison
skip == eligible /\ clean

Arrive(q) ==
    /\ pc[q] = "idle"
    /\ Goto(q, "flush")
    /\ since' = [since EXCEPT ![q] = [f \in Files |-> Instant(disk, hidden, f)]]
    /\ UNCHANGED <<tree, queue, log, witness, session, pass, passed>>

(* Mutant: a flush returns while the loop still holds an unmarked batch. *)
FlushUnlocked(q) ==
    /\ pc[q] = "flush"
    /\ IF armed /\ reader = Nobody
       THEN reader' = q /\ Goto(q, "flushing")
       ELSE reader' = reader /\ Goto(q, "check")
    /\ UNCHANGED <<tree, armed, kernel, overflow, noted, log, witness, session, pass,
                   history>>

(* flushSync: nothing to drain when unarmed, else one consumer at a time. *)
Flush(q) ==
    /\ pc[q] = "flush"
    /\ IF armed
       THEN reader = Nobody /\ reader' = q /\ Goto(q, "flushing")
       ELSE reader' = reader /\ Goto(q, "check")
    /\ UNCHANGED <<tree, armed, kernel, overflow, noted, log, witness, session, pass,
                   history>>

Check(q) ==
    /\ pc[q] = "check" /\ WriteFree
    /\ Goto(q, IF skip THEN "answer" ELSE "upgrade")
    /\ UNCHANGED <<tree, queue, log, witness, session, pass, history>>

Upgrade(q) ==
    /\ pc[q] = "upgrade" /\ WriteFree /\ ReadFree
    /\ Goto(q, "gate")
    /\ UNCHANGED <<tree, queue, log, witness, session, pass, history>>

Gate(q) ==
    /\ pc[q] = "gate"
    /\ Goto(q, IF rebuilt THEN "load" ELSE IF skip THEN "downgrade" ELSE "enter")
    /\ now' = IF rebuilt THEN clock ELSE now
    /\ UNCHANGED <<tree, queue, log, witness, session, batch, todo, gones, listing,
                   history>>

(* Snapshot the event counter, then the clock, before anything is drained. *)
Enter(q) ==
    /\ pc[q] = "enter"
    /\ raced' = FALSE
    /\ now' = clock
    /\ Goto(q, "drain")
    /\ UNCHANGED <<tree, queue, log, clean, poison, session, batch, todo, gones,
                   listing, history>>

(* Mutant: the scoped route opens without a covering full pass. *)
ScopedEligibleUncovered == eligible /\ log.exact /\ ~log.doubt

ScopedEligible == eligible /\ full_pass_done /\ log.exact /\ ~log.doubt

Drain(q) ==
    /\ pc[q] = "drain"
    /\ batch' = log
    /\ log' = [set |-> {}, doubt |-> FALSE, exact |-> log.exact]
    /\ todo' = log.set
    /\ gones' = {}
    /\ listing' = Unlisted
    /\ Goto(q, IF ScopedEligible THEN "scoped" ELSE "walk")
    /\ UNCHANGED <<tree, queue, witness, session, now, history>>

(* one: a path not held is read; a held one is re-read only when its clock    *)
(* has reached the cursor.  The read takes what is on disk by then.           *)
NeedsRead(f, clk) == mirror[f] = 0 \/ clk >= fresh_ns

Settle(S) == /\ overtaken' = overtaken \ S
             /\ dropped' = dropped \ S
             /\ returned' = returned \ S

ReadInto(S) == /\ mirror' = [f \in Files |-> IF f \in S THEN disk[f] ELSE mirror[f]]
               /\ Settle(S)

(* delta.resolve, for each drained path; the directory and the vanished paths *)
(* are settled once every file has been.                                      *)
ScopedOne(q) ==
    /\ pc[q] = "scoped"
    /\ \E p \in todo \ {Sub}:
          /\ todo' = todo \ {p}
          /\ IF p \in {Root, Rules}
             THEN Goto(q, "walk") /\ UNCHANGED <<mirror, gones, passed>>
             ELSE /\ pc' = pc
                  /\ IF Live(p) # 0
                     THEN /\ ReadInto(IF NeedsRead(p, stamp[p]) THEN {p} ELSE {})
                          /\ gones' = gones
                     ELSE gones' = gones \cup {p} /\ UNCHANGED <<mirror, passed>>
    /\ UNCHANGED <<tree, queue, log, witness, fresh_ns, full_pass_done, rebuilt, now, batch,
                   listing, since>>

(* applySubtree then applyGones: what the walk admits is refreshed, and every *)
(* key in scope that is no longer current is tombstoned.  A path that was gone *)
(* when it was resolved and is back by now is left as the mirror had it.       *)
ScopedEnd(q) ==
    /\ pc[q] = "scoped" /\ todo \subseteq {Sub}
    /\ LET walked == IF Sub \in todo THEN Below ELSE {}
           reread == {f \in walked: Live(f) # 0 /\ NeedsRead(f, stamp[f])}
           vanished == {f \in gones \cup walked: Live(f) = 0}
       IN  /\ mirror' = [f \in Files |-> IF f \in reread THEN disk[f]
                                        ELSE IF f \in vanished THEN 0 ELSE mirror[f]]
           /\ overtaken' = overtaken \ (reread \cup vanished)
           /\ dropped' = dropped \ (reread \cup vanished)
           /\ returned' = (returned \ (reread \cup vanished))
                  \cup {f \in gones \ walked: Live(f) # 0 /\ mirror[f] \notin {0, disk[f]}}
    /\ Goto(q, "commit")
    /\ UNCHANGED <<tree, queue, log, witness, fresh_ns, full_pass_done, rebuilt, now, batch,
                   todo, gones, listing, since>>

(* full: the walk lists the whole set with its clocks; each listed path is    *)
(* folded in by those clocks; then whatever was not listed is tombstoned.     *)
FullWalk(q) ==
    /\ pc[q] = "walk"
    /\ listing' = [f \in Files |-> IF Live(f) # 0 THEN stamp[f] ELSE -1]
    /\ todo' = {f \in Files: Live(f) # 0}
    /\ Goto(q, "visit")
    /\ UNCHANGED <<tree, queue, log, witness, session, now, batch, gones, history>>

FullOne(q) ==
    /\ pc[q] = "visit"
    /\ \E f \in todo: /\ ReadInto(IF NeedsRead(f, listing[f]) THEN {f} ELSE {})
                       /\ todo' = todo \ {f}
    /\ UNCHANGED <<tree, queue, log, witness, fresh_ns, full_pass_done, rebuilt, pc, now, batch,
                   gones, listing, since>>

FullEnd(q) ==
    /\ pc[q] = "visit" /\ todo = {}
    /\ mirror' = [f \in Files |-> IF listing[f] = -1 THEN 0 ELSE mirror[f]]
    /\ full_pass_done' = (full_pass_done \/ armed)
    /\ overtaken' = {f \in overtaken: listing[f] # -1}
    /\ dropped' = {} /\ returned' = {}
    /\ Goto(q, "commit")
    /\ UNCHANGED <<tree, queue, log, witness, fresh_ns, rebuilt, now, batch, todo,
                   gones, listing, since>>

PassOver == /\ now' = 0 /\ batch' = EmptyLog /\ todo' = {} /\ gones' = {}
            /\ listing' = Unlisted

(* A failed reload, a walk error, a budget abort, a failed allocation: the     *)
(* query is answered cold, and the batch this pass drained goes with it.      *)
Named(b) == IF b.doubt \/ b.set \cap {Root, Rules} # {} THEN Files
            ELSE (b.set \cap Files) \cup (IF Sub \in b.set THEN Below ELSE {})

Decline(q) ==
    /\ pc[q] \in {"load", "walk", "visit"} \cup (IF AllocFails THEN {"scoped"} ELSE {})
    /\ dropped' = dropped \cup Named(batch)
    /\ PassOver
    /\ Goto(q, "idle")
    /\ since' = [since EXCEPT ![q] = Unasked]
    /\ UNCHANGED <<tree, queue, log, witness, session, overtaken, returned>>

(* Mutant: the cursor is anchored after the pass instead of before it. *)
CommitLateClock(q) ==
    /\ pc[q] = "commit"
    /\ fresh_ns' = clock
    /\ clean' = (clean \/ (eligible /\ ~raced))
    /\ PassOver
    /\ Goto(q, "downgrade")
    /\ UNCHANGED <<tree, queue, log, poison, raced, mirror, full_pass_done, rebuilt,
                   history>>

(* Mutant: clean is republished whatever raced the pass. *)
CommitUnchecked(q) ==
    /\ pc[q] = "commit"
    /\ fresh_ns' = now
    /\ clean' = (clean \/ eligible)
    /\ PassOver
    /\ Goto(q, "downgrade")
    /\ UNCHANGED <<tree, queue, log, poison, raced, mirror, full_pass_done, rebuilt,
                   history>>

(* The cursor moves to the clock read at Enter.  A file held with older bytes  *)
(* whose clock is behind it is overtaken: no pass will read it again.         *)
Commit(q) ==
    /\ pc[q] = "commit"
    /\ fresh_ns' = now
    /\ clean' = (clean \/ (eligible /\ ~raced))
    /\ overtaken' = overtaken \cup {f \in Files:
            mirror[f] # 0 /\ disk[f] \notin {0, mirror[f]} /\ stamp[f] < now}
    /\ PassOver
    /\ Goto(q, "downgrade")
    /\ UNCHANGED <<tree, queue, log, poison, raced, mirror, full_pass_done, rebuilt,
                   since, dropped, returned>>

(* The lease was dropped on the way down: another writer may run first.       *)
Downgrade(q) ==
    /\ pc[q] = "downgrade" /\ WriteFree
    /\ Goto(q, "answer")
    /\ UNCHANGED <<tree, queue, log, witness, session, pass, history>>

Answer(q) ==
    /\ pc[q] = "answer"
    /\ Goto(q, "idle")
    /\ since' = [since EXCEPT ![q] = Unasked]
    /\ UNCHANGED <<tree, queue, log, witness, session, pass, passed>>

(***************************************************************************)
(* maybeReload: the published index moved on, so the session's corpus is    *)
(* read afresh.  The log, the seqlock and full_pass_done are kept.          *)
(***************************************************************************)

Publish ==
    /\ ~rebuilt /\ changes < MaxChanges
    /\ rebuilt' = TRUE
    /\ UNCHANGED <<tree, queue, log, witness, mirror, fresh_ns, full_pass_done, pc, pass, history>>

Load(q) ==
    /\ pc[q] = "load"
    /\ mirror' = [f \in Files |-> Live(f)]
    /\ fresh_ns' = now
    /\ rebuilt' = FALSE
    /\ MarkDirty
    /\ overtaken' = {} /\ dropped' = {} /\ returned' = {}
    /\ Goto(q, "gate")
    /\ UNCHANGED <<tree, queue, log, poison, full_pass_done, pass, since>>

(***************************************************************************)
(* The specification.                                                      *)
(***************************************************************************)

Init ==
    /\ clock = 1 /\ changes = 0
    /\ disk = [f \in Files |-> 1] /\ stamp = [f \in Files |-> 0] /\ hidden = {}
    /\ exact \in Exact
    /\ armed = FALSE /\ kernel = {} /\ overflow = FALSE
    /\ reader = Nobody /\ noted = FALSE
    /\ log = EmptyLog
    /\ clean = FALSE /\ poison = FALSE /\ raced = FALSE
    /\ mirror = disk /\ fresh_ns = 1 /\ full_pass_done = FALSE /\ rebuilt = FALSE
    /\ pc = [q \in Queries |-> "idle"]
    /\ now = 0 /\ batch = EmptyLog /\ todo = {} /\ gones = {}
    /\ listing = Unlisted
    /\ since = [q \in Queries |-> Unasked]
    /\ overtaken = {} /\ dropped = {} /\ returned = {}

TreeNext == Tick \/ Publish
            \/ \E f \in Files: Edit(f) \/ Create(f) \/ Delete(f) \/ EditRules(f)
WatchNext == LoopDrain \/ NoteRecord \/ NoteOverflow \/ DrainDone
ControlNext == armWatcher \/ disarmWatcher
Full(q) == FullWalk(q) \/ FullOne(q) \/ FullEnd(q)
Scoped(q) == ScopedOne(q) \/ ScopedEnd(q)
QueryNext(q) ==
    \/ Arrive(q) \/ Flush(q) \/ Check(q) \/ Upgrade(q) \/ Gate(q) \/ Load(q)
    \/ Enter(q) \/ Drain(q) \/ Scoped(q) \/ Full(q) \/ Decline(q)
    \/ Commit(q) \/ Downgrade(q) \/ Answer(q)

Next == TreeNext \/ WatchNext \/ ControlNext \/ \E q \in Queries: QueryNext(q)

Spec == Init /\ [][Next]_vars

(***************************************************************************)
(* Properties.                                                             *)
(***************************************************************************)

TypeOK ==
    /\ clock \in 1 .. MaxClock /\ changes \in 0 .. MaxChanges
    /\ disk \in [Files -> Nat] /\ stamp \in [Files -> 0 .. MaxClock]
    /\ hidden \subseteq Files /\ exact \in BOOLEAN
    /\ armed \in BOOLEAN /\ kernel \subseteq Paths /\ overflow \in BOOLEAN
    /\ reader \in Queries \cup {Nobody, Loop} /\ noted \in BOOLEAN
    /\ {log, batch} \subseteq
          [set: SUBSET Paths, doubt: BOOLEAN, exact: BOOLEAN]
    /\ Cardinality(log.set) <= LogCap
    /\ clean \in BOOLEAN /\ poison \in BOOLEAN /\ raced \in BOOLEAN
    /\ mirror \in [Files -> Nat] /\ fresh_ns \in 1 .. MaxClock
    /\ full_pass_done \in BOOLEAN /\ rebuilt \in BOOLEAN
    /\ pc \in [Queries -> Labels]
    /\ now \in 0 .. MaxClock /\ todo \subseteq Paths /\ gones \subseteq Files
    /\ listing \in [Files -> -1 .. MaxClock]
    /\ {overtaken, dropped, returned} \subseteq SUBSET Files

(* Off the clean path a hit is stat'ed before it is reported. *)
Reported(f) == IF ~clean /\ disk[f] = 0 THEN 0 ELSE mirror[f]

(* Read-your-writes, file by file: since the query arrived there was an       *)
(* instant when the file was in the walk set (or was not, if it is left out), *)
(* and one when it held the content the answer is computed from.              *)
Fresh(q, f) ==
    IF Reported(f) = 0 THEN Absent \in since[q][f]
                       ELSE {Reported(f), Shown} \subseteq since[q][f]

(* What reconcile.zig promises of every warm answer, and keeps as long as no  *)
(* pass is scoped.                                                            *)
FreshAnswer ==
    ~exact => \A q \in Queries: pc[q] = "answer" => \A f \in Files: Fresh(q, f)

(* The whole of what can make a warm answer stale: the cursor overtook the    *)
(* file's clock, a failing pass took the file's event down with it, or the    *)
(* file came back while a scoped pass took it for gone.                       *)
StaleOnlyIfPassedOver ==
    \A q \in Queries: pc[q] = "answer" =>
        \A f \in Files: Fresh(q, f) \/ f \in overtaken \cup dropped \cup returned

(* A clean session with nothing left to report mirrors the tree exactly, save *)
(* for the files overtaken or dropped.                                        *)
CleanMeansCurrent ==
    skip /\ reader = Nobody /\ kernel = {} /\ ~overflow =>
        \A f \in Files: mirror[f] = Live(f) \/ f \in overtaken \cup dropped

(* What the code says of the cursor: "`fresh_ns` is anchored BEFORE the walk  *)
(* (see `barrier`), so any write the walk didn't observe is caught on the     *)
(* next pass": no answer is stale but for an event a failing pass dropped.    *)
NextPassCatches ==
    \A q \in Queries: pc[q] = "answer" =>
        \A f \in Files: Fresh(q, f) \/ f \in dropped
=============================================================================
