------------------------------ MODULE Seqlock ------------------------------
(* The freshness seqlock of a resident session (reconcile/seqlock.zig).      *)
(*                                                                           *)
(* Three actors share four atomics.  The watch side (the loop thread or a    *)
(* flushSync, serialised by the watcher's read_lock) reports events; one     *)
(* query thread, holding the exclusive lease, decides whether a reconcile    *)
(* is owed and publishes "clean" after it; a controller arms and sheds the   *)
(* watcher, only while no query is in flight (watch.zig shed).  Every load   *)
(* or store of an atomic that another actor may interleave with is a step of *)
(* its own.  `active` is constant while a query runs, so the load of it is   *)
(* folded into the load of `poison` that follows.                            *)
EXTENDS Integers

CONSTANTS SeqSize,      \* the counter is a usize: it wraps at 2^bits
          MaxChanges    \* bound: no new event or change begins beyond it

ASSUME SeqSizeAssumption == SeqSize \in Nat \ {0}
ASSUME MaxChangesAssumption == MaxChanges \in Nat

VARIABLES
    active, seq, clean, poison,  \* the atomics
    watch,    \* where the watch side is in markDirty / markDoubtForever
    query,    \* where the query thread is in the barrier
    control,  \* the stream's life: down, registered, arming, up, ...
    seq0,     \* the query thread's snapshot of seq
    \* History, read by no action's guard:
    changes,  \* changes made to the corpus so far, reported or not
    entered,  \* `changes` when the running pass took its snapshot
    covered,  \* `changes` the pass behind the published witness accounts for
    laps,     \* events counted between a pass's snapshot and its re-read
    slip,     \* events counted between that re-read and the store of clean
    fooled    \* the witness was published over one of those events

atomics == <<active, seq, clean, poison>>
history == <<changes, entered, covered, laps, slip, fooled>>
vars == <<atomics, watch, query, control, seq0, history>>

(***************************************************************************)
(* The watch side.                                                         *)
(***************************************************************************)

(* Mutant: a counter that never wraps. *)
BumpUnwrapped ==
    /\ seq' = seq + 1
    /\ changes' = changes + 1
    /\ laps' = laps + 1
    /\ UNCHANGED <<active, poison, control, seq0, entered, covered, slip, fooled>>

(* fetchAdd on the counter, wherever it is called from. *)
Bump ==
    /\ seq' = IF seq + 1 = SeqSize THEN 0 ELSE seq + 1
    /\ changes' = changes + 1
    /\ IF query = "commit_store"
       THEN slip' = slip + 1 /\ laps' = laps
       ELSE laps' = laps + 1 /\ slip' = slip
    /\ UNCHANGED <<active, poison, control, seq0, entered, covered, fooled>>

(* A stream exists from registration until stop has closed it. *)
Live == control # "down"

MarkDirty ==
    /\ Live /\ watch = "idle" /\ changes < MaxChanges
    /\ Bump
    /\ watch' = "bumped"
    /\ UNCHANGED <<clean, query>>

ClearClean ==
    /\ watch = "bumped"
    /\ clean' = FALSE
    /\ watch' = "idle"
    /\ UNCHANGED <<active, seq, poison, query, control, seq0, history>>

MarkDoubtForever ==
    /\ Live /\ watch = "idle" /\ changes < MaxChanges
    /\ poison' = TRUE
    /\ watch' = "doubted"
    /\ UNCHANGED <<active, seq, clean, query, control, seq0, history>>

DoubtDirty ==
    /\ watch = "doubted"
    /\ Bump
    /\ watch' = "bumped"
    /\ UNCHANGED <<clean, query>>

(* With no stream, the corpus changes and nobody is told. *)
UnwatchedChange ==
    /\ ~Live
    /\ changes < MaxChanges
    /\ changes' = changes + 1
    /\ UNCHANGED <<atomics, watch, query, control, seq0,
                   entered, covered, laps, slip, fooled>>

(***************************************************************************)
(* The controller: start, then shed.  Both run with no query in flight.    *)
(***************************************************************************)

Quiescent == query = "idle"

Control(from, to) ==
    /\ Quiescent
    /\ control = from
    /\ control' = to
    /\ UNCHANGED <<seq, poison, watch, query, seq0, history>>

Register == Control("down", "registered") /\ UNCHANGED <<active, clean>>
ArmClear == Control("registered", "arming") /\ clean' = FALSE /\ UNCHANGED active
ArmStore == Control("arming", "up") /\ active' = TRUE /\ UNCHANGED clean
DisarmStore == Control("up", "disarming") /\ active' = FALSE /\ UNCHANGED clean
DisarmClear == Control("disarming", "shed") /\ clean' = FALSE /\ UNCHANGED active
(* stop joins the loop thread, so no markDirty is half done. *)
Stop == /\ watch = "idle"
        /\ Control("shed", "down")
        /\ UNCHANGED <<active, clean>>

(***************************************************************************)
(* The query thread: maybeReload, skip, enter, the pass, commit.           *)
(***************************************************************************)

QueryStep(from, to) ==
    /\ query = from
    /\ query' = to
    /\ UNCHANGED <<active, seq, poison, watch, control>>

(* A query arrives; the index may have been rebuilt since the last one. *)
Ask == /\ control \in {"down", "up"}
       /\ \/ QueryStep("idle", "skip")
          \/ changes < MaxChanges /\ QueryStep("idle", "reload")
       /\ UNCHANGED <<clean, seq0, history>>

(* maybeReload marks the session dirty from the query thread itself. *)
ReloadBump == /\ query = "reload"
              /\ Bump
              /\ query' = "reloaded"
              /\ UNCHANGED <<clean, watch>>

ReloadClear == /\ QueryStep("reloaded", "skip")
               /\ clean' = FALSE
               /\ UNCHANGED <<seq0, history>>

(* Mutant: a live watcher is trusted even after it lost coverage. *)
eligibleArmed == active

eligible == active /\ ~poison

SkipEligible == /\ QueryStep("skip", IF eligible THEN "skip_clean" ELSE "enter")
                /\ UNCHANGED <<clean, seq0, history>>

(* TRUE here answers the query from what the last pass left behind. *)
SkipClean == /\ QueryStep("skip_clean", IF clean THEN "idle" ELSE "enter")
             /\ UNCHANGED <<clean, seq0, history>>

(* Mutant: the pass compares against the snapshot of an earlier one. *)
enterStale == /\ QueryStep("enter", "pass")
              /\ entered' = changes
              /\ laps' = 0
              /\ slip' = 0
              /\ UNCHANGED <<clean, seq0, changes, covered, fooled>>

enter == /\ QueryStep("enter", "pass")
         /\ seq0' = seq
         /\ entered' = changes
         /\ laps' = 0
         /\ slip' = 0
         /\ UNCHANGED <<clean, changes, covered, fooled>>

(* The pass completes, or it declines and leaves the session dirty. *)
PassDone == QueryStep("pass", "commit") /\ UNCHANGED <<clean, seq0, history>>
PassDeclined == QueryStep("pass", "idle") /\ UNCHANGED <<clean, seq0, history>>

CommitEligible == /\ QueryStep("commit", IF eligible THEN "commit_seq" ELSE "idle")
                  /\ UNCHANGED <<clean, seq0, history>>

(* Mutant: clean is republished without the re-read. *)
CommitSeqUnchecked == /\ QueryStep("commit_seq", "commit_store")
                      /\ UNCHANGED <<clean, seq0, history>>

CommitSeq == /\ QueryStep("commit_seq", IF seq = seq0 THEN "commit_store" ELSE "idle")
             /\ UNCHANGED <<clean, seq0, history>>

CommitStore == /\ QueryStep("commit_store", "idle")
               /\ clean' = TRUE
               /\ covered' = entered
               /\ fooled' = (slip > 0 \/ laps >= SeqSize)
               /\ UNCHANGED <<seq0, changes, entered, laps, slip>>

(***************************************************************************)
(* The specification.                                                      *)
(***************************************************************************)

Init ==
    /\ active = FALSE /\ seq = 0 /\ clean = FALSE /\ poison = FALSE
    /\ watch = "idle" /\ query = "idle" /\ control = "down"
    /\ seq0 = 0
    /\ changes = 0 /\ entered = 0 /\ covered = 0
    /\ laps = 0 /\ slip = 0 /\ fooled = FALSE

WatchNext == MarkDirty \/ ClearClean \/ MarkDoubtForever \/ DoubtDirty
ControlNext == Register \/ ArmClear \/ ArmStore \/ DisarmStore \/ DisarmClear \/ Stop
QueryNext == Ask \/ ReloadBump \/ ReloadClear \/ SkipEligible \/ SkipClean
             \/ enter \/ PassDone \/ PassDeclined \/ CommitEligible \/ CommitSeq \/ CommitStore

Next == WatchNext \/ ControlNext \/ QueryNext \/ UnwatchedChange

Spec == Init /\ [][Next]_vars

(***************************************************************************)
(* Properties.                                                             *)
(***************************************************************************)

QueryStates == {"idle", "reload", "reloaded", "skip", "skip_clean", "enter",
                "pass", "commit", "commit_seq", "commit_store"}
ControlStates == {"down", "registered", "arming", "up", "disarming", "shed"}

(* Every variable keeps its type; the counter stays inside its width. *)
TypeOK ==
    /\ active \in BOOLEAN /\ clean \in BOOLEAN /\ poison \in BOOLEAN
    /\ seq \in 0 .. SeqSize - 1 /\ seq0 \in 0 .. SeqSize - 1
    /\ watch \in {"idle", "bumped", "doubted"}
    /\ query \in QueryStates
    /\ control \in ControlStates
    /\ changes \in Nat /\ entered \in Nat /\ covered \in Nat
    /\ laps \in Nat /\ slip \in Nat /\ fooled \in BOOLEAN

(* No markDirty is between its two stores. *)
Settled == watch = "idle" /\ query # "reloaded"

(* provenClean is a witness on its own: when no markDirty is half done, a     *)
(* clean bit means the last pass accounts for every change there has been,   *)
(* across sheds, re-arms and unwatched gaps, unless that pass was fooled: an *)
(* event was counted inside commit, between its re-read and its store, or    *)
(* the counter went all the way round inside one pass.                       *)
WitnessSound == clean /\ Settled /\ ~fooled => covered = changes

(* Coverage lost for good is never trusted again, not even by the answer      *)
(* paths that read the raw clean bit: once markDoubtForever has finished, no  *)
(* commit already under way can publish clean over it, short of being fooled. *)
DoubtShutsWitness == poison /\ Settled /\ ~fooled => ~clean

(* An event may cost a pass but never the fast path for good: once a stream   *)
(* is up and trusted for good, the witness is published again and again.      *)
(* FairSpec lets a report that has begun finish (events themselves are never  *)
(* owed), supposes that queries keep being asked, and that not every pass     *)
(* declines.                                                                 *)
FairSpec == /\ Spec
            /\ WF_vars(ClearClean \/ DoubtDirty)
            /\ WF_vars(QueryNext) /\ SF_vars(PassDone)
QuietReopens == <>[](active /\ ~poison) => []<>clean
=============================================================================
