-------------------------------- MODULE Lend --------------------------------
(***************************************************************************)
(* The handles the Python binding lends: Walk (_walk.py), Corpus, Cursor   *)
(* and Cancel (_tree.py), Sieve and Winnow (_sieve.py), Codex (_codex.py), *)
(* all of them a Handle of _shape.py.  A handle is released by close, by   *)
(* the end of a with block and by the collector, in any order; its         *)
(* iterators are generators over one cursor that lives in the engine, so   *)
(* two of them, or an iterator and a hand-driven cursor, interfere.        *)
(*                                                                         *)
(* A Walk or a Cursor stands for N entries; a pull brings up to Batch of   *)
(* them into a buffer that borrows the handle's arena, and each entry is   *)
(* copied out when the generator is resumed for it.  The arena goes with   *)
(* the handle: what is copied out after that is whatever the memory holds  *)
(* then.  A Cursor's arena is its own and outlives its Corpus.             *)
(***************************************************************************)
EXTENDS Naturals, Sequences

CONSTANTS Slot,    \* Python variables a handle is kept in
          Iter,    \* generators over them
          N,       \* entries of a Walk or Cursor
          Batch    \* entries per crossing (256 in the code)

ASSUME LendAssumption == /\ N \in Nat /\ Batch \in Nat \ {0}
                         /\ {"none", "gone"} \cap (Slot \cup Iter) = {}

Streams  == {"walk", "cursor"}
Declines == {"cursor", "sieve"}       \* may answer IRGX_STALE when opened
Kinds    == Streams \cup {"sieve", "plain"}   \* plain: Corpus, Cancel, Winnow, Codex

VARIABLES obj,       \* what each slot holds
          released,  \* how often the engine freed the slot's handle
          it,        \* the generators
          answer     \* what the last open or read answered

lendVars == <<obj, released, it, answer>>

Vacant  == [kind |-> "none", ptr |-> FALSE, pos |-> 0, of |-> "none"]
NoIter   == [on |-> "none", state |-> "none", buf |-> <<>>, last |-> FALSE,
             from |-> 0, got |-> <<>>, owned |-> 0, moved |-> FALSE]

LendTypeOK ==
  /\ obj \in [Slot -> [kind : Kinds \cup {"none"}, ptr : BOOLEAN, pos : 0 .. N,
                       of : Slot \cup {"none", "gone"}]]
  /\ released \in [Slot -> 0 .. 2]
  /\ \A i \in Iter : /\ it[i].on \in Slot \cup {"none"}
                     /\ it[i].state \in {"none", "running", "ended", "raised"}
                     /\ Len(it[i].buf) < Batch
                     /\ Len(it[i].got) <= N /\ it[i].owned \in 0 .. N
  /\ answer \in {"none", "handle", "declined", "raised", "value", "drained"}

LendInit ==
  /\ obj = [s \in Slot |-> Vacant]
  /\ released = [s \in Slot |-> 0]
  /\ it = [i \in Iter |-> NoIter]
  /\ answer = "none"

---------------------------------------------------------------------------
(* Opening.  A refusal raises before Handle.__init__ has run, and a tier   *)
(* that declines answers None: neither leaves a handle.  A negative status *)
(* never comes with one (include/irgx.h), a non-negative one always does.  *)
(* A Cursor is drawn from a Corpus, of which it keeps no reference.        *)
OpenHandle(s, k, status, corpus) ==
        /\ obj[s].kind = "none"
        /\ status = "stale" => k \in Declines
        /\ k = "cursor" => corpus \in Slot /\ obj[corpus].kind = "plain" /\ obj[corpus].ptr
        /\ k # "cursor" => corpus = "none"
        /\ IF status = "ok"
           THEN /\ obj' = [obj EXCEPT ![s] = [kind |-> k, ptr |-> TRUE, pos |-> 0, of |-> corpus]]
                /\ answer' = "handle"
           ELSE /\ obj' = obj
                /\ answer' = IF status = "stale" THEN "declined" ELSE "raised"
        /\ UNCHANGED <<released, it>>

(* The cursors of a handle that is released.                               *)
Orphaned(s) == [c \in Slot |-> IF obj[c].of = s THEN [obj[c] EXCEPT !.of = "gone"] ELSE obj[c]]

(* A fault: released without being cleared.                                *)
ClosedKept(s) == Orphaned(s)

(* The pointer is taken and cleared in one statement, then released once.  *)
Closed(s) == [Orphaned(s) EXCEPT ![s].ptr = FALSE]
Released(s) == [released EXCEPT ![s] = IF obj[s].ptr THEN @ + 1 ELSE @]

(* close and the end of a with block.  The caller keeps the rule of the    *)
(* header: the cursors of a corpus first.                                  *)
Close(s) ==
  /\ obj[s].kind # "none"
  /\ \A c \in Slot : obj[c].of = s => ~obj[c].ptr
  /\ obj' = Closed(s)
  /\ released' = Released(s)
  /\ UNCHANGED <<it, answer>>

(* The collector, once no variable and no suspended generator refers to    *)
(* the object: __del__ closes it, and the slot is free for another.        *)
Del(s) ==
  /\ obj[s].kind # "none"
  /\ \A i \in Iter : it[i].on = s => it[i].state \in {"ended", "raised"}
  /\ Released(s)[s] = 1
  /\ obj' = [Orphaned(s) EXCEPT ![s] = Vacant]
  /\ released' = [released EXCEPT ![s] = 0]
  /\ it' = [i \in Iter |-> IF it[i].on = s THEN NoIter ELSE it[i]]
  /\ UNCHANGED answer

(* Any verb reads the pointer through a property that refuses a closed one.*)
Verb(s) ==
  /\ obj[s].kind \notin Streams \cup {"none"}
  /\ answer' = IF obj[s].ptr THEN "value" ELSE "raised"
  /\ UNCHANGED <<obj, released, it>>

(* Whoever moves the engine's cursor moves it for every generator on it.   *)
Disturbed(s, i) ==
  [j \in Iter |-> IF j # i /\ it[j].on = s /\ it[j].state = "running"
                  THEN [it[j] EXCEPT !.moved = TRUE, !.got = <<>>, !.owned = 0] ELSE it[j]]

rewind(s) ==
  /\ obj[s].kind = "walk"
  /\ IF obj[s].ptr
     THEN /\ obj' = [obj EXCEPT ![s].pos = 0]
          /\ it' = Disturbed(s, "none") /\ answer' = "value"
     ELSE UNCHANGED <<obj, it>> /\ answer' = "raised"
  /\ UNCHANGED released

(* one(): the entry at the cursor, or None once drained.                   *)
One(s) ==
  /\ obj[s].kind \in Streams
  /\ IF obj[s].ptr
     THEN /\ obj' = [obj EXCEPT ![s].pos = IF @ < N THEN @ + 1 ELSE @]
          /\ it' = IF obj[s].pos < N THEN Disturbed(s, "none") ELSE it
          /\ answer' = IF obj[s].pos < N THEN "value" ELSE "drained"
     ELSE UNCHANGED <<obj, it>> /\ answer' = "raised"
  /\ UNCHANGED released

(* __iter__: a Walk starts over, at once and not at the first resume; a    *)
(* Cursor goes on from wherever it is.                                     *)
BeginIter(s, i) ==
      /\ obj[s].kind \in Streams /\ it[i].state = "none"
      /\ IF obj[s].kind = "walk" /\ ~obj[s].ptr
         THEN answer' = "raised" /\ UNCHANGED <<obj, it>>
         ELSE LET at == IF obj[s].kind = "walk" THEN 0 ELSE obj[s].pos
              IN  /\ obj' = [obj EXCEPT ![s].pos = at]
                  /\ it' = [(IF obj[s].kind = "walk" THEN Disturbed(s, i) ELSE it)
                               EXCEPT ![i] = [NoIter EXCEPT !.on = s, !.state = "running", !.from = at]]
                  /\ answer' = "value"
      /\ UNCHANGED released

(* What a generator has yielded, recorded while nobody disturbs it.        *)
Yielded(i, entry) == IF it[i].moved THEN <<>> ELSE Append(it[i].got, entry)

(* pull, resumed with entries left in its buffer: the next one is copied   *)
(* out and yielded, and the handle is not asked.  Once that is closed the  *)
(* buffer points into freed memory: the entry is any, or none (0), or the  *)
(* process ends, which is no state of it.  owned counts those that were    *)
(* copied out while the handle stood.                                      *)
Resume(i) ==
  /\ it[i].state = "running" /\ it[i].buf # <<>>
  /\ LET open == obj[it[i].on].ptr
     IN  \E entry \in (IF open THEN {Head(it[i].buf)} ELSE 0 .. N) :
           it' = [it EXCEPT ![i].buf = Tail(@), ![i].got = Yielded(i, entry),
                            ![i].owned = IF open THEN Len(Yielded(i, entry)) ELSE @]
  /\ answer' = "value"
  /\ UNCHANGED <<obj, released>>

(* ... with none left: the pass before was the last, or another crossing.  *)
(* What a crossing took is yielded even when it also reports the end.      *)
Ends(taken, drained) == taken = 0

PullBatch(i) ==
       /\ it[i].state = "running" /\ it[i].buf = <<>>
       /\ LET s     == it[i].on
              left  == N - obj[s].pos
              taken == IF left < Batch THEN left ELSE Batch
          IN
          IF it[i].last
          THEN it' = [it EXCEPT ![i].state = "ended"] /\ answer' = "drained" /\ UNCHANGED obj
          ELSE IF ~obj[s].ptr
          THEN it' = [it EXCEPT ![i].state = "raised"] /\ answer' = "raised" /\ UNCHANGED obj
          ELSE \E drained \in BOOLEAN :
            /\ drained => taken < Batch
            /\ ~drained => taken > 0
            /\ obj' = [obj EXCEPT ![s].pos = @ + taken]
            /\ IF Ends(taken, drained)
               THEN it' = [it EXCEPT ![i].state = "ended"] /\ answer' = "drained"
               ELSE /\ it' = [(IF taken > 0 THEN Disturbed(s, i) ELSE it) EXCEPT
                                ![i].buf = [k \in 1 .. taken - 1 |-> obj[s].pos + k + 1],
                                ![i].got = Yielded(i, obj[s].pos + 1),
                                ![i].owned = Len(Yielded(i, obj[s].pos + 1)),
                                ![i].last = drained]
                    /\ answer' = "value"
       /\ UNCHANGED released

walk(s, status) == OpenHandle(s, "walk", status, "none")
Corpus(s, status) == OpenHandle(s, "plain", status, "none")
searched(s, status, corpus) == OpenHandle(s, "cursor", status, corpus)
sieved(s, status) == OpenHandle(s, "sieve", status, "none")

LendNext ==
  \/ \E s \in Slot : \/ \E status \in {"ok", "stale", "fault"} :
                          \/ walk(s, status) \/ Corpus(s, status) \/ sieved(s, status)
                          \/ \E corpus \in Slot : searched(s, status, corpus)
                     \/ Close(s) \/ Del(s) \/ Verb(s) \/ rewind(s) \/ One(s)
                     \/ \E i \in Iter : BeginIter(s, i)
  \/ \E i \in Iter : Resume(i) \/ PullBatch(i)

---------------------------------------------------------------------------
(* close, with and the collector release a handle exactly once between     *)
(* them, whatever the order, and a closed handle is the released one.      *)
ReleasedOnce ==
  \A s \in Slot : /\ released[s] <= 1
                  /\ released[s] = 1 <=> (obj[s].kind # "none" /\ ~obj[s].ptr)

(* A corpus outlives the cursors drawn from it (include/irgx.h 1008,       *)
(* _tree.py 224), also where nobody calls close.                           *)
CorpusOutlives ==
  \A c \in Slot : obj[c].kind = "cursor" /\ obj[c].ptr => obj[c].of # "gone"

(* A generator over a cursor nobody else moved yields the entries from     *)
(* where it began, once and in order, and one that ran to its end yielded  *)
(* all of them: batches end anywhere, and the last one may carry entries   *)
(* and the end together.  The entries are the handle's own as long as it   *)
(* stands; what a generator yields out of its buffer after the close is    *)
(* excepted, the rest of the sequence is not.                              *)
IterationWhole ==
  \A i \in Iter : ~it[i].moved =>
     /\ \A k \in 1 .. it[i].owned : it[i].got[k] = it[i].from + k
     /\ it[i].owned < Len(it[i].got) => ~obj[it[i].on].ptr
     /\ it[i].state = "ended" => Len(it[i].got) = N - it[i].from

(* "borrowed bytes are copied at this boundary", "before the call that     *)
(* produced it returns" (_shape.py 26-33): the code breaks it for the      *)
(* entries a pull has left in its buffer when the handle is closed.        *)
CopiedAtTheBoundary == \A i \in Iter : ~it[i].moved => it[i].owned = Len(it[i].got)
=============================================================================
