-------------------------------- MODULE Keep --------------------------------
(* Rendered answers held against the corpus's epoch (answer/keep.zig), over   *)
(* the ledger of module Annals.                                               *)
(*                                                                            *)
(* An answer is the content it found in each file.  Every operation of the    *)
(* keep is one step, under the keep's mutex; the bytes a recall hands out are *)
(* written to a socket afterwards.  The worker around it (flush, read the     *)
(* epoch, recall; else let the client compute and check its offer again) is   *)
(* the daemon's, outside this package, and is taken from the keep's contract. *)
EXTENDS Annals, Sequences, SequencesExt

CONSTANTS Workers,      \* pool workers
          Keys,         \* the questions asked
          Sizes,        \* how many bytes an answer may take
          EntryCeiling, \* Keep.entry_ceiling
          Ceiling       \* Keep.ceiling

ASSUME KeepAssumption ==
    "none" \notin Keys /\ Sizes \subseteq Nat /\ {EntryCeiling, Ceiling} \subseteq Nat

NoKey == "none"

VARIABLES
    \* the keep: its entries, their byte count, and the keys held, the least
    \* recently used first (the order of the `touched` clock readings)
    held, held_bytes, order,
    \* a worker: its question, the epoch it read, the answer it has
    pc, key, at, answer,
    \* history: the corpora there were since a worker was asked
    instants

keep == <<held, held_bytes, order>>
worker == <<pc, key, at, answer, instants>>
vars == <<annals, keep, worker>>

Goto(w, label) == pc' = [pc EXCEPT ![w] = label]

(* The worker is free for another question. *)
Finish(w) ==
    /\ Goto(w, "idle")
    /\ key' = [key EXCEPT ![w] = NoKey]
    /\ at' = [at EXCEPT ![w] = {}]
    /\ answer' = [answer EXCEPT ![w] = <<>>]
    /\ instants' = [instants EXCEPT ![w] = {}]

(***************************************************************************)
(* The keep.                                                               *)
(***************************************************************************)

With(h, k, e) == [j \in DOMAIN h \cup {k} |-> IF j = k THEN e ELSE h[j]]

(* The bytes of some answers, each byte told apart by its key and its place.   *)
BytesOf(h, S) == UNION {{k} \X (1 .. h[k].size): k \in S}
Bytes(h, S) == Cardinality(BytesOf(h, S))

(* A key is in the recency list at most once.                                  *)
Without(q, k) == RemoveFirst(q, k)

Release(k) ==
    /\ held' = Restrict(held, DOMAIN held \ {k})
    /\ held_bytes' = held_bytes - held[k].size
    /\ order' = Without(order, k)

(* evictOldest, for as long as the bytes exceed the ceiling and two are left. *)
Trim(q, h) ==
    LET fits(i) == i = Len(q) \/ Bytes(h, Range(SubSeq(q, i, Len(q)))) <= Ceiling
        first == CHOOSE i \in 1 .. Len(q): fits(i) /\ \A j \in 1 .. i - 1: ~fits(j)
    IN  SubSeq(q, first, Len(q))

(* Mutant: a replaced entry's bytes stay counted. *)
StoreTwice(k, e) ==
    LET h == With(held, k, e)
        q == Trim(Append(Without(order, k), k), h)
        evicted == DOMAIN h \ Range(q)
    IN  /\ held' = Restrict(h, DOMAIN h \ evicted)
        /\ held_bytes' = held_bytes + e.size - Bytes(h, evicted)
        /\ order' = q

(* The body of retain: replace or add, then evict. *)
Store(k, e) ==
    LET h == With(held, k, e)
        q == Trim(Append(Without(order, k), k), h)
        evicted == DOMAIN h \ Range(q)
    IN  /\ held' = Restrict(h, DOMAIN h \ evicted)
        /\ held_bytes' = held_bytes - Bytes(held, DOMAIN held \cap {k}) + e.size
                                    - Bytes(h, evicted)
        /\ order' = q

(* clear and surrender: everything goes. *)
Drop ==
    /\ held' = <<>> /\ held_bytes' = 0 /\ order' = <<>>
    /\ UNCHANGED <<annals, worker>>

(***************************************************************************)
(* A worker.                                                               *)
(***************************************************************************)

Ask(w, k) ==
    /\ pc[w] = "idle"
    /\ Goto(w, "flush")
    /\ key' = [key EXCEPT ![w] = k]
    /\ instants' = [instants EXCEPT ![w] = {corpus}]
    /\ UNCHANGED <<annals, keep, at, answer>>

(* flushSync returns once the queue has been seen empty; false when unwatched. *)
Flush(w) ==
    /\ pc[w] \in {"flush", "offer"}
    /\ \/ /\ Flushed
          /\ Goto(w, IF pc[w] = "flush" THEN "epoch" ELSE "check")
          /\ UNCHANGED <<key, at, answer, instants>>
       \/ ~watched /\ Finish(w)
    /\ UNCHANGED <<annals, keep>>

ReadEpoch(w) ==
    /\ pc[w] = "epoch"
    /\ \/ epoch = {} /\ Finish(w)
       \/ /\ epoch # {}
          /\ at' = [at EXCEPT ![w] = epoch]
          /\ Goto(w, "recall")
          /\ UNCHANGED <<key, answer, instants>>
    /\ UNCHANGED <<annals, keep>>

(* Mutant: a held answer is served whatever its epoch. *)
RecallAny(w) ==
    /\ pc[w] = "recall"
    /\ \/ /\ key[w] \in DOMAIN held
          /\ answer' = [answer EXCEPT ![w] = held[key[w]].answer]
          /\ order' = Append(Without(order, key[w]), key[w])
          /\ Goto(w, "serve")
          /\ UNCHANGED <<held, held_bytes>>
       \/ /\ key[w] \notin DOMAIN held
          /\ Goto(w, "compute")
          /\ UNCHANGED <<keep, answer>>
    /\ UNCHANGED <<annals, key, at, instants>>

recall(w) ==
    /\ pc[w] = "recall"
    /\ \/ /\ key[w] \in DOMAIN held /\ held[key[w]].epoch \in at[w]
          /\ answer' = [answer EXCEPT ![w] = held[key[w]].answer]
          /\ order' = Append(Without(order, key[w]), key[w])
          /\ Goto(w, "serve")
          /\ UNCHANGED <<held, held_bytes>>
       \/ /\ key[w] \in DOMAIN held /\ held[key[w]].epoch \notin at[w]
          /\ Release(key[w])
          /\ Goto(w, "compute")
          /\ UNCHANGED answer
       \/ /\ key[w] \notin DOMAIN held
          /\ Goto(w, "compute")
          /\ UNCHANGED <<keep, answer>>
    /\ UNCHANGED <<annals, key, at, instants>>

(* The client computes cold, reading one file after another. *)
Compute(w, f) ==
    /\ pc[w] = "compute" /\ f \notin DOMAIN answer[w]
    /\ answer' = [answer EXCEPT ![w] = With(@, f, corpus[f])]
    /\ IF DOMAIN answer[w] \cup {f} = Files THEN Goto(w, "offer") ELSE UNCHANGED pc
    /\ UNCHANGED <<annals, keep, key, at, instants>>

(* The offer stands if the epoch is still the one the client started under. *)
Check(w) ==
    /\ pc[w] = "check"
    /\ \/ epoch = at[w] /\ Goto(w, "retain") /\ UNCHANGED <<key, at, answer, instants>>
       \/ epoch # at[w] /\ Finish(w)
    /\ UNCHANGED <<annals, keep>>

(* An oversized answer, or one there is no memory for, is declined. *)
retain(w, size) ==
    /\ pc[w] = "retain"
    /\ \/ /\ size <= EntryCeiling
          /\ \E e \in at[w]: Store(key[w], [epoch |-> e, answer |-> answer[w], size |-> size])
       \/ UNCHANGED keep
    /\ Finish(w)
    /\ UNCHANGED annals

Serve(w) ==
    /\ pc[w] = "serve"
    /\ Finish(w)
    /\ UNCHANGED <<annals, keep>>

(***************************************************************************)
(* The ledger's own steps, remembered by whoever is being answered.          *)
(***************************************************************************)

Init ==
    /\ AnnalsInit
    /\ held = <<>> /\ held_bytes = 0 /\ order = <<>>
    /\ pc = [w \in Workers |-> "idle"]
    /\ key = [w \in Workers |-> NoKey]
    /\ at = [w \in Workers |-> {}] /\ answer = [w \in Workers |-> <<>>]
    /\ instants = [w \in Workers |-> {}]

Remember ==
    /\ instants' = [w \in Workers |-> IF pc[w] = "idle" THEN {} ELSE instants[w] \cup {corpus'}]
    /\ UNCHANGED <<keep, pc, key, at, answer>>

(* The daemon arms and sheds its watcher only with no connection open; a       *)
(* client that computes holds none.                                            *)
Quiescent == \A w \in Workers: pc[w] \in {"idle", "compute", "offer"}

Environment ==
    /\ \/ ChangeFile \/ MoveDir \/ Tick \/ Deliver
       \/ Quiescent /\ (Arm \/ Shed)
    /\ Remember

Work(w) ==
    \/ \E k \in Keys: Ask(w, k)
    \/ Flush(w) \/ ReadEpoch(w) \/ recall(w)
    \/ \E f \in Files: Compute(w, f)
    \/ Check(w)
    \/ \E size \in Sizes: retain(w, size)
    \/ Serve(w)

Next == Environment \/ (\E w \in Workers: Work(w)) \/ Drop

Spec == Init /\ [][Next]_vars

(***************************************************************************)
(* Properties.                                                             *)
(***************************************************************************)

(* A recalled answer is what the corpus held, all of it at one instant since   *)
(* the question was asked: an epoch that stands still over a change, an offer  *)
(* computed across one, or a recall after one would each serve old bytes.      *)
HeldAnswerCurrent ==
    \A w \in Workers: pc[w] = "serve" => answer[w] \in instants[w]

(* The byte count that decides evictions is the bytes held, through every      *)
(* replacement, eviction, stale release and surrender; the keep is over its    *)
(* ceiling only when a single answer is, which the entry ceiling bounds; and   *)
(* the recency list names every held answer once.                              *)
BytesBalanced ==
    /\ held_bytes = Bytes(held, DOMAIN held)
    /\ \A k \in DOMAIN held: held[k].size <= EntryCeiling
    /\ Range(order) = DOMAIN held /\ Len(order) = Cardinality(DOMAIN held)
    /\ held_bytes > Ceiling => Cardinality(DOMAIN held) = 1
=============================================================================
