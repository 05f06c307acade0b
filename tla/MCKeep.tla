------------------------------ MODULE MCKeep ------------------------------
(* An instance of Keep for TLC: workers and questions are alike, and the      *)
(* files too when no directory holds some of them.                            *)
EXTENDS Keep

Alike == Permutations(Workers) \cup Permutations(Keys) \cup Permutations(Files)

(* What the property still needs of a worker: the instants until it is served, *)
(* none of them once it has to compute, and, when it is served, whether the     *)
(* answer is one of them (it stays so, as instants are only added).             *)
Awaited(w) ==
    IF pc[w] = "serve" THEN answer[w] \in instants[w]
    ELSE IF pc[w] \in {"flush", "epoch", "recall"} THEN instants[w] ELSE {}

(* What the steps and the properties of the keep depend on: not the history   *)
(* kept for SinceComplete, nor the ledger's instants, which feed only `since` *)
(* (with Cap 1 an eviction drops the one path noted, whatever its instant),   *)
(* nor what a doubted ledger has noted, which nothing reads.                  *)
Recorded == IF doubt THEN {} ELSE Noted
Observed == <<clock, changes, corpus, queue, prefix, doubt, blind, stamp, Recorded, keep,
              pc, key, at, answer, [w \in Workers |-> Awaited(w)]>>

(* Nor does anything in the keep read the clock: let it move only as a watcher *)
(* arms.                                                                       *)
Timeless == clock' # clock => watched' # watched
=============================================================================
