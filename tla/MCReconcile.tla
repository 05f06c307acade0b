---------------------------- MODULE MCReconcile ----------------------------
(* Instances of Reconcile for TLC. *)
EXTENDS Reconcile, TLC

CONSTANTS f1, f2, q1, q2

OneFile == {f1}
TwoFiles == {f1, f2}
OneQuery == {q1}
TwoQueries == {q1, q2}
Nested == {f2}

(* The third change matters to a watched session: unwatched, or reloading,     *)
(* every pass is full, as it is with two.                                     *)
Watched == changes = 3 => armed /\ ~rebuilt

(* What no later step and no property reads is left out of the fingerprints: a *)
(* race outside a pass (Enter forgets it), the names beside a doubt, the clock  *)
(* of a file that is not there, what a pass that commits has used up, and the   *)
(* paths of a scoped pass that gave way to a walk.                             *)
Heard(l) == IF l.doubt THEN [l EXCEPT !.set = {}] ELSE l
Dated == [f \in Files |-> IF disk[f] = 0 THEN 0 ELSE stamp[f]]
InPass(labels) == \E q \in Queries: pc[q] \in labels
Unspent == IF InPass({"commit"}) THEN <<>>
           ELSE <<Heard(batch), IF InPass({"walk"}) THEN {} ELSE todo,
                  IF InPass({"scoped"}) THEN gones ELSE {}, listing>>
Read == <<clock, changes, disk, Dated, hidden, exact, queue, Heard(log), clean, poison,
          raced /\ InPass({"drain", "scoped", "walk", "visit", "commit"}),
          session, pc, now, Unspent, history>>

QuerySymmetry == Permutations(Queries)
=============================================================================
