------------------------------ MODULE MCSwarm ------------------------------
(* Instances of Swarm for TLC: a tree two levels deep, and a front of roots  *)
(* wide enough for the crew to hire.                                         *)
EXTENDS Swarm, TLC

CONSTANTS r, a, b, c, d, e, f

Top == {r}
Tree == {r, a, b, c}
Deep == (r :> {a, b}) @@ (a :> {c}) @@ (b :> {}) @@ (c :> {})
Matching == {b, c}
Closed == {b}

Row == {r, a, b, c, d, e, f}
Flat == [x \in Row |-> {}]
Alike == Permutations({a, b, c, d})
Nothing == {}
=============================================================================
