----------------------------- MODULE Traversal -----------------------------
(* What the parallel walk promises whoever starts it: one traversal.  A       *)
(* directory is opened once and leads to its children once; a match is        *)
(* printed once, of an opened directory, and none after a write was refused;  *)
(* it is over when nothing is left to do, or the walk was cancelled, or never *)
(* began.  Of workers, queues and counters it knows nothing.                  *)
EXTENDS Naturals

CONSTANTS Dirs, Roots, Children, Hits, Unlisted

VARIABLES todo,      \* the directories met and not done with
          opened,    \* those opened so far, done with or not
          printed,   \* the matches in the output
          cancelled, \* a write was refused
          refusals,  \* how many were
          over       \* the walk has returned
traversal == <<todo, opened, printed, cancelled, refusals, over>>

TraversalInit ==
    /\ todo = Roots /\ opened = {} /\ printed = {}
    /\ cancelled = FALSE /\ refusals = 0 /\ over = FALSE

(* One that cannot be opened, or read to its end, leads to some of its         *)
(* children, maybe none.                                                      *)
Open(d) ==
    /\ d \in todo \ opened
    /\ \E kids \in SUBSET Children[d]:
          /\ d \notin Unlisted => kids = Children[d]
          /\ kids \cap (todo \cup opened) = {}
          /\ todo' = todo \cup kids
    /\ opened' = opened \cup {d}
    /\ UNCHANGED <<printed, cancelled, refusals>>

Close(d) ==
    /\ d \in todo \cap opened
    /\ todo' = todo \ {d}
    /\ UNCHANGED <<opened, printed, cancelled, refusals>>

Output(d) ==
    /\ ~cancelled /\ d \in (Hits \cap opened) \ printed
    /\ printed' = printed \cup {d}
    /\ UNCHANGED <<todo, opened, cancelled, refusals>>

Refuse ==
    /\ ~cancelled /\ cancelled' = TRUE /\ refusals' = refusals + 1
    /\ UNCHANGED <<todo, opened, printed>>

Finished == todo = {} /\ Hits \cap (opened \ Unlisted) \subseteq printed

Return ==
    /\ cancelled \/ Finished \/ opened = {}
    /\ over' = TRUE
    /\ UNCHANGED <<todo, opened, printed, cancelled, refusals>>

TraversalNext ==
    /\ ~over
    /\ \/ /\ over' = over
          /\ Refuse \/ \E d \in Dirs: Open(d) \/ Close(d) \/ Output(d)
       \/ Return

TraversalSpec == TraversalInit /\ [][TraversalNext]_traversal
=============================================================================
