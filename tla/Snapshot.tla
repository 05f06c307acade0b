------------------------------ MODULE Snapshot ------------------------------
(***************************************************************************)
(* research/crest/mutation/contract.py, capture_source: a checkout others  *)
(* work in is copied and named (commit, status, digest of every byte).     *)
(* Files are hashed, copied and hashed again one by one, in git's order,   *)
(* between two looks at git; the copy is hashed last.  A version stands    *)
(* for the kind, mode and bytes of a file; no version comes back once it   *)
(* is gone, but a file may go and come, and be missing again.              *)
(***************************************************************************)
EXTENDS Naturals, Sequences, FiniteSets

CONSTANTS Tracked, Untracked,  \* sequences of paths: in the index, or not yet
          MaxTreeMoves             \* changes other workers make meanwhile

PathsOf(seq) == {seq[i] : i \in DOMAIN seq}
ASSUME SnapshotAssumption ==
    /\ MaxTreeMoves \in Nat
    /\ Tracked \in Seq(PathsOf(Tracked)) /\ Untracked \in Seq(PathsOf(Untracked))

VARIABLES workTree,       \* path -> version, Missing if there is no file
          head,       \* commits so far
          committed,  \* path -> version HEAD has
          treeMoves,
          looks,      \* what git said: before and after
          listing,     \* the paths listed: before and after
          hashedTree,     \* pass -> the versions hashed so far, Missing for what is not listed
          copied,       \* the versions copied so far, likewise
          snapStage,      \* what is being done
          identity,   \* the snapshot's name, once accepted
          seen        \* every state of the checkout since the capture began

snapVars == <<workTree, head, committed, treeMoves, looks, listing, hashedTree, copied, snapStage, identity, seen>>
checkout == <<workTree, head, committed, treeMoves, seen>>

Missing  == 0
TreeNames    == Tracked \o Untracked
NoIdentity == <<>>

\* git status: what differs from HEAD, untracked files included
StatusOf == {p \in PathsOf(TreeNames) : workTree[p] # committed[p]}
GitState == <<head, StatusOf>>
\* git ls-files: the index, whether or not the file is there, and the others
source_paths == {p \in PathsOf(TreeNames) : p \in PathsOf(Tracked) \/ workTree[p] # Missing}
Instant == <<GitState, workTree>>

SnapshotInit ==
    /\ workTree \in [PathsOf(TreeNames) -> {Missing, 1}]
    /\ committed = [p \in PathsOf(TreeNames) |-> IF p \in PathsOf(Tracked) THEN 1 ELSE Missing]
    /\ head = 1 /\ treeMoves = 0
    /\ looks = <<>> /\ listing = <<>> /\ hashedTree = <<<<>>, <<>>>>
    /\ copied = <<>>
    /\ snapStage = "git" /\ identity = NoIdentity
    /\ seen = {Instant}

---------------------------------------------------------------------------
(* Other workers.                                                          *)
Moving == /\ snapStage \notin {"done", "changed"} /\ treeMoves < MaxTreeMoves
          /\ treeMoves' = treeMoves + 1
          /\ seen' = seen \cup {Instant'}
          /\ UNCHANGED <<looks, listing, hashedTree, copied, snapStage, identity>>
Write(p) == /\ \E v \in {Missing, treeMoves + 2} : v # workTree[p] /\ workTree' = [workTree EXCEPT ![p] = v]
            /\ UNCHANGED <<head, committed>> /\ Moving
Commit == /\ StatusOf \cap PathsOf(Tracked) # {}
          /\ head' = head + 1
          /\ committed' = [p \in DOMAIN committed |->
                             IF p \in PathsOf(Tracked) THEN workTree[p] ELSE committed[p]]
          /\ UNCHANGED workTree /\ Moving

---------------------------------------------------------------------------
(* The capture.                                                            *)
Look ==
    /\ snapStage \in {"git", "git again"}
    /\ looks' = Append(looks, GitState)
    /\ snapStage' = IF snapStage = "git" THEN "list" ELSE "judge"
    /\ UNCHANGED <<checkout, listing, hashedTree, copied, identity>>

List ==
    /\ snapStage \in {"list", "list again"}
    /\ listing' = Append(listing, source_paths)
    /\ snapStage' = IF snapStage = "list" THEN "hash" ELSE "hash again"
    /\ UNCHANGED <<checkout, looks, hashedTree, copied, identity>>

\* what is read of the next file, if it is listed
Reads(paths, p) == IF p \in paths THEN workTree[p] ELSE Missing
\* a file gone between being seen and being opened ends the run (OSError)
Lost(paths, p)  == p \in paths /\ workTree[p] = Missing /\ snapStage' = "changed"

Hash ==
    /\ snapStage \in {"hash", "hash again"}
    /\ LET pass == IF snapStage = "hash" THEN 1 ELSE 2
           n    == Len(hashedTree[pass])
       IN  \/ /\ n < Len(TreeNames)
              /\ hashedTree' = [hashedTree EXCEPT ![pass] = Append(@, Reads(listing[pass], TreeNames[n + 1]))]
              /\ UNCHANGED snapStage
           \/ n < Len(TreeNames) /\ Lost(listing[pass], TreeNames[n + 1]) /\ UNCHANGED hashedTree
           \/ /\ n = Len(TreeNames)
              /\ snapStage' = IF pass = 1 THEN "copy" ELSE "git again"
              /\ UNCHANGED hashedTree
    /\ UNCHANGED <<checkout, looks, listing, copied, identity>>

\* one file after the other; a missing one is passed over
CopyFile ==
        /\ snapStage = "copy"
        /\ LET n == Len(copied) IN
           \/ /\ n < Len(TreeNames) /\ copied' = Append(copied, Reads(listing[1], TreeNames[n + 1]))
              /\ UNCHANGED snapStage
           \/ n < Len(TreeNames) /\ Lost(listing[1], TreeNames[n + 1]) /\ UNCHANGED copied
           \/ n = Len(TreeNames) /\ snapStage' = "list again" /\ UNCHANGED copied
        /\ UNCHANGED <<checkout, looks, listing, hashedTree, identity>>

UnmovedFiles ==
    /\ listing[1] = listing[2] /\ hashedTree[1] = hashedTree[2] /\ copied = hashedTree[1]
Unmoved ==
    /\ looks[1] = looks[2]
    /\ listing[1] = listing[2] /\ hashedTree[1] = hashedTree[2] /\ copied = hashedTree[1]

Accept ==
    /\ snapStage = "judge"
    /\ snapStage' = IF Unmoved THEN "done" ELSE "changed"
    /\ identity' = IF Unmoved
                   THEN <<[git |-> looks[1], paths |-> listing[1], digest |-> copied]>>
                   ELSE NoIdentity
    /\ UNCHANGED <<checkout, looks, listing, hashedTree, copied>>

SnapshotNext ==
    \/ Look \/ List \/ Hash \/ CopyFile \/ Accept \/ Commit
    \/ \E p \in PathsOf(TreeNames) : Write(p)

SnapshotSpec == SnapshotInit /\ [][SnapshotNext]_snapVars

\* A snapshot that was accepted is the checkout as it stood at one instant of
\* the capture - the commit and every byte of the files it has, together -
\* although git, the listing and each file were read at different times while
\* others committed, wrote and removed files; and a listed file it lacks was
\* missing at some instant.  (Which files are listed, and which of them are
\* missing, is not of that one instant: a file that comes and goes can be away
\* whenever it is looked for, and git's two answers agree.)
IdentityOfOneInstant ==
    \A k \in DOMAIN identity :
        LET digest == identity[k].digest
            Listed(i) == TreeNames[i] \in identity[k].paths
        IN  /\ \E now \in seen :
                 /\ now[1][1] = identity[k].git[1]
                 /\ \A i \in DOMAIN digest :
                       Listed(i) /\ digest[i] # Missing => digest[i] = now[2][TreeNames[i]]
            /\ \A i \in DOMAIN digest :
                  Listed(i) /\ digest[i] = Missing => \E now \in seen : now[2][TreeNames[i]] = Missing
=============================================================================
