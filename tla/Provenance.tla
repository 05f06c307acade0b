----------------------------- MODULE Provenance -----------------------------
(***************************************************************************)
(* bench/apparatus/provenance.py: hashing the measured corpus into the     *)
(* manifest while other agents edit the tree.  A file is opened, stat-ed,  *)
(* read, stat-ed again; one that moved is dropped on a coworked tree and   *)
(* fatal on a clean one.  A file found stable is opened a second time, for *)
(* the digest of the whole corpus.  The manifest and machine.json reach    *)
(* their names only when everything listed has been hashed.                *)
(*                                                                         *)
(* A version stands for the bytes, the size and the mtime of a file: an    *)
(* edit in place changes them, a replacement leaves what was opened alone. *)
(***************************************************************************)
EXTENDS Naturals, Sequences, FiniteSets, SequencesExt

CONSTANTS
    ListedFiles,        \* paths.list, sorted
    MaxTreeEdits,      \* changes to the tree during one run
    PerHundred     \* share of the corpus that may move, in hundredths

ASSUME ProvenanceAssumption ==
    /\ ListedFiles \in Seq(STRING) /\ \A i, j \in DOMAIN ListedFiles : i # j => ListedFiles[i] # ListedFiles[j]
    /\ MaxTreeEdits \in Nat /\ PerHundred \in Nat

PathOf == Range(ListedFiles)
Vanished == 0

VARIABLES
    sources,          \* path -> version of the file there, Vanished if none
    inode,         \* version of the file opened, Vanished if it could not be
    allowDirty,    \* --allow-dirty
    clockAt, stepOf,     \* the file being hashed and how far it is
    before,        \* version the first stat saw
    chunks,        \* versions the two chunks were read from
    manifestRows, digest, unstable,
    manifest,      \* corpus-manifest.tsv: <<its rows>>, or Earlier
    machine,       \* machine.json: <<what it says of the corpus>>, or Earlier
    treeEdits, history \* versions ever used; path -> every version it has had

provVars == <<sources, inode, allowDirty, clockAt, stepOf, before, chunks, manifestRows, digest, unstable,
              manifest, machine, treeEdits, history>>
file == <<inode, before, chunks>>
ManifestMade == <<manifestRows, digest, unstable>>
entries == <<manifest, machine>>
provWorld == <<sources, treeEdits, history>>

Earlier == <<>>

ProvenanceInit ==
    /\ sources = [p \in PathOf |-> 1] /\ history = [p \in PathOf |-> {1}]
    /\ inode = Vanished /\ before = Vanished /\ chunks = <<>>
    /\ allowDirty \in BOOLEAN
    /\ clockAt = 1 /\ stepOf = "open"
    /\ manifestRows = <<>> /\ digest = <<>> /\ unstable = {}
    /\ manifest = Earlier /\ machine = Earlier
    /\ treeEdits = 0

Current == ListedFiles[clockAt]
Running == stepOf \notin {"done", "exit"}

\* another agent: an edit in place reaches a file already open, a replacement
\* or a removal does not
Put(p, v) ==
    /\ Running /\ treeEdits < MaxTreeEdits
    /\ treeEdits' = treeEdits + 1
    /\ sources' = [sources EXCEPT ![p] = v]
    /\ history' = [history EXCEPT ![p] = @ \cup {v}]
EditFile(p) ==
        /\ sources[p] # Vanished /\ Put(p, treeEdits + 2)
        /\ inode' = IF stepOf \in {"stat", "read", "judge"} /\ p = Current /\ inode = sources[p] THEN treeEdits + 2 ELSE inode
        /\ UNCHANGED <<allowDirty, clockAt, stepOf, before, chunks, ManifestMade, entries>>
ReplaceFile(p) ==
        /\ \E v \in {Vanished, treeEdits + 2} : v # sources[p] /\ Put(p, v)
        /\ UNCHANGED <<allowDirty, clockAt, stepOf, file, ManifestMade, entries>>

Step(ph) == stepOf' = ph /\ UNCHANGED <<allowDirty, provWorld>>

OpenFile ==
        /\ stepOf = "open" /\ clockAt <= Len(ListedFiles)
        /\ inode' = sources[Current] /\ before' = Vanished /\ chunks' = <<>>
        /\ Step(IF sources[Current] = Vanished THEN "judge" ELSE "stat")
        /\ UNCHANGED <<clockAt, ManifestMade, entries>>
Stat ==
    /\ stepOf = "stat"
    /\ before' = inode
    /\ Step("read")
    /\ UNCHANGED <<clockAt, inode, chunks, ManifestMade, entries>>
Chunk ==
    /\ stepOf = "read"
    /\ chunks' = Append(chunks, inode)
    /\ Step(IF Len(chunks) = 1 THEN "judge" ELSE "read")
    /\ UNCHANGED <<clockAt, inode, before, ManifestMade, entries>>

(***************************************************************************)
(* The second stat.  A file that vanished or changed is dropped, or ends   *)
(* the run; a stable one goes on to the corpus digest.                     *)
(***************************************************************************)
Unread == before # Vanished
StableFile == before # Vanished /\ inode = before
JudgeManifest ==
            /\ stepOf = "judge"
            /\ \/ StableFile /\ Step("again") /\ UNCHANGED <<clockAt, unstable>>
               \/ ~StableFile /\ allowDirty
                  /\ unstable' = unstable \cup {Current} /\ clockAt' = clockAt + 1 /\ Step("open")
               \/ ~StableFile /\ ~allowDirty /\ Step("exit") /\ UNCHANGED <<clockAt, unstable>>
            /\ UNCHANGED <<file, manifestRows, digest, entries>>

\* the second open is outside the handler: a file gone by now ends the run
Rerun ==
    /\ stepOf = "again"
    /\ IF sources[Current] = Vanished
       THEN Step("exit") /\ UNCHANGED <<clockAt, ManifestMade>>
       ELSE /\ digest' = Append(digest, <<Current, sources[Current]>>)
            /\ manifestRows' = Append(manifestRows, [path |-> Current, sha |-> chunks, size |-> before])
            /\ clockAt' = clockAt + 1 /\ Step("open") /\ UNCHANGED unstable
    /\ UNCHANGED <<file, entries>>

Churned == 100 * Cardinality(unstable) > PerHundred * (Len(manifestRows) + Cardinality(unstable))
Finish ==
    /\ stepOf = "open" /\ clockAt > Len(ListedFiles)
    /\ IF unstable # {} /\ Churned
       THEN Step("exit") /\ UNCHANGED entries
       ELSE Step("machine") /\ manifest' = <<manifestRows>> /\ UNCHANGED machine
    /\ UNCHANGED <<clockAt, file, ManifestMade>>
Machinery ==
      /\ stepOf = "machine"
      /\ machine' = <<[files |-> Len(manifestRows), sha |-> digest, unstable |-> Cardinality(unstable)]>>
      /\ Step("done")
      /\ UNCHANGED <<clockAt, file, ManifestMade, manifest>>
\* a signal
Killed == Running /\ Step("exit") /\ UNCHANGED <<clockAt, file, ManifestMade, entries>>

ProvenanceNext ==
    \/ OpenFile \/ Stat \/ Chunk \/ JudgeManifest \/ Rerun \/ Finish \/ Machinery \/ Killed
    \/ \E p \in PathOf : EditFile(p) \/ ReplaceFile(p)

ProvenanceSpec == ProvenanceInit /\ [][ProvenanceNext]_provVars

Paths(rows) == [i \in DOMAIN rows |-> rows[i].path]
ListedOrder(paths) ==
    \A i, j \in DOMAIN paths, m, n \in DOMAIN ListedFiles :
        i < j /\ paths[i] = ListedFiles[m] /\ paths[j] = ListedFiles[n] => m < n

\* A manifest under its own name is honest whatever other agents did to the
\* tree meanwhile: each row's bytes and size are what that path held at one
\* instant, each listed file has one row in the listed order or was dropped and
\* counted, nothing was dropped on a clean tree, and the corpus digest covers
\* the same files in the same order.  A run that fails or is killed leaves the
\* manifest of the earlier mint.
ManifestHonest ==
    \A k \in DOMAIN manifest :
        /\ \A i \in DOMAIN manifest[k] :
              LET row == manifest[k][i] IN
              row.sha = <<row.size, row.size>> /\ row.size \in history[row.path] \ {Vanished}
        /\ Range(Paths(manifest[k])) = PathOf \ unstable /\ ListedOrder(Paths(manifest[k]))
        /\ [i \in DOMAIN digest |-> digest[i][1]] = Paths(manifest[k])
        /\ ~allowDirty => unstable = {}
        /\ machine # Earlier =>
              machine[1].files = Len(manifest[k]) /\ machine[1].unstable = Cardinality(unstable)

\* The corpus digest of machine.json is over the bytes the manifest lists.
DigestOverRows ==
    machine # Earlier =>
        machine[1].sha = [i \in DOMAIN manifest[1] |-> <<manifest[1][i].path, manifest[1][i].size>>]
=============================================================================
