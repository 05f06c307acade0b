------------------------------- MODULE Staging -------------------------------
(***************************************************************************)
(* bench/rungs/crest/evidence/corpus_archive.py, run: a ZIP somebody gave  *)
(* is hashed, listed and unpacked through one open file, a benchmark runs  *)
(* over what was unpacked and writes three files to a directory everybody  *)
(* shares; these are copied, verified, and a receipt binds archive,        *)
(* members and files.  The archive may be written to, and the three files  *)
(* written or replaced, at any time.  Contents are versions; a hash is the *)
(* content it names.                                                       *)
(***************************************************************************)
EXTENDS Integers, FiniteSetsExt

CONSTANTS ZipOf,        \* archive version -> its entries
          MaxMemberSize, MaxTotal, MaxMembers,
          Artifacts,    \* aggregate_csv, run_json, corpus_manifest
          MaxStagingWrites

ASSUME StagingAssumption == MaxStagingWrites \in Nat /\ Artifacts = {"csv", "run", "corpus"}

VARIABLES zip,       \* version of the archive in the open file
          archiveHash,    \* _sha256_source, the first time
          members,   \* what _inspect_zip listed
          unpacked,  \* member -> bytes staged
          disk,      \* artifact -> [inode, data]; data = [of, corpus]
          before_,   \* artifact -> data before the run
          openedArchive,    \* artifact -> what was at its path when it was opened, and how far it is
          sstep, receipt,
          stagingWrites, wentBack, rival,
          seenDisk   \* every state of the shared files since the benchmark ended

stgVars == <<zip, archiveHash, members, unpacked, disk, before_, openedArchive, sstep, receipt, stagingWrites,
             wentBack, rival, seenDisk>>
fromZip  == <<zip, archiveHash, members, unpacked, wentBack>>
fromDisk == <<disk, before_, openedArchive, rival, seenDisk>>

Entries(v) == ZipOf[v]
Files_(v)  == {e \in Entries(v) : ~e.dir}
SizeSum(S) == MapThenSumSet(LAMBDA e : e.size, S)

\* _preflight_zip and _inspect_zip: names stay inside, differ even when case is
\* folded, nothing is a link or encrypted, and the whole is within its limits
Inspects(v) ==
    /\ Cardinality(Entries(v)) <= MaxMembers
    /\ \A e, f \in Entries(v) : e.fold = f.fold => e = f
    /\ \A e \in Entries(v) : e.safe /\ ~e.link /\ ~e.encrypted /\ e.size <= MaxMemberSize
    /\ SizeSum(Files_(v)) <= MaxTotal
    /\ Files_(v) # {}

\* who wrote a file: 1 and up are writes by others
This  == -1
Older == -2
NoFile == [inode |-> 0, data |-> [of |-> 0, corpus |-> "none"]]
Rank(a) == CASE a = "csv" -> 1 [] a = "run" -> 2 [] a = "corpus" -> 3

StagingInit ==
    /\ zip \in DOMAIN ZipOf /\ archiveHash = 0 /\ members = {} /\ unpacked = {}
    /\ \E there \in {NoFile, [inode |-> 1, data |-> [of |-> Older, corpus |-> "old"]]} :
          disk = [a \in Artifacts |-> there]
    /\ before_ = [a \in Artifacts |-> disk[a].data]
    /\ openedArchive = [a \in Artifacts |-> [file |-> NoFile, stage |-> "no"]]
    /\ sstep = "hash" /\ receipt = <<>> /\ stagingWrites = 0 /\ wentBack = FALSE /\ rival = FALSE
    /\ seenDisk = {}

(* Others.  The archive is not read after it is staged, and the shared     *)
(* files not before the benchmark ran.                                     *)
Unstaged == {"hash", "inspect", "unpack"}
Writes(during) == stagingWrites < MaxStagingWrites /\ stagingWrites' = stagingWrites + 1 /\ sstep \in during
Overwritten ==
    /\ Writes(Unstaged) /\ \E v \in DOMAIN ZipOf : v # zip /\ zip' = v /\ wentBack' = (wentBack \/ v = archiveHash)
    /\ UNCHANGED <<archiveHash, members, unpacked, fromDisk, sstep, receipt>>
RivalWrites ==
    /\ Writes({"run", "snapshot", "final"}) /\ rival' = TRUE
    /\ \E a \in Artifacts, inPlace \in BOOLEAN :
          /\ inPlace => disk[a] # NoFile
          /\ LET new == [inode |-> IF inPlace THEN disk[a].inode ELSE 10 + stagingWrites,
                         data |-> [of |-> stagingWrites + 1, corpus |-> "this"]] IN
             disk' = [disk EXCEPT ![a] = new]
    /\ seenDisk' = IF sstep = "run" THEN {} ELSE seenDisk \cup {disk'}
    /\ UNCHANGED <<fromZip, before_, openedArchive, sstep, receipt>>

---------------------------------------------------------------------------
(* staged_archive.                                                         *)
To(from, to) == sstep = from /\ sstep' = to /\ UNCHANGED <<stagingWrites, receipt>>
FailFrom(from) == To(from, "refused")

HashArchive == /\ To("hash", "inspect") /\ archiveHash' = zip
               /\ UNCHANGED <<zip, members, unpacked, wentBack, fromDisk>>
\* the central directory is read once, here
InspectZip ==
    /\ IF Inspects(zip) THEN To("inspect", "unpack") /\ members' = Files_(zip)
                        ELSE FailFrom("inspect") /\ UNCHANGED members
    /\ UNCHANGED <<zip, archiveHash, unpacked, wentBack, fromDisk>>
\* one member after the other; ZipFile checks each against the directory
UnpackMember ==
    /\ \E e \in members \ unpacked :
          IF e \in Files_(zip)
          THEN To("unpack", "unpack") /\ unpacked' = unpacked \cup {e}
          ELSE FailFrom("unpack") /\ UNCHANGED unpacked
    /\ UNCHANGED <<zip, archiveHash, members, wentBack, fromDisk>>
SameArchiveUnread == TRUE
SameArchive == zip = archiveHash
Staged ==
    /\ unpacked = members
    /\ IF SameArchive THEN To("unpack", "run") ELSE FailFrom("unpack")
    /\ UNCHANGED <<fromZip, fromDisk>>

(* The benchmark: it may fail, and may succeed without writing some file.  *)
RunBenchmark ==
    /\ \/ /\ To("run", "snapshot")
          /\ \E wrote \in SUBSET Artifacts :
                disk' = [a \in Artifacts |-> IF a \in wrote
                           THEN [inode |-> 5, data |-> [of |-> This, corpus |-> "this"]]
                           ELSE disk[a]]
          /\ seenDisk' = {disk'}
       \/ FailFrom("run") /\ UNCHANGED <<disk, seenDisk>>
    /\ UNCHANGED <<fromZip, before_, openedArchive, rival>>

(* _immutable_artifacts: one file after the other is opened and copied, and *)
(* once the copies are verified each must be the file at its path still.   *)
Was(a, st) == openedArchive[a].stage = st
Becomes(a, st) == openedArchive' = [openedArchive EXCEPT ![a].stage = st]
OpenArtifact(a) ==
    /\ Was(a, "no") /\ \A b \in Artifacts : Rank(b) < Rank(a) => Was(b, "copied")
    /\ IF disk[a] # NoFile
       THEN To("snapshot", "snapshot") /\ openedArchive' = [openedArchive EXCEPT ![a] = [file |-> disk[a], stage |-> "open"]]
       ELSE FailFrom("snapshot") /\ UNCHANGED openedArchive
    /\ UNCHANGED <<fromZip, disk, before_, rival, seenDisk>>
\* the open file was written to: its stamp moves; replaced at its path: it does not
Stamped(a) == disk[a].inode = openedArchive[a].file.inode => disk[a] = openedArchive[a].file
CopyArtifact(a) ==
    /\ Was(a, "open")
    /\ IF Stamped(a) THEN To("snapshot", "snapshot") /\ Becomes(a, "copied")
                     ELSE FailFrom("snapshot") /\ UNCHANGED openedArchive
    /\ UNCHANGED <<fromZip, disk, before_, rival, seenDisk>>
\* stale: the csv and the run must have changed; then verify_benchmark_artifacts
Copy_(a) == openedArchive[a].file.data
Fresh == \A a \in {"csv", "run"} : Copy_(a) # before_[a]
Consistent == Copy_("csv").of = Copy_("run").of /\ Copy_("corpus").corpus = Copy_("run").corpus
VerifyCopies ==
    /\ \A a \in Artifacts : Was(a, "copied")
    /\ IF Fresh /\ Consistent THEN To("snapshot", "final") ELSE FailFrom("snapshot")
    /\ UNCHANGED <<fromZip, fromDisk>>
HeldInode(a) == disk[a].inode = openedArchive[a].file.inode
Held(a) == disk[a].inode = openedArchive[a].file.inode /\ Stamped(a)
FinalCheck(a) ==
    /\ Was(a, "copied") /\ \A b \in Artifacts : Rank(b) < Rank(a) => Was(b, "held")
    /\ IF Held(a) THEN To("final", "final") /\ Becomes(a, "held")
                  ELSE FailFrom("final") /\ UNCHANGED openedArchive
    /\ UNCHANGED <<fromZip, disk, before_, rival, seenDisk>>
WriteReceipt ==
    /\ sstep = "final" /\ sstep' = "receipt" /\ \A a \in Artifacts : Was(a, "held")
    /\ receipt' = <<[archive |-> archiveHash, members |-> members, files |-> [a \in Artifacts |-> Copy_(a)]]>>
    /\ UNCHANGED <<stagingWrites, fromZip, fromDisk>>

StagingNext ==
    \/ Overwritten \/ RivalWrites
    \/ HashArchive \/ InspectZip \/ UnpackMember \/ Staged \/ RunBenchmark
    \/ \E a \in Artifacts : OpenArtifact(a) \/ CopyArtifact(a) \/ FinalCheck(a)
    \/ VerifyCopies \/ WriteReceipt
StagingSpec == StagingInit /\ [][StagingNext]_stgVars

---------------------------------------------------------------------------
\* A receipt names an archive whose members are exactly the ones unpacked
\* (unless the archive was changed and changed back between its two hashes),
\* three files that stood on disk together at one instant after the
\* benchmark, and - when no other benchmark wrote there meanwhile - the csv and
\* the run this very benchmark wrote, over this corpus.
ReceiptBinds ==
    receipt # <<>> =>
        LET r == receipt[1] IN
        /\ ~wentBack => r.members = Files_(r.archive) /\ unpacked = r.members
        /\ \E now \in seenDisk : \A a \in Artifacts : now[a].data = r.files[a]
        /\ ~rival => /\ r.files["csv"].of = This /\ r.files["run"].of = This
                     /\ r.files["corpus"].corpus = "this"
=============================================================================
