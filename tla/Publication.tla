----------------------------- MODULE Publication -----------------------------
(***************************************************************************)
(* The publication envelope of research/crest/evidence: a directory of     *)
(* reports that runs write to, captured through open descriptors           *)
(* (snapshot.py), judged against each other (semantics.py), sealed by a    *)
(* manifest and a detached hash of it, and verified later (publication.py).*)
(* A hash is the content itself; a file is a name bound to an inode, which *)
(* is written in place or replaced by a rename.                            *)
(***************************************************************************)
EXTENDS Integers, FiniteSets, Sequences, SequencesExt

CONSTANTS Sorted,       \* the names of the directory, in the order of the walk
          CorpusReports,      \* those of them that are corpus reports
          MaxForeignWrites     \* by anyone but seal
Manifest == "publication-evidence.json"
Detached == "PUBLICATION-EVIDENCE.sha256"
CorpusList   == "corpus-manifest.tsv"
Mutation == "mutation-report.json"
EnvelopeNames    == ToSet(Sorted)
Envelope == {Manifest, Detached}
Required == EnvelopeNames \ Envelope
ASSUME PublicationAssumption == /\ Sorted \in Seq(EnvelopeNames)
                                /\ Envelope \cup {CorpusList, Mutation} \cup CorpusReports = EnvelopeNames
                                /\ CorpusReports # {}
                                /\ CorpusReports \cap (Envelope \cup {CorpusList, Mutation}) = {}
                                /\ MaxForeignWrites \in Nat

VARIABLES inodes,    \* what each inode holds, and the ctime of it
          bindings,     \* name -> inode, of those that are there
          dirStamp,  \* the ctime of the directory: when an entry last came or went
          time,      \* when the last write was
          foreignWrites,
          doing,     \* what runs, and how far
          descriptors,    \* the capture: what was opened, in that order, the directory first
          bytes,     \* what was read
          checked,   \* how many entries the end of the capture has looked at
          sealed,    \* seal's arguments and the manifest it made
          judged,   \* verify's: "clean" or "problems"
          instant    \* the directory's contents when the closing look began
publicationVars == <<inodes, bindings, dirStamp, time, foreignWrites, doing, descriptors, bytes,
                     checked, sealed, judged, instant>>

Without(f, x) == [y \in DOMAIN f \ {x} |-> f[y]]
Binding(f, x, v) == [y \in DOMAIN f \cup {x} |-> IF y = x THEN v ELSE f[y]]
ContentsNow == [n \in DOMAIN bindings |-> inodes[bindings[n]].what]

---------------------------------------------------------------------------
(* What a run writes: the right report of commit 1 over corpus 1, or one   *)
(* that is off in one respect.                                             *)
Right == [commit |-> 1, corpus |-> 1, workload |-> 1, passed |-> TRUE]
Off == {Right, [Right EXCEPT !.commit = 2], [Right EXCEPT !.corpus = 2],
        [Right EXCEPT !.workload = 2], [Right EXCEPT !.passed = FALSE]}
Written(n) == IF n = CorpusList THEN {Right, [Right EXCEPT !.corpus = 2]}
              ELSE IF n = Mutation THEN {r \in Off : r.corpus = 1 /\ r.workload = 1}
              ELSE Off

(* semantics.py: corpus_status.                                            *)
MissingFrom(payload) == Required \ DOMAIN payload
Given(payload) == CorpusReports \cap DOMAIN payload
Identified(report, commit) == report.commit = commit                    \* _common_problems
MutationHolds(report, commit) == report.commit = commit /\ report.passed \* _native_mutation_problems
OfCorpus(payload, report) == CorpusList \in DOMAIN payload => report.corpus = payload[CorpusList].corpus
OneWorkload(payload) ==
  CorpusList \in DOMAIN payload => \A m, n \in Given(payload) : payload[m].workload = payload[n].workload
Semantic(payload, commit) ==
  /\ \A n \in Given(payload) : /\ Identified(payload[n], commit) /\ payload[n].passed
                               /\ OfCorpus(payload, payload[n])
  /\ OneWorkload(payload)
  /\ Mutation \in DOMAIN payload => MutationHolds(payload[Mutation], commit)
EvidenceStatus(payload, commit) == IF MissingFrom(payload) # {} THEN "corpus_runs_pending"
                                   ELSE IF Semantic(payload, commit) THEN "complete"
                                   ELSE "corpus_runs_error"
PayloadOf(files) == [n \in DOMAIN files \ Envelope |-> files[n]]
build_manifest(files, commit) ==
  [source_commit |-> commit, files |-> PayloadOf(files), status |-> EvidenceStatus(PayloadOf(files), commit)]

---------------------------------------------------------------------------
(* Everyone else: a run writing its report, a hand editing the envelope.   *)
\* a manifest by hand, of what is there
ByHand == [source_commit |-> 1, files |-> PayloadOf(ContentsNow), status |-> "complete"]
Forged(n) == IF n = Manifest THEN {ByHand}
             ELSE IF n = Detached THEN {sealed.manifest, ByHand} ELSE Written(n)
WriteInPlace(n, what) ==
  /\ n \in DOMAIN bindings /\ inodes' = [inodes EXCEPT ![bindings[n]] = [what |-> what, at |-> time + 1]]
  /\ UNCHANGED <<bindings, dirStamp>>
ReplaceEntry(n, what) == /\ inodes' = Append(inodes, [what |-> what, at |-> time + 1])
                         /\ bindings' = Binding(bindings, n, Len(inodes) + 1)
                         /\ dirStamp' = time + 1
Unlink(n) == /\ n \in DOMAIN bindings /\ bindings' = Without(bindings, n)
             /\ dirStamp' = time + 1 /\ UNCHANGED inodes
Others == /\ foreignWrites < MaxForeignWrites /\ foreignWrites' = foreignWrites + 1 /\ time' = time + 1
          /\ \E n \in EnvelopeNames : Unlink(n) \/ \E what \in Forged(n) :
                                        WriteInPlace(n, what) \/ ReplaceEntry(n, what)
          /\ UNCHANGED <<doing, descriptors, bytes, checked, sealed, judged, instant>>

---------------------------------------------------------------------------
(* snapshot.py: capture.  The directory is opened and listed, each entry   *)
(* opened and read in turn, and at the end each is looked at once more,    *)
(* the last opened first: through its descriptor and through its name.     *)
Listed == descriptors[1].names
Entry(i) == descriptors[i]
Capture(why) == /\ doing' = why /\ descriptors' = <<[names |-> bindings, at |-> dirStamp]>> /\ bytes' = [n \in {} |-> 0]
                /\ checked' = 0 /\ instant' = <<>> /\ judged' = "none"
                /\ UNCHANGED <<inodes, bindings, dirStamp, time, foreignWrites>>
Position(n) == CHOOSE k \in DOMAIN Sorted : Sorted[k] = n
Unopened == {n \in DOMAIN Listed : \A i \in 2 .. Len(descriptors) : Entry(i).name # n}
OpenNext == /\ doing \in {"sealing", "verifying"}
            /\ Len(descriptors) > 1 => Entry(Len(descriptors)).name \in DOMAIN bytes
            /\ \E n \in Unopened :
                 /\ \A m \in Unopened : Position(n) <= Position(m)
                 /\ IF n \in DOMAIN bindings
                    THEN /\ descriptors' = Append(descriptors, [name |-> n, inode |-> bindings[n],
                                                                at |-> inodes[bindings[n]].at])
                         /\ UNCHANGED doing
                    ELSE doing' = "failed" /\ UNCHANGED descriptors
            /\ UNCHANGED <<inodes, bindings, dirStamp, time, foreignWrites, bytes, checked, sealed, judged,
                           instant>>
ReadLast == /\ doing \in {"sealing", "verifying"} /\ Len(descriptors) > 1
            /\ LET e == Entry(Len(descriptors)) IN
               e.name \notin DOMAIN bytes /\ bytes' = Binding(bytes, e.name, inodes[e.inode].what)
            /\ UNCHANGED <<inodes, bindings, dirStamp, time, foreignWrites, doing, descriptors, checked, sealed,
                           judged, instant>>
\* _assert_stable
StableEntry(i) == IF i = 1 THEN dirStamp = Entry(1).at
                  ELSE /\ inodes[Entry(i).inode].at = Entry(i).at
                       /\ Entry(i).name \in DOMAIN bindings /\ bindings[Entry(i).name] = Entry(i).inode
AssertStable ==
  /\ doing \in {"sealing", "verifying"} /\ Unopened = {} /\ DOMAIN bytes = DOMAIN Listed
  /\ checked < Len(descriptors) /\ checked' = checked + 1
  /\ doing' = IF StableEntry(Len(descriptors) - checked) THEN doing ELSE "failed"
  /\ instant' = IF checked = 0 THEN <<ContentsNow>> ELSE instant
  /\ UNCHANGED <<inodes, bindings, dirStamp, time, foreignWrites, descriptors, bytes, sealed, judged>>
Captured == checked > 0 /\ checked = Len(descriptors)
\* what the capture held is let go
LetGo == descriptors' = <<>> /\ bytes' = <<>> /\ checked' = 0 /\ UNCHANGED foreignWrites

---------------------------------------------------------------------------
(* seal and verify.                                                        *)
seal(commit) == /\ doing = "idle" /\ DOMAIN bindings \cap Envelope = {}
                /\ sealed' = [commit |-> commit, manifest |-> Right, of |-> <<>>] /\ Capture("sealing")
\* write_bytes: in place over what another hand has put there meanwhile
PlaceEntry(n, what) == /\ time' = time + 1
                       /\ IF n \in DOMAIN bindings THEN WriteInPlace(n, what) ELSE ReplaceEntry(n, what)
WriteManifest ==
  /\ doing = "sealing" /\ Captured
  /\ LET made == build_manifest(bytes, sealed.commit) IN
     sealed' = [sealed EXCEPT !.manifest = made, !.of = instant] /\ PlaceEntry(Manifest, made)
  /\ doing' = "sealed" /\ instant' = <<>>
  /\ UNCHANGED <<foreignWrites, descriptors, bytes, checked, judged>>
WriteDetached == /\ doing = "sealed" /\ PlaceEntry(Detached, sealed.manifest) /\ doing' = "idle"
                 /\ LetGo /\ UNCHANGED <<sealed, judged, instant>>
\* seal dies after the first of its two writes
Die == /\ doing = "sealed" /\ doing' = "idle"
       /\ LetGo /\ UNCHANGED <<inodes, bindings, dirStamp, time, sealed, judged, instant>>
verify == /\ doing = "idle" /\ Capture("verifying") /\ UNCHANGED sealed
Problems(files) ==
  \/ ~(Envelope \subseteq DOMAIN files)
  \/ files[Detached] # files[Manifest]
  \/ "files" \notin DOMAIN files[Manifest]                \* not of the schema
  \/ files[Manifest].files # PayloadOf(files)
  \/ files[Manifest].status # EvidenceStatus(PayloadOf(files), files[Manifest].source_commit)
  \/ ~Semantic(PayloadOf(files), files[Manifest].source_commit)
Judge == /\ doing = "verifying" /\ Captured
         /\ judged' = IF Problems(bytes) THEN "problems" ELSE "clean"
         /\ doing' = "idle"
         /\ LetGo /\ UNCHANGED <<inodes, bindings, dirStamp, time, sealed, instant>>
GiveUp == /\ doing = "failed" /\ doing' = "idle"
          /\ instant' = <<>> /\ LetGo /\ UNCHANGED <<inodes, bindings, dirStamp, time, sealed, judged>>

PublicationInit ==
  /\ \E gone \in {{}} \cup {{n} : n \in Required} :
       /\ inodes = [k \in DOMAIN Sorted |-> [what |-> Right, at |-> 0]]
       /\ bindings = [n \in Required \ gone |-> Position(n)]
  /\ dirStamp = 0 /\ time = 0 /\ foreignWrites = 0 /\ doing = "idle" /\ descriptors = <<>> /\ bytes = <<>> /\ checked = 0
  /\ sealed = [commit |-> 0, manifest |-> Right, of |-> <<>>] /\ judged = "none" /\ instant = <<>>
PublicationNext ==
  \/ Others \/ (\E commit \in {1, 2} : seal(commit)) \/ verify
  \/ OpenNext \/ ReadLast \/ AssertStable \/ WriteManifest \/ WriteDetached \/ Die \/ Judge \/ GiveUp

---------------------------------------------------------------------------
\* What a clean envelope says was true of the directory, all at one instant: the
\* manifest names every artifact with its content and nothing else, it is the
\* one the detached hash is of, and "complete" means every required report is
\* there, of the manifest's commit, over the corpus listed, with one workload.
\* And a manifest seals what was there together, whoever was writing meanwhile.
EnvelopeBinds ==
  /\ judged = "clean" =>
      LET was == instant[1]  m == was[Manifest] IN
      /\ m.files = PayloadOf(was) /\ was[Detached] = m
      /\ m.status = "complete" =>
           /\ Required \subseteq DOMAIN was
           /\ \A n \in CorpusReports : was[n] = [commit |-> m.source_commit, corpus |-> was[CorpusList].corpus,
                                               workload |-> was[n].workload, passed |-> TRUE]
           /\ Cardinality({was[n].workload : n \in CorpusReports}) = 1
           /\ was[Mutation].commit = m.source_commit /\ was[Mutation].passed
  /\ sealed.of # <<>> => sealed.manifest.files = PayloadOf(sealed.of[1])
=============================================================================
