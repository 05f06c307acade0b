------------------------------ MODULE Evidence ------------------------------
(***************************************************************************)
(* bench/rungs/crest/evidence: crest_evidence.py packages one benchmark    *)
(* and one test run of a clean checkout with the sources they ran on,      *)
(* verify.py reads a package back, monograph.py writes its report and      *)
(* writes it again later.  A file is its content; a hash is the content    *)
(* it names.  The checkout, the shared output directory of the benchmark   *)
(* and what befalls a kept package are the work of others.                 *)
(***************************************************************************)
EXTENDS Naturals, FiniteSets

CONSTANTS Damaged,     \* content a file was left with by accident
          MaxCommits, MaxRevisionMoves, MaxDamages,
          Promotions  \* contracts: what is comparable, authorized, blocked

ASSUME EvidenceAssumption ==
    /\ MaxCommits \in Nat \ {0} /\ MaxRevisionMoves \in Nat /\ MaxDamages \in Nat
    /\ Damaged \notin Nat

VARIABLES contract,  \* the promotion sets of the evidence contract
          revision,  \* HEAD
          dirty,     \* whether the checkout differs from HEAD
          output,    \* the benchmark's files in .local: its run, csv, manifest
          pstep,     \* what package() is doing
          pinned,    \* the commit package() found
          package,   \* file -> content, in the stage or published
          publishedEvidence, \* the package as it was published, none at first
          accepted,  \* what verify said last
          revisionMoves, damages,
          excusedDirt,   \* history: the checkout went back
          foreign        \* history: what was copied is not what this benchmark wrote

eviVars == <<contract, revision, dirty, output, pstep, pinned, package, publishedEvidence, accepted,
             revisionMoves, damages, excusedDirt, foreign>>
outside == <<contract, revision, dirty, revisionMoves, damages, excusedDirt>>

Profile == "q1-b8"
Nothing_ == <<>>
EmptyStore == [f \in {} |-> Damaged]

With(p, files) == [f \in DOMAIN p \cup DOMAIN files |->
                     IF f \in DOMAIN files THEN files[f] ELSE p[f]]

PayloadIn == {"run", "csv", "corpus", "benchmark log", "test log", "test artifact",
              "command log", "source", "commit", "machine", "monograph", "monograph hash"}
FileSet == PayloadIn \cup {"manifest", "detached"}

---------------------------------------------------------------------------
(* monograph.write and crest_evidence._reseal.                             *)
MonographOf(p, commit, source, run, test) ==
    [commit |-> commit, source |-> source, run |-> run, test |-> test,
     table |-> p["run"], quotes |-> commit]
WithMonograph(p, m) == With(p, [f \in {"monograph", "monograph hash"} |-> m])
Sealed(p, manifest) ==
    LET m == [manifest EXCEPT !.files = [f \in PayloadIn |-> p[f]]]
    IN  With(p, [f \in {"manifest", "detached"} |-> m])

---------------------------------------------------------------------------
(* verify.py.                                                              *)
\* the manifest, its detached hash and a hash of every payload file
EnvelopeHolds(p) ==
    /\ DOMAIN p = FileSet
    /\ p["detached"] = p["manifest"] /\ p["manifest"] # Damaged
    /\ \A f \in PayloadIn : p["manifest"].files[f] = p[f]
\* the archive is what git makes of the commit, the monograph quotes it
RevisionHolds(p) ==
    /\ p["commit"] = p["manifest"].commit
    /\ p["source"] = p["manifest"].source /\ p["source"] = p["manifest"].commit
    /\ p["monograph"].quotes = p["manifest"].commit
\* nothing matched was pruned, in no query and no random mode
MatcherHolds(p) == p["run"] # Damaged /\ p["run"].sound
\* the persisted layout was validated
ProductionHolds(p) == p["run"].validated
\* the figures of the csv, up to half their last digit, and its first two
\* comments are the run's; the rest of it - later comments, cells beyond the
\* header, the digits themselves - is read by nothing but the manifest's hash
CsvHolds(p) == p["csv"] # Damaged /\ p["csv"].figures = p["run"].run
\* the manifest of files is the run's
CorpusHolds(p) == p["corpus"] = p["run"].corpus
BenchmarkHolds(p) ==
    MatcherHolds(p) /\ ProductionHolds(p) /\ CorpusHolds(p) /\ CsvHolds(p)
RunHolds(p) ==
    /\ BenchmarkHolds(p)
    /\ p["corpus"] = p["manifest"].corpus /\ p["manifest"].matcher = p["run"].sound
Promoted ==
    /\ contract.authorized \cap contract.blocked = {}
    /\ contract.authorized \cup contract.blocked = contract.comparable
    /\ Profile \in contract.authorized
ReceiptsHoldUnbound(p) ==
    /\ p["test artifact"] = [commit |-> p["manifest"].commit, log |-> p["test log"]]
    /\ p["manifest"].test = p["test artifact"]
    /\ p["command log"] = [benchmark |-> p["benchmark log"], test |-> p["test log"],
                           commit |-> p["manifest"].commit]
ReceiptsHold(p) == ReceiptsHoldUnbound(p) /\ p["manifest"].run = p["run"]
EnvironmentHolds(p) ==
    /\ p["machine"] = p["manifest"].machine
    /\ p["manifest"].log = p["command log"]
    /\ p["manifest"].environment = p["machine"]
MonographHolds(p) ==
    /\ p["monograph"] # Damaged /\ p["monograph hash"] = p["monograph"]
    /\ p["monograph"] = MonographOf(p, p["manifest"].commit, p["manifest"].source,
                                    p["manifest"].run, p["manifest"].test)
verify_package(p) ==
    /\ EnvelopeHolds(p)
    /\ RunHolds(p) /\ Promoted
    /\ ReceiptsHold(p) /\ EnvironmentHolds(p)
    /\ MonographHolds(p) /\ RevisionHolds(p)

---------------------------------------------------------------------------
\* what a benchmark leaves in .local; `rest' is what verify.py does not read
LeftBy(n, sound, validated, built) ==
    [run |-> n, corpus |-> n, csv |-> [figures |-> n, rest |-> 0], sound |-> sound,
     validated |-> validated, built |-> built]

\* .local may hold what an earlier run left
EvidenceInit ==
    /\ contract \in Promotions
    /\ revision = 1 /\ dirty \in BOOLEAN /\ output \in {Nothing_, LeftBy(0, TRUE, TRUE, <<0, FALSE>>)}
    /\ pstep = "idle" /\ pinned = 0 /\ package = EmptyStore /\ publishedEvidence = Nothing_
    /\ accepted = FALSE /\ revisionMoves = 0 /\ damages = 0 /\ excusedDirt = FALSE /\ foreign = FALSE

(* Others.                                                                 *)
Move == /\ pstep \notin {"kept", "refused"} /\ revisionMoves < MaxRevisionMoves /\ revisionMoves' = revisionMoves + 1
        /\ UNCHANGED <<contract, pstep, pinned, package, publishedEvidence, accepted, damages>>
TreeEdited   == ~dirty /\ dirty' = TRUE /\ Move /\ UNCHANGED <<revision, output, excusedDirt, foreign>>
TreeReverted == dirty /\ dirty' = FALSE /\ excusedDirt' = TRUE /\ Move /\ UNCHANGED <<revision, output, foreign>>
CommittedRevision    == /\ dirty /\ dirty' = FALSE /\ revision < MaxCommits
                        /\ revision' = revision + 1 /\ Move /\ UNCHANGED <<output, excusedDirt, foreign>>
\* the same profile measured by hand, or by corpus_archive.py, over other files
Rival == /\ output' = LeftBy(100 + revisionMoves, TRUE, TRUE, <<revision, dirty>>)
         /\ foreign' = (foreign \/ pstep = "copy") /\ Move /\ UNCHANGED <<revision, dirty, excusedDirt>>

(* crest_evidence.package.                                                 *)
Packs(step, to) == pstep = step /\ pstep' = to /\ UNCHANGED <<outside, foreign, accepted>>
Refuse == pstep' = "refused" /\ package' = EmptyStore

\* _clean_commit, and the contract of that commit
Begin_ == /\ pstep = "idle"
          /\ IF dirty THEN pstep' = "refused" /\ UNCHANGED pinned
                      ELSE pstep' = "benchmark" /\ pinned' = revision
          /\ UNCHANGED <<outside, foreign, accepted, output, package, publishedEvidence>>

\* the command may fail, and may succeed without having written anything: then
\* the files of an earlier run, if there are any, are taken for its own
Benchmark ==
    /\ pstep = "benchmark"
    /\ \/ /\ \E sound, validated \in BOOLEAN : output' = LeftBy(1, sound, validated, <<revision, dirty>>)
          /\ pstep' = "copy" /\ UNCHANGED foreign
       \/ pstep' = "copy" /\ foreign' = TRUE /\ UNCHANGED output
       \/ pstep' = "refused" /\ UNCHANGED <<output, foreign>>
    /\ UNCHANGED <<outside, accepted, pinned, package, publishedEvidence>>

\* the one check is that the three files are there
CopyArtifacts ==
    /\ pstep = "copy"
    /\ IF output = Nothing_ THEN Refuse
       ELSE /\ pstep' = "test"
            /\ package' = With(EmptyStore,
                 [run |-> [run |-> output.run, corpus |-> output.corpus, sound |-> output.sound,
                           validated |-> output.validated, built |-> output.built],
                  csv |-> output.csv, corpus |-> output.corpus])
    /\ UNCHANGED <<outside, foreign, accepted, output, pinned, publishedEvidence>>

\* the test command, then git archive of the pinned commit, then the machine
TestAndArchive ==
    /\ pstep = "test"
    /\ \/ /\ pstep' = "seal"
          /\ package' = With(package,
               [f \in {"benchmark log", "test log", "source", "commit", "machine",
                       "test artifact", "command log"} |->
                  CASE f = "benchmark log" -> 1 [] f = "test log" -> <<revision, dirty>>
                    [] f = "machine" -> 1
                    [] f \in {"source", "commit"} -> pinned
                    [] f = "test artifact" -> [commit |-> pinned, log |-> <<revision, dirty>>]
                    [] OTHER -> [benchmark |-> 1, test |-> <<revision, dirty>>,
                                 commit |-> pinned]])
       \/ Refuse
    /\ UNCHANGED <<outside, foreign, accepted, output, pinned, publishedEvidence>>

Seal ==
    /\ Packs("seal", "recheck")
    /\ LET p == WithMonograph(package, MonographOf(package, pinned, package["source"],
                                                   package["run"], package["test artifact"]))
       IN  package' = Sealed(p, [files |-> EmptyStore, created |-> 1, commit |-> pinned, source |-> p["source"],
                                 run |-> p["run"], test |-> p["test artifact"],
                                 corpus |-> p["corpus"], matcher |-> p["run"].sound,
                                 machine |-> p["machine"], environment |-> p["machine"],
                                 log |-> p["command log"]])
    /\ UNCHANGED <<output, pinned, publishedEvidence>>

\* clean, at the same commit, and verified: then it is moved into place
CleanCommit == ~dirty /\ revision = pinned
PublishEvidence ==
            /\ pstep = "recheck"
            /\ IF CleanCommit /\ verify_package(package)
               THEN pstep' = "kept" /\ publishedEvidence' = <<package>> /\ UNCHANGED package
               ELSE Refuse /\ UNCHANGED publishedEvidence
            /\ UNCHANGED <<outside, foreign, accepted, output, pinned>>

---------------------------------------------------------------------------
(* A published package.                                                    *)
\* a file loses its content, or gets another that can still be read: a run is
\* replaced with the csv that goes with it, a csv in what nothing checks, a
\* manifest in its date, in the commit it names or in a hash
Harm == /\ pstep = "kept" /\ damages < MaxDamages /\ damages' = damages + 1 /\ accepted' = FALSE
        /\ UNCHANGED <<contract, revision, dirty, revisionMoves, excusedDirt, foreign, output, pstep,
                       pinned, publishedEvidence>>
DamageFile == /\ Harm
              /\ \E f \in FileSet : package' = [package EXCEPT ![f] = Damaged]
DamageRun == /\ Harm /\ package["run"] # Damaged
             /\ package' = [package EXCEPT !["run"].run = 2, !["csv"] = [figures |-> 2, rest |-> 0]]
DamageCsv == /\ Harm /\ package["csv"] # Damaged
             /\ package' = [package EXCEPT !["csv"].rest = 1]
DamageManifest ==
    /\ Harm /\ package["manifest"] # Damaged
    /\ \/ package' = [package EXCEPT !["manifest"].created = 2]
       \/ \E c \in 1 .. revision : package' = [package EXCEPT !["manifest"].commit = c]
       \/ \E f \in PayloadIn : package' = [package EXCEPT !["manifest"].files[f] = Damaged]

\* regenerate_monograph takes the manifest at its word and seals anew
Regenerate ==
    /\ pstep = "kept" /\ package["manifest"] # Damaged /\ package["run"] # Damaged
    /\ LET m == package["manifest"] IN
       package' = Sealed(WithMonograph(package, MonographOf(package, m.commit, m.source, m.run,
                                                            m.test)), m)
    /\ accepted' = verify_package(package')
    /\ UNCHANGED <<outside, foreign, output, pstep, pinned, publishedEvidence>>

Verification ==
    /\ pstep = "kept" /\ accepted' = verify_package(package)
    /\ UNCHANGED <<outside, foreign, output, pstep, pinned, package, publishedEvidence>>

EvidenceNext ==
    \/ TreeEdited \/ TreeReverted \/ CommittedRevision \/ Rival
    \/ Begin_ \/ Benchmark \/ CopyArtifacts \/ TestAndArchive \/ Seal \/ PublishEvidence
    \/ DamageFile \/ DamageRun \/ DamageCsv \/ DamageManifest \/ Regenerate \/ Verification
EvidenceSpec == EvidenceInit /\ [][EvidenceNext]_eviVars

---------------------------------------------------------------------------
\* Two packages are one piece of evidence: the same files but for what only
\* the manifest's own list of hashes covers - the rest of the csv, the date in
\* the manifest - and the list and its hash themselves.
SameEvidence(p, o) ==
    /\ \A f \in PayloadIn \ {"csv"} : p[f] = o[f]
    /\ p["csv"].figures = o["csv"].figures
    /\ \A k \in DOMAIN o["manifest"] \ {"files", "created"} : p["manifest"][k] = o["manifest"][k]

\* A package is published only if its tests ran on the very commit it names,
\* clean, as long as the tree was not taken back to where it was; and its
\* benchmark was sound, and ran there too, as long as nobody else ran the
\* benchmark between it and the copy, and it wrote what it was run for.  A
\* package that is accepted later is the evidence that was published, though
\* files were damaged and the report written anew from a manifest that was
\* taken at its word: no figure, log, source, machine or commit of it differs.
EvidenceBinds ==
    /\ publishedEvidence # Nothing_ =>
                  LET p == publishedEvidence[1] IN
                  /\ p["run"].sound /\ p["run"].validated /\ Promoted
                  /\ ~excusedDirt => p["test log"] = <<p["commit"], FALSE>>
                  /\ ~excusedDirt /\ ~foreign => /\ p["run"].built = <<p["commit"], FALSE>>
                                                 /\ p["run"].run = p["benchmark log"]
    /\ accepted => SameEvidence(package, publishedEvidence[1])

\* Not so: that every file of it is the very one (a csv or a manifest edited
\* where nothing looks is sealed anew with the report, and accepted).
AcceptedAsPublished == accepted => package = publishedEvidence[1]
=============================================================================
