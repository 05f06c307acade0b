------------------------------ MODULE MCPython ------------------------------
(***************************************************************************)
(* One instance of every model of the Python code, for one run of TLC.     *)
(* The parts share no state: a behaviour is a behaviour of one of them,    *)
(* chosen at the start, while the variables of the others stay Idle.       *)
(***************************************************************************)
EXTENDS Pool, Lend, Loader, Verbs, Lexer, Ladder, Abi, Seam, Template,
        Decode, Shell, Asking, Narrow, Codex, Grades, Wheels,
        Release, Crate, Certificate, Provenance, Snapshot,
        Mutants, Staging, Evidence, Publication, Triage, Captures, TLC

(***************************************************************************)
(* Values of the constants.                                                *)
(***************************************************************************)
\* Loader: one face whose library opens, one whose library has drifted
ObstacleOf == [f \in Faces |-> IF f = "kin" THEN "clear" ELSE "drift"]

\* Lexer: a character of one byte and one of two, and what a terminal matches
WidthOf == [a |-> 1, b |-> 2]
ShortTexts == UNION {[1 .. k -> {"a", "b"}] : k \in 0 .. 3}
LanguageOf == [as   |-> {w \in ShortTexts : \A i \in 1 .. Len(w) : w[i] = "a"},
               ab   |-> {<<"a", "b">>},
               any  |-> {<<"a">>, <<"b">>},
               b_   |-> {<<"b">>},
               bad  |-> {<<>>}]

\* Ladder and Abi: which plane answers
PlaneOfFace == [f \in Face |-> IF f = "kin" THEN "agrees" ELSE "drifted"]
PlaneOfSymbol == [s \in Symbol |-> IF s = "compile" THEN "regex" ELSE "tree"]

\* Template: every text of three characters that can matter, longer ones after a
\* backslash and in a group's name
Letters == {"\\", "g", "<", ">", "0", "1", "4", "8", "n", "q", "-"}
TemplateTexts == UNION {[1 .. k -> Letters] : k \in 0 .. 3}
                 \cup {<<"\\">> \o w : w \in [1 .. 3 -> Letters]}
                 \cup {<<"\\", "g", "<">> \o w : w \in [1 .. 2 -> Letters]}
RepeatedTexts == {<<"\\", "1">>, <<"n">>, <<"\\">>, <<"\\", "1", "0", "4">>}

\* Decode: two schemas, and the types a caller may bind
FieldOf(n, t, o) == [name |-> n, tag |-> t, optional |-> o]
FieldsOfSchema == [s \in Schema |->
  IF s = "ranked" THEN <<FieldOf("kind", "enum", TRUE), FieldOf("parts", "rows", TRUE),
                         FieldOf("sure", "bool", FALSE)>>
  ELSE <<FieldOf("path", "text", FALSE), FieldOf("size", "number", TRUE),
         FieldOf("notes", "texts", FALSE)>>]
HandOf(ns, e, a, d) ==
  [names |-> ns, extra |-> e, absent |-> a, defaulted |-> d, grafted |-> FALSE]
HandsMade == {HandOf({"kind", "parts", "sure"}, {}, {"kind"}, {"parts"}),
              HandOf({"parts", "sure"}, {}, {}, {"parts"}),
              HandOf({"path", "size", "notes", "grade"}, {"grade"}, {"size"}, {"grade"})}

\* Wheels: three targets
MatrixOf == <<"mac", "lin", "win">>
HostOf == [mac |-> "macos", lin |-> "linux", win |-> "windows"]

\* Certificate: toolchains and corpora a table may have been measured with
ToolOf(n, k, i) == <<n, <<[kind |-> k, id |-> i]>>>>
ToolSets == {<<ToolOf("zig", "sha", 1), ToolOf("csearch", "sha", 2)>>,
             <<ToolOf("zig", "sha", 1), ToolOf("csearch", "sha", 1)>>}
FileOf(p, s, u) == [path |-> p, size |-> s, under |-> u]
CorporaOf ==
  {[id |-> "eco", roots |-> "src", sha |-> "good",
    rows |-> <<FileOf("a", 1, "src/"), FileOf("b", 2, "src/")>>, leaks |-> FALSE],
   [id |-> "private", roots |-> "home", sha |-> "x", rows |-> <<FileOf("z", 1, "home/")>>,
    leaks |-> TRUE]}
DeclaredOf == [eco |-> [roots |-> "src", sha |-> "good", allow |-> {"src/"}]]

\* Provenance, Snapshot, Mutants: files, and mutants sharing a test
FilesListed == <<"a", "b">>
TrackedFiles == <<"a", "b">>
UntrackedFiles == <<"u">>
CatalogOf == <<"m", "n">>
TestsOf == [m |-> "t", n |-> "t"]
TestsRun == [m |-> 1, n |-> 1]

\* Staging: an archive that fits, one with too many members, one too large
MemberOf(n, s) == [name |-> n, fold |-> n, dir |-> FALSE, link |-> FALSE, encrypted |-> FALSE,
                   safe |-> TRUE, size |-> s, bytes |-> s]
ArchivesOf == <<{MemberOf("a", 1)}, {MemberOf("a", 1), MemberOf("b", 1)}, {MemberOf("a", 3)}>>

\* Evidence: a promotion in order, and one that authorizes what it blocks
PromotionsOf ==
  {[comparable |-> {"q1-b8", "q4-b8"}, authorized |-> {"q1-b8"}, blocked |-> {"q4-b8"}],
   [comparable |-> {"q1-b8", "q4-b8"}, authorized |-> {"q1-b8", "q4-b8"}, blocked |-> {"q4-b8"}]}

\* Publication: what a directory of evidence holds, in the order of the walk
EvidenceNames == <<"PUBLICATION-EVIDENCE.sha256", "corpus-manifest.tsv", "mutation-report.json",
                   "publication-evidence.json", "q1-report.json", "q4-report.json">>

\* Captures: a group inside another and one beside it
NestingOf == <<0, 1, 0>>
NameIndexOf == [inner |-> 2]

\* Triage: labels.json in order, and one whose rules cite an undeclared label
TypeLabelOf == [fix |-> "type/fix"]
DeclaredLabels == {"type/fix", "area/x", "size/S", "size/L", "status/t", "bug"}
TaxonomiesOf ==
  {[declared |-> DeclaredLabels, namespaced |-> (DeclaredLabels \ {"bug"}) \cup {"area/old"},
    cited |-> cited] : cited \in {{"type/fix"}, {"type/deps"}}}
---------------------------------------------------------------------------
VARIABLE part

Parts == {"pool", "lend", "loader", "verbs", "lexer", "ladder", "abi",
          "seam", "template", "decode", "shell", "asking",
          "narrow", "codex", "grades", "wheels", "release",
          "crate", "certificate", "provenance", "snapshot",
          "mutants", "staging", "evidence", "publication",
          "triage", "captures"}
Idle == "idle"

\* the loader and the pool start in the one state they can start in, also when
\* another part runs: what is proved of them names their own definitions
Init ==
  /\ part \in Parts
  /\ PoolInit /\ LoaderInit
  /\ IF part = "lend" THEN LendInit ELSE obj = Idle /\ released = Idle /\ it = Idle
          /\ answer = Idle
  /\ IF part = "verbs" THEN VerbsInit ELSE haystack = Idle /\ reach = Idle /\ groups
          = Idle /\ call = Idle /\ reply = Idle
  /\ IF part = "lexer" THEN LexInit ELSE subject = Idle /\ slate = Idle /\ scanning
          = Idle /\ token = Idle
  /\ IF part = "ladder" THEN LadderInit ELSE cwd = Idle /\ planes = Idle /\ engines
          = Idle /\ openedRows = Idle /\ openNow = Idle /\ corpus = Idle /\ raced =
          Idle /\ ask = Idle
  /\ IF part = "abi" THEN AbiInit ELSE site = Idle /\ library = Idle /\ declared =
          Idle /\ pointers = Idle /\ route = Idle
  /\ IF part = "seam" THEN SeamInit ELSE slot = Idle /\ calls = Idle /\ compiled =
          Idle /\ told = Idle
  /\ IF part = "template" THEN TemplateInit ELSE templateCache = Idle /\ current =
          Idle /\ parsed = Idle
  /\ IF part = "decode" THEN DecodeInit ELSE mixins = Idle /\ bound = Idle /\
          fieldNames = Idle /\ standIns = Idle /\ decoded = Idle /\ last = Idle
  /\ IF part = "shell" THEN ShellInit ELSE place = Idle /\ cached = Idle /\ changes
          = Idle /\ proc = Idle /\ result = Idle
  /\ IF part = "asking" THEN AskingInit ELSE wanted = Idle /\ struct = Idle /\ held
          = Idle /\ reachable = Idle /\ read = Idle /\ askStep = Idle
  /\ IF part = "narrow" THEN NarrowInit ELSE docs = Idle /\ touched = Idle /\ carried = Idle /\ clock
          = Idle /\ docEdits = Idle /\ builds = Idle /\ indexing = Idle /\ onDisk =
          Idle /\ anchor = Idle /\ handle = Idle /\ plan = Idle /\ question = Idle
          /\ then = Idle /\ saw = Idle /\ found = Idle
  /\ IF part = "codex" THEN CodexInit ELSE indexed = Idle /\ selfIndex = Idle /\
          word = Idle /\ interval = Idle
  /\ IF part = "grades" THEN GradesInit ELSE channel = Idle /\ scored = Idle
  /\ IF part = "wheels" THEN WheelsInit ELSE host = Idle /\ dist = Idle /\ left =
          Idle /\ wheelStage = Idle /\ lib = Idle /\ only = Idle /\ failures = Idle
          /\ status = Idle
  /\ IF part = "release" THEN ReleaseInit ELSE headerTree = Idle /\ header = Idle /\
          vendored = Idle /\ tagNames = Idle /\ archive = Idle /\ linkfile = Idle /\
          mirror = Idle /\ manifested = Idle /\ corpora = Idle /\ lockfile = Idle /\
          built = Idle /\ chores = Idle /\ green = Idle /\ headerMoves = Idle
  /\ IF part = "crate" THEN CrateInit ELSE original = Idle /\ packed = Idle /\
          prepared = Idle /\ publishedCrate = Idle /\ uploads = Idle /\ sent = Idle
          /\ heard = Idle
  /\ IF part = "certificate" THEN CertificateInit ELSE out = Idle /\ pub = Idle /\
          complete = Idle /\ ledger = Idle /\ step = Idle /\ run = Idle /\ due = Idle
          /\ mints = Idle /\ copyFailures = Idle /\ short = Idle
  /\ IF part = "provenance" THEN ProvenanceInit ELSE sources = Idle /\ inode = Idle
          /\ allowDirty = Idle /\ clockAt = Idle /\ stepOf = Idle /\ before = Idle
          /\ chunks = Idle /\ manifestRows = Idle /\ digest = Idle /\ unstable =
          Idle /\ manifest = Idle /\ machine = Idle /\ treeEdits = Idle /\ history =
          Idle
  /\ IF part = "snapshot" THEN SnapshotInit ELSE workTree = Idle /\ head = Idle /\
          committed = Idle /\ treeMoves = Idle /\ looks = Idle /\ listing = Idle /\
          hashedTree = Idle /\ copied = Idle /\ snapStage = Idle /\ identity = Idle
          /\ seen = Idle
  /\ IF part = "mutants" THEN MutantsInit ELSE mstage = Idle /\ workspace = Idle /\
          sites = Idle /\ next = Idle /\ baselines = Idle /\ outcomes = Idle /\
          truth = Idle /\ source = Idle /\ captured = Idle /\ report = Idle /\
          verified = Idle /\ tampers = Idle
  /\ IF part = "staging" THEN StagingInit ELSE zip = Idle /\ archiveHash = Idle /\
          members = Idle /\ unpacked = Idle /\ disk = Idle /\ before_ = Idle /\
          openedArchive = Idle /\ sstep = Idle /\ receipt = Idle /\ stagingWrites =
          Idle /\ wentBack = Idle /\ rival = Idle /\ seenDisk = Idle
  /\ IF part = "evidence" THEN EvidenceInit ELSE contract = Idle /\ revision = Idle
          /\ dirty = Idle /\ output = Idle /\ pstep = Idle /\ pinned = Idle /\
          package = Idle /\ publishedEvidence = Idle /\ accepted = Idle /\
          revisionMoves = Idle /\ damages = Idle /\ excusedDirt = Idle /\ foreign = Idle
  /\ IF part = "publication" THEN PublicationInit ELSE inodes = Idle /\ bindings =
          Idle /\ dirStamp = Idle /\ time = Idle /\ foreignWrites = Idle /\ doing = Idle /\ descriptors
          = Idle /\ bytes = Idle /\ checked = Idle /\ sealed = Idle /\ judged = Idle
          /\ instant = Idle
  /\ IF part = "triage" THEN TriageInit ELSE taxonomy = Idle /\ forgeKind = Idle /\
          pull = Idle /\ facts = Idle /\ on = Idle /\ hand = Idle /\ exists = Idle
          /\ job = Idle /\ verdict = Idle /\ syncing = Idle /\ excusedLabels = Idle
          /\ events = Idle /\ syncs = Idle

  /\ IF part = "captures" THEN CapturesInit ELSE entered = Idle /\ atByte = Idle /\
          firsts = Idle /\ byteSpans = Idle /\ charSpans = Idle /\ lastClosed =
          Idle /\ entrances = Idle /\ matched = Idle /\ refusing = Idle /\ filled =
          Idle /\ answering = NotAnswering

askingParts   == <<askVars, shellVars, decodeVars, abiVars, seamVars>>
handleParts   == <<poolVars, lendVars, loaderVars, ladderVars, narrowVars>>
textParts     == <<verbVars, lexVars, templateVars, codexVars, gradesVars,
                   capVars>>
releaseParts  == <<wheelVars, releaseVars, crateVars, triVars>>
measureParts  == <<certVars, provVars, snapVars, mutVars>>
evidenceParts == <<stgVars, eviVars, publicationVars>>

\* one part moves, and nobody else
AskingStep ==
  /\ part = "asking" /\ AskingNext
  /\ UNCHANGED <<part, shellVars, decodeVars, abiVars, seamVars, handleParts,
                 textParts, releaseParts, measureParts, evidenceParts>>
ShellStep ==
  /\ part = "shell" /\ ShellNext
  /\ UNCHANGED <<part, askVars, decodeVars, abiVars, seamVars, handleParts,
                 textParts, releaseParts, measureParts, evidenceParts>>
DecodeStep ==
  /\ part = "decode" /\ DecodeNext
  /\ UNCHANGED <<part, askVars, shellVars, abiVars, seamVars, handleParts,
                 textParts, releaseParts, measureParts, evidenceParts>>
AbiStep ==
  /\ part = "abi" /\ AbiNext
  /\ UNCHANGED <<part, askVars, shellVars, decodeVars, seamVars, handleParts,
                 textParts, releaseParts, measureParts, evidenceParts>>
SeamStep ==
  /\ part = "seam" /\ SeamNext
  /\ UNCHANGED <<part, askVars, shellVars, decodeVars, abiVars, handleParts,
                 textParts, releaseParts, measureParts, evidenceParts>>
PoolStep ==
  /\ part = "pool" /\ PoolNext
  /\ UNCHANGED <<part, lendVars, loaderVars, ladderVars, narrowVars,
                 askingParts, textParts, releaseParts, measureParts,
                 evidenceParts>>
LendStep ==
  /\ part = "lend" /\ LendNext
  /\ UNCHANGED <<part, poolVars, loaderVars, ladderVars, narrowVars,
                 askingParts, textParts, releaseParts, measureParts,
                 evidenceParts>>
LoaderStep ==
  /\ part = "loader" /\ LoaderNext
  /\ UNCHANGED <<part, poolVars, lendVars, ladderVars, narrowVars, askingParts,
                 textParts, releaseParts, measureParts, evidenceParts>>
LadderStep ==
  /\ part = "ladder" /\ LadderNext
  /\ UNCHANGED <<part, poolVars, lendVars, loaderVars, narrowVars, askingParts,
                 textParts, releaseParts, measureParts, evidenceParts>>
NarrowStep ==
  /\ part = "narrow" /\ NarrowNext
  /\ UNCHANGED <<part, poolVars, lendVars, loaderVars, ladderVars, askingParts,
                 textParts, releaseParts, measureParts, evidenceParts>>
VerbsStep ==
  /\ part = "verbs" /\ VerbsNext
  /\ UNCHANGED <<part, lexVars, templateVars, codexVars, gradesVars, capVars,
                 askingParts, handleParts, releaseParts, measureParts,
                 evidenceParts>>
LexerStep ==
  /\ part = "lexer" /\ LexNext
  /\ UNCHANGED <<part, verbVars, templateVars, codexVars, gradesVars, capVars,
                 askingParts, handleParts, releaseParts, measureParts,
                 evidenceParts>>
TemplateStep ==
  /\ part = "template" /\ TemplateNext
  /\ UNCHANGED <<part, verbVars, lexVars, codexVars, gradesVars, capVars, askingParts,
                 handleParts, releaseParts, measureParts, evidenceParts>>
CodexStep ==
  /\ part = "codex" /\ CodexNext
  /\ UNCHANGED <<part, verbVars, lexVars, templateVars, gradesVars, capVars, askingParts,
                 handleParts, releaseParts, measureParts, evidenceParts>>
GradesStep ==
  /\ part = "grades" /\ GradesNext
  /\ UNCHANGED <<part, verbVars, lexVars, templateVars, codexVars, capVars, askingParts,
                 handleParts, releaseParts, measureParts, evidenceParts>>
CapturesStep ==
  /\ part = "captures" /\ CapturesNext
  /\ UNCHANGED <<part, verbVars, lexVars, templateVars, codexVars, gradesVars,
                 askingParts, handleParts, releaseParts, measureParts,
                 evidenceParts>>
WheelsStep ==
  /\ part = "wheels" /\ WheelsNext
  /\ UNCHANGED <<part, releaseVars, crateVars, triVars, askingParts,
                 handleParts, textParts, measureParts, evidenceParts>>
ReleaseStep ==
  /\ part = "release" /\ ReleaseNext
  /\ UNCHANGED <<part, wheelVars, crateVars, triVars, askingParts, handleParts,
                 textParts, measureParts, evidenceParts>>
CrateStep ==
  /\ part = "crate" /\ CrateNext
  /\ UNCHANGED <<part, wheelVars, releaseVars, triVars, askingParts,
                 handleParts, textParts, measureParts, evidenceParts>>
TriageStep ==
  /\ part = "triage" /\ TriageNext
  /\ UNCHANGED <<part, wheelVars, releaseVars, crateVars, askingParts,
                 handleParts, textParts, measureParts, evidenceParts>>
CertificateStep ==
  /\ part = "certificate" /\ CertificateNext
  /\ UNCHANGED <<part, provVars, snapVars, mutVars, askingParts, handleParts,
                 textParts, releaseParts, evidenceParts>>
ProvenanceStep ==
  /\ part = "provenance" /\ ProvenanceNext
  /\ UNCHANGED <<part, certVars, snapVars, mutVars, askingParts, handleParts,
                 textParts, releaseParts, evidenceParts>>
SnapshotStep ==
  /\ part = "snapshot" /\ SnapshotNext
  /\ UNCHANGED <<part, certVars, provVars, mutVars, askingParts, handleParts,
                 textParts, releaseParts, evidenceParts>>
MutantsStep ==
  /\ part = "mutants" /\ MutantsNext
  /\ UNCHANGED <<part, certVars, provVars, snapVars, askingParts, handleParts,
                 textParts, releaseParts, evidenceParts>>
StagingStep ==
  /\ part = "staging" /\ StagingNext
  /\ UNCHANGED <<part, eviVars, publicationVars, askingParts, handleParts,
                 textParts, releaseParts, measureParts>>
EvidenceStep ==
  /\ part = "evidence" /\ EvidenceNext
  /\ UNCHANGED <<part, stgVars, publicationVars, askingParts, handleParts,
                 textParts, releaseParts, measureParts>>
PublicationStep ==
  /\ part = "publication" /\ PublicationNext
  /\ UNCHANGED <<part, stgVars, eviVars, askingParts, handleParts, textParts,
                 releaseParts, measureParts>>

Next ==
  \/ PoolStep \/ LendStep \/ LoaderStep \/ VerbsStep \/ LexerStep \/
     LadderStep \/ AbiStep \/ SeamStep \/ TemplateStep \/ DecodeStep \/
     ShellStep \/ AskingStep \/ NarrowStep \/ CodexStep \/ GradesStep \/
     WheelsStep \/ ReleaseStep \/ CrateStep \/ CertificateStep \/
     ProvenanceStep \/ SnapshotStep \/ MutantsStep \/ StagingStep \/
     EvidenceStep \/ PublicationStep \/ TriageStep \/ CapturesStep
vars == <<part, poolVars, lendVars, loaderVars, verbVars, lexVars, ladderVars,
          abiVars, seamVars, templateVars, decodeVars, shellVars,
          askVars, narrowVars, codexVars, gradesVars, wheelVars,
          releaseVars, crateVars, certVars, provVars, snapVars,
          mutVars, stgVars, eviVars, publicationVars, triVars,
          capVars>>
Spec == Init /\ [][Next]_vars

---------------------------------------------------------------------------
\* A handle is released exactly once whatever closes it, and an iterator over one
\* yields every entry once, the handle's own as long as it stands (_shape.py,
\* _walk.py, _tree.py).
HandlesLent == part = "lend" => ReleasedOnce /\ IterationWhole

\* The library that answers is the one that was chosen and agrees with the
\* declarations: the product faces of runtime/loader.py and _abi.py's engine.
LibraryHonest == PairHonest /\ (part = "abi" => ChosenLibrary)

\* What the search verbs say over a region is what re says, and so is what a Match
\* says of its groups afterwards (_engine.py, _pattern.py, _match.py).
SearchIsRe == /\ part = "verbs" => MatchesAreRe
              /\ part = "captures" => AccessorsAreRe

\* What findall, sub and split make of it is re's too, on either path (_engine.py).
RewriteIsRe == part = "verbs" => RewritesAreRe

\* Scanning is longest match by declaration order, and fullmatch is re's
\* (_munch.py, _anchored.py).
LexingIsRe == part = "lexer" => LexIsMunch /\ FullIsRe

\* A cached engine answers for the directory it was opened in and stands until a
\* cache-full of others was opened after it; drift is never silent, and a stream that
\* ended gave every row once (runtime/analytic.py).
LadderHonest == part = "ladder" => CorpusRight /\ DriftLoud /\ RowsWhole /\ EngineStands

\* A refusal names its own cause, and a two-pass answer is one answer
\* (_abi.py, _shape.py, _set.py, _needles.py).
SeamHonest == part = "seam" => BlameTrue /\ AnswerWhole

\* A template means what re's means, cached or parsed (_replace.py).
TemplatesAreRe == part = "template" => TemplateIsRe

\* A row is the same whichever transport brought it, and its grades and their floors
\* follow its scores (runtime/decode.py, cold.py; contract/grades.py).
RowsDecodeAlike == /\ part = "decode" => TransportsAgree /\ OneClass
                   /\ part = "grades" => GradesFollowScores

\* A binary that fails is reported, and the override is the law (runtime/shell.py).
ShellHonest == part = "shell" => FailuresLoud /\ OverrideRules

\* The engine reads the question that was asked (contract/params.py, request.py).
QuestionsKept == part = "asking" => AskedIsRead

\* A search that opens few files misses none but of those that came in with a
\* directory (_sieve.py, _literals.py).
NarrowMissesNothing == part = "narrow" => NothingMissed

\* The self-index answers as its text would (_codex.py).
CodexIsItsText == part = "codex" => CodexIsText

\* What is released is whole, current and what the registry holds (tools/).
ReleasesWhole == /\ part = "wheels" => ReleaseWhole
                 /\ part = "release" => ReleaseCurrent
                 /\ part = "crate" => UploadVerified

\* What is published about a measurement is what was measured, unless a row was
\* recorded by hand or a copy failed (bench/certificate).
AttestationsTrue == /\ part = "certificate" => ReleaseAttested
                    /\ part = "provenance" => ManifestHonest

\* A mutation report is of one source, and its kills are real (research/crest/mutation).
MutationsTrue == /\ part = "snapshot" => IdentityOfOneInstant
                 /\ part = "mutants" => KillsAreReal

\* Every package of CREST evidence binds what it says it does (bench/rungs/crest,
\* research/crest/evidence).
EvidenceTrue == /\ part = "staging" => ReceiptBinds
                /\ part = "evidence" => EvidenceBinds
                /\ part = "publication" => EnvelopeBinds

\* Labels settle to what title, paths and hands say (.github/scripts/triage.py).
TriageSettles == part = "triage" => LabelsSettle
=============================================================================
