---------------------------- MODULE PythonProofs ----------------------------
(***************************************************************************)
(* The Python code as one specification: each part keeps its promises      *)
(* whatever the constants are.  A behaviour of MCPython is a behaviour of  *)
(* one part, so the parts' own invariants carry over.                      *)
(***************************************************************************)
EXTENDS MCPython, BindingProofs, ProgramProofs, EvidenceProofs

\* A step of the whole is a step of the part that was chosen, and of no other.
LEMMA OnePartMoves ==
    ASSUME [Next]_vars
    PROVE  /\ part' = part
           /\ [PoolNext]_poolVars
           /\ [LoaderNext]_loaderVars
           /\ part = "captures" => [CapturesNext]_capVars
           /\ part = "lend" => [LendNext]_lendVars
           /\ part = "ladder" => [LadderNext]_ladderVars
           /\ part = "seam" => [SeamNext]_seamVars
           /\ part = "shell" => [ShellNext]_shellVars
           /\ part = "narrow" => [NarrowNext]_narrowVars
           /\ part = "abi" => [AbiNext]_abiVars
           /\ part = "decode" => [DecodeNext]_decodeVars
           /\ part = "grades" => [GradesNext]_gradesVars
           /\ part = "wheels" => [WheelsNext]_wheelVars
           /\ part = "release" => [ReleaseNext]_releaseVars
           /\ part = "crate" => [CrateNext]_crateVars
           /\ part = "triage" => [TriageNext]_triVars
           /\ part = "certificate" => [CertificateNext]_certVars
           /\ part = "provenance" => [ProvenanceNext]_provVars
           /\ part = "snapshot" => [SnapshotNext]_snapVars
           /\ part = "mutants" => [MutantsNext]_mutVars
           /\ part = "staging" => [StagingNext]_stgVars
           /\ part = "evidence" => [EvidenceNext]_eviVars
           /\ part = "publication" => [PublicationNext]_publicationVars
  BY DEF Next, vars, AskingStep, ShellStep, DecodeStep, AbiStep, SeamStep, PoolStep, LendStep,
         LoaderStep, LadderStep, NarrowStep, VerbsStep, LexerStep, TemplateStep, CodexStep,
         GradesStep, CapturesStep, WheelsStep, ReleaseStep, CrateStep, TriageStep,
         CertificateStep, ProvenanceStep, SnapshotStep, MutantsStep, StagingStep, EvidenceStep,
         PublicationStep, askingParts, handleParts, textParts, releaseParts, measureParts,
         evidenceParts

\* A handle is released exactly once whatever closes it, and an iterator over one
\* yields every entry once, the handle's own as long as it stands, for any number
\* of handles, iterators and entries.
THEOREM HandlesAreLent == Spec => []HandlesLent
  <1> DEFINE Kept == part = "lend" => LendInv
  <1>1. Init => Kept
    BY LendInitInv DEF Init
  <1>2. Kept /\ [Next]_vars => Kept'
    BY OnePartMoves, LendStepInv
  <1>3. Kept => HandlesLent
    BY LendInvImplies DEF HandlesLent
  <1> QED
    BY <1>1, <1>2, <1>3, PTL DEF Spec

\* The library that answers is the one that was chosen and agrees with the
\* declarations, for any number of faces, symbols and importing threads.
THEOREM LibraryIsHonest == Spec => []LibraryHonest
  <1> DEFINE Kept == LoaderInv /\ (part = "abi" => AbiInv)
  <1>1. Init => Kept
    BY LoaderStart, AbiInitInv DEF Init
  <1>2. Kept /\ [Next]_vars => Kept'
    BY OnePartMoves, LoaderStepInv, AbiStepInv
  <1>3. Kept => LibraryHonest
    BY AbiInvImplies DEF LibraryHonest, LoaderInv
  <1> QED
    BY <1>1, <1>2, <1>3, PTL DEF Spec

\* A cached engine answers for the directory it was opened in and stands until a
\* cache-full of others was opened after it, drift is never silent and a stream that
\* ended gave every row once, for any number of callers, directories and faces.
THEOREM LadderIsHonest == Spec => []LadderHonest
  <1> DEFINE Kept == part = "ladder" => LadderInv
  <1>1. Init => Kept
    BY LadderInitInv DEF Init
  <1>2. Kept /\ [Next]_vars => Kept'
    BY OnePartMoves, LadderStepInv
  <1>3. Kept => LadderHonest
    BY LadderInvImplies DEF LadderHonest
  <1> QED
    BY <1>1, <1>2, <1>3, PTL DEF Spec

\* A refusal names its own cause and a two-pass answer is one answer, for any
\* number of calls and answers.
THEOREM SeamIsHonest == Spec => []SeamHonest
  <1> DEFINE Kept == part = "seam" => SeamInv
  <1>1. Init => Kept
    BY SeamInitInv DEF Init
  <1>2. Kept /\ [Next]_vars => Kept'
    BY OnePartMoves, SeamStepInv
  <1>3. Kept => SeamHonest
    BY DEF SeamHonest, SeamInv
  <1> QED
    BY <1>1, <1>2, <1>3, PTL DEF Spec

\* A binary that fails is reported and the override is the law, however often the
\* place changes.
THEOREM ShellIsHonest == Spec => []ShellHonest
  <1> DEFINE Kept == part = "shell" => ShellInv
  <1>1. Init => Kept
    BY ShellInitInv DEF Init
  <1>2. Kept /\ [Next]_vars => Kept'
    BY OnePartMoves, ShellStepInv
  <1>3. Kept => ShellHonest
    BY ShellInvImplies DEF ShellHonest
  <1> QED
    BY <1>1, <1>2, <1>3, PTL DEF Spec

\* A search that opens few files misses none but of those a renamed directory
\* brought, for any set of documents and any number of edits and builds beside it.
THEOREM NarrowingMissesNothing == Spec => []NarrowMissesNothing
  <1> DEFINE Kept == part = "narrow" => NarrowInv
  <1>1. Init => Kept
    BY NarrowInitInv, NarrowAssumption DEF Init
  <1>2. Kept /\ [Next]_vars => Kept'
    BY OnePartMoves, NarrowStepInv
  <1>3. Kept => NarrowMissesNothing
    BY NarrowInvImplies DEF NarrowMissesNothing
  <1> QED
    BY <1>1, <1>2, <1>3, PTL DEF Spec

\* A mutation report is of one source and its kills are real, for any checkout, any
\* catalogue of mutants, and any number of edits and tamperings.
THEOREM MutationsAreTrue == Spec => []MutationsTrue
  <1> DEFINE Kept == (part = "snapshot" => SnapInv) /\ (part = "mutants" => MutInv)
  <1>1. Init => Kept
    BY SnapInitInv, MutInitInv DEF Init
  <1>2. Kept /\ [Next]_vars => Kept'
    BY OnePartMoves, SnapStepInv, MutStepInv
  <1>3. Kept => MutationsTrue
    BY SnapInvImplies, MutInvImplies DEF MutationsTrue
  <1> QED
    BY <1>1, <1>2, <1>3, PTL DEF Spec

\* A row is decoded alike over every transport into one class, and a stronger
\* score has no weaker grade, for any schemas, rows, channels and cuts.
THEOREM RowsAreDecodedAlike == Spec => []RowsDecodeAlike
  <1> DEFINE Kept == /\ part = "decode" => DecInv
                     /\ part = "grades" => GradesInv
  <1>1. Init => Kept
    BY DecInitInv, GradesInitInv DEF Init
  <1>2. Kept /\ [Next]_vars => Kept'
    BY OnePartMoves, DecStepInv, GradesStepInv
  <1>3. Kept => RowsDecodeAlike
    BY DecInvImplies, GradesInvImplies DEF RowsDecodeAlike
  <1> QED
    BY <1>1, <1>2, <1>3, PTL DEF Spec

\* A release that says it is whole is whole, current and verified, for any matrix
\* of targets, any bindings and platforms, any crates and any number of edits.
THEOREM ReleasesAreWhole == Spec => []ReleasesWhole
  <1> DEFINE Kept == /\ part = "wheels" => WheelsInv
                     /\ part = "release" => ReleaseInv
                     /\ part = "crate" => CrateInv
  <1>1. Init => Kept
    BY WheelsInitInv, ReleaseInitInv, CrateInitInv DEF Init
  <1>2. Kept /\ [Next]_vars => Kept'
    BY OnePartMoves, WheelsStepInv, ReleaseStepInv, CrateStepInv
  <1>3. Kept => ReleasesWhole
    BY WheelsInvImplies, ReleaseInvImplies, CrateInvImplies DEF ReleasesWhole
  <1> QED
    BY <1>1, <1>2, <1>3, PTL DEF Spec

\* What is attested about a measurement is what was measured, unless it was recorded
\* by hand or a copy of it failed, for any files, layers and places, however often a
\* run dies or a file is edited under it.
THEOREM AttestationsAreTrue == Spec => []AttestationsTrue
  <1> DEFINE Kept == /\ part = "certificate" => CertInv
                     /\ part = "provenance" => ProvInv
  <1>1. Init => Kept
    BY CertInitInv, ProvInitInv DEF Init
  <1>2. Kept /\ [Next]_vars => Kept'
    BY OnePartMoves, CertStepInv, ProvStepInv
  <1>3. Kept => AttestationsTrue
    BY CertInvImplies, ProvInvImplies DEF AttestationsTrue
  <1> QED
    BY <1>1, <1>2, <1>3, PTL DEF Spec

\* A receipt, a package and an envelope of evidence bind what they say they do, the
\* package all that is checked in it beside its list of hashes,
\* for any artifacts and names, and any number of writes, commits and damages.
THEOREM EvidenceIsTrue == Spec => []EvidenceTrue
  <1> DEFINE Kept == /\ part = "staging" => StgInv
                     /\ part = "evidence" => EviInv
                     /\ part = "publication" => PubInv
  <1>1. Init => Kept
    BY StgInitInv, EviInitInv, PubInitInv DEF Init
  <1>2. Kept /\ [Next]_vars => Kept'
    BY OnePartMoves, StgStepInv, EviStepInv, PubStepInv
  <1>3. Kept => EvidenceTrue
    BY EviInvImplies, PubInvImplies DEF EvidenceTrue, StgInv
  <1> QED
    BY <1>1, <1>2, <1>3, PTL DEF Spec

\* The robot's labels settle on what a thread's facts earn and overrule no hand,
\* for any taxonomy, any facts and any number of events, deliveries and syncs.
THEOREM LabelsDoSettle == Spec => []TriageSettles
  <1> DEFINE Kept == part = "triage" => TriInv
  <1>1. Init => Kept
    BY TriInitInv DEF Init
  <1>2. Kept /\ [Next]_vars => Kept'
    BY OnePartMoves, TriStepInv
  <1>3. Kept => TriageSettles
    BY TriInvImplies DEF TriageSettles
  <1> QED
    BY <1>1, <1>2, <1>3, PTL DEF Spec
=============================================================================
