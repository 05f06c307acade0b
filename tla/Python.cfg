SPECIFICATION Spec
CONSTANTS
    Thread = {t1, t2}
    Source = {s1, s2}
    MaxCache = 1
    MaxPattern = 2
    MaxHandle = 2
    NoHandle = NoHandle

    Slot = {x, y}
    Iter = {i}
    N = 3
    Batch = 2

    Asker = {a1, a2}
    Faces = {"kin", "rank"}
    Terms = {m1, m2}
    Obstacle <- ObstacleOf

    Window = 2
    MaxChars = 3
    MaxBytes = 3
    Limits = {0, 1, 2}
    NoMatch = NoMatch
    NoGroup = NoGroup
    Blade = Blade

    Letter = {"a", "b"}
    Width <- WidthOf
    Terminal = {"as", "ab", "any", "b_", "bad"}
    Language <- LanguageOf
    Declined = {"bad"}
    MaxSubject = 3
    MaxSlate = 2

    Caller = {c1, c2}
    Dir = {"x", "y"}
    Root = {"r"}
    Face = {"kin", "rank"}
    PlaneOf <- PlaneOfFace
    MaxEngines = 1
    MaxOpened = 2
    NRows = 1

    Symbol = {"compile", "open", "next"}
    AbiPlaneOf <- PlaneOfSymbol
    First = "regex"

    ListedAnswers = 2
    Rows = 2
    MaxCalls = 2

    Groups = 10
    Named = 2
    TemplateWords <- TemplateTexts
    Repeated <- RepeatedTexts
    Templates = 1

    Schema = {"ranked", "kin"}
    SchemaFields <- FieldsOfSchema
    HandMade <- HandsMade

    MaxChanges = 1

    Families = {"kinship", "retrieval", "sweep", "compose", "rank", "tree", "pattern", "argv"}
    MaxGiven = 2

    Docs = {"x"}
    Contents = {{"lit"}, {"lit", "run"}}
    AtFirst = {{"lit"}, {"gone"}}
    DirArrives = TRUE
    MaxClock = 1
    MaxEdits = 1
    MaxBuilds = 1

    CodexBytes = {1, 2}
    MaxText = 4
    MaxWord = 3
    Rates = {0, 1, 2, 99}

    Measures = {0, 25, 26, 50, 51, 75, 76, 100}

    Matrix <- MatrixOf
    OsOf <- HostOf
    EarlierRuns = TRUE

    Platform = {p1, p2}
    Mirror = {"manifest", "constant"}
    MaxHeaderMoves = 1

    MaxUploads = 2

    RequiredTables = {"linux"}
    Sub = {"sub"}
    Layers = {"B", "C"}
    MayDegrade = {"B"}
    Claims = {"x"}
    Need = {"zig", "csearch"}
    KnownDigests = {"zig", "csearch"}
    ToolLists <- ToolSets
    Corpora <- CorporaOf
    Declared <- DeclaredOf
    MaxMints = 2
    MaxFailedCopies = 1
    NoTable = NoTable

    ListedFiles <- FilesListed
    MaxTreeEdits = 2
    PerHundred = 50

    Tracked <- TrackedFiles
    Untracked <- UntrackedFiles
    MaxTreeMoves = 2

    Catalog <- CatalogOf
    TestOf <- TestsOf
    Expected <- TestsRun
    MaxTampers = 1
    MaxSources = 2

    ZipOf <- ArchivesOf
    MaxMemberSize = 2
    MaxTotal = 2
    MaxMembers = 2
    Artifacts = {"csv", "run", "corpus"}
    MaxStagingWrites = 2

    Damaged = Damaged
    Promotions <- PromotionsOf
    MaxCommits = 2
    MaxRevisionMoves = 2
    MaxDamages = 2

    Sorted <- EvidenceNames
    CorpusReports = {"q1-report.json", "q4-report.json"}
    MaxForeignWrites = 1

    Taxonomies <- TaxonomiesOf
    TypeLabels <- TypeLabelOf
    PathLabel = "area/x"
    Small = "size/S"
    Large = "size/L"
    Mark = "status/t"
    HandLabels = {"bug"}
    OldLabel = "area/old"
    MaxEvents = 1
    MaxSyncs = 1

    NGroups = 3
    Parent <- NestingOf
    Names = {"inner", "other"}
    IndexOfName <- NameIndexOf
    MaxMatched = 2
    MaxEntrances = 3
    NotEntered = NotEntered
INVARIANTS
    LastIndexIsRe
    HandleConfined
    CacheSound
    HandlesLent
    LibraryHonest
    SearchIsRe
    RewriteIsRe
    LexingIsRe
    LadderHonest
    SeamHonest
    TemplatesAreRe
    RowsDecodeAlike
    ShellHonest
    QuestionsKept
    NarrowMissesNothing
    CodexIsItsText
    ReleasesWhole
    AttestationsTrue
    MutationsTrue
    EvidenceTrue
    TriageSettles
PROPERTY
    LoadIsAtomic
CHECK_DEADLOCK FALSE
