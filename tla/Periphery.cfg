\* Each part around the store in a scene of its own.
CONSTANTS
    a = a
    b = b
    k = k
    m1 = m1
    m2 = m2
    c1 = c1
    c2 = c2
    x = x
    y = y
    b1 = b1
    b2 = b2
    b3 = b3
    h1 = h1
    h2 = h2
    ra = ra
    rb = rb
    rc = rc
    Owners = {a, b}
    Keys = {a, b, k}
    NoKey = NoKey
    Consents <- MCConsents
    Schemes = {1, 2}
    RegistryContracts = {"r1", "r2", "r3"}
    SchemeIdOf <- MCSchemeId
    NoRegistry = NoRegistry
    MaxIndex = 3
    Messages = {m1, m2}
    SenderOf <- MCSender
    ContentOf <- MCContent
    BlobContents = {c1}
    Precompiles = TRUE
    RecordsExposures = TRUE
    Core = Core
    Exposer = Exposer
    OtherCore = OtherCore
    ContractOwner = x
    Accounts = {x, y}
    Refusing = {y}
    Amounts = {1, 2}
    ChallengeWindows = {0, 1}
    DefaultStake = 1
    DefaultWindow = 1
    WithdrawalDelay = 1
    ResolutionPeriod = 1
    MaxTime = 2
    L1Batches = {b1, b2, b3}
    Carries <- MCCarries
    GuestRejects = {b3}
    MaxPosition = 3
    PageLimit = 2
    BatchLimit <- MCBatchLimit
    MaxFaults = 1
    MaxMoves = 3
    Absent = Absent
    Bad = Bad
    Huge = Huge
    AuthToken = Token
    Requests <- MCRequests
    Stored <- MCStored
    ProofHashes = {1, 2, 3, 4}
    ProofPage = 2
    MaxAt = 2
    Calls <- MCCalls
    ScanBlocks = 4
    MinChunk = 2
    ChunkSizes = {0, 1, 3}
    ProviderSpans = {1, 2, 3}
    Slots = 8
    ProbeDepth = 2
    Windows <- MCWindows
    Base = 16
    SenderBytes = 1
    NonceBytes = 1
    LengthBytes = 2
    SignatureBytes = 1
    FEBytes = 3
    FieldElements = 10
    Batches <- MCBatches
    Neighbours = {0, 1, 3, 4}
    StrayBytes = {0, 1, 2, 9}
    TimeBytes = 2
    HashBytes = 1
    TextLengthBytes = 1
    MaxTimestamp = 19
    MaxSafeInteger = 23
    MaxTagLen = 2
    NoUtf8 = 9
    Bom = 14
    Numbers = {1, 15, 16, 20, 25}
    Texts <- MCTexts
    UsableBytes = 10
    FrameSizes = {3, 15, 16, 20, 21, 30, 300}
    CodesPerTier = 16
    Corpora <- MCCorpora
    Pages <- MCPages
    ExposedBatches <- MCExposed
    ExposureStarts = {0, 1, 3}
    Encodings = {"binary", "abi"}
    WordBytes = 2
    Tags = {1, 2, 3}
    Incoming <- MCIncoming
    PolicyCapacity = 31
    AgeTrigger = 1
    CountTrigger = 2
    MaxTagsPerPack = 2
    IdlePoll = 1
    BackoffBase = 1
    BackoffCap = 2
    MaxArrivals = 3
    MaxPlannerTime = 2
    MaxReorgs = 1
    Senders = {a, b}
    RateWindow = 2
    MaxPerWindow = 2
    MaxSubmissions = 3
    MaxLimiterTime = 3
    Runs = {ra, rb, rc}
    TextOf <- MCText
    MaxStaleRetries = 1
    Apps = {"twitter", "blobble", "comments"}
    FeedIds = {1, 2}
    MaxStageMoves = 4
    MaxWidgetSteps = 10
    CommentRows <- MCCommentRows
    ForumRows <- MCForumRows
    Badged <- MCBadged
    HardCap = 3
    Transactions <- MCTransactions
    SegmentOf <- MCSegments
    Undecodable = Undecodable
    TwitterTag = "t1"
    MaxMined = 2
    MaxRuns = 2
    Finite <- MCFinite
    Whole <- MCWhole
    Addresses = {"address"}
    Bytes32s = {"bytes32"}
    TagLists = {"tags"}
    Uuids = {"uuid"}
    PostgresUrls = {"postgres", "other"}
    Flags = {"--yes", "--handler", "--version", "--current"}
    DeployBlock <- MCDeployBlock
    AbiDecoders = {}
    DotenvLevels = 2
    MinReorgWindow = 2
    MaxReorgWindow = 6
    DefaultReorgWindow = 3
    MinLogChunk = 2
    MaxLogChunk = 8
    MinGasCap = 2
    MaxPort = 8
    Startups <- MCStartups
    Down = Down
    Garbled = Garbled
    Bare = Bare
    AppTag <- MCAppTag
    Visits <- MCVisits
    Tabs = {1, 2}
    Overridable = {"readerUrl", "posterUrl", "contentTags", "limit"}
    InForm = {"readerUrl", "posterUrl", "contentTags"}
    Defaults <- MCDefaults
    ParsedAs <- MCParsedAs
    Forms <- MCForms
    Foreign <- MCForeign
    Says <- MCUrlSays
    MaxLoads = 3
SPECIFICATION Spec
INVARIANTS
    TablesAgree
    OnlyProvenKeys
    EscrowConserved
    ExposuresRecorded
    ProvenOnceWithoutGap
    ClientsAreServed
    ScanIsExact
    BlobReached
    EveryReaderAgrees
    AcceptedVerifies
    ContractReadsAsWritten
    OldestShips
    SignerNotCrowdedOut
    UserIsToldTheTruth
    ThreadsAreWhole
    TimelineAgrees
    StartsAsMeant
CHECK_DEADLOCK FALSE
