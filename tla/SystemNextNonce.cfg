\* Two nonces, the second taken by a message another Poster announced; no faults.
CONSTANTS
    s1 = s1
    tagA = tagA
    bodyA = bodyA
    bodyB = bodyB
    worker = worker
    NoBody = NoBody
    Senders = {s1}
    MaxNonce = 1
    Bodies = {bodyA}
    Tags = {tagA}
    TagOf <- MCTagOf
    MaxTx = 2
    MaxEmptyHead = 1
    MaxForkDepth = 1
    MaxForks = 0
    MayRevert = FALSE
    Tickers = {worker}
    ReorgWindow = 1
    TagCapacity = 2
    MaxTagsPerPack = 1
    UnhealthyAfter = 2
    FaultKinds = {}
    MaxFaults = 0
    ReaderWindow = 1
    StartBlock = 1
    ChunkSize = 1
    MaxCommands = 0
    ReaderFaultKinds = {}
    MaxReaderFaults = 0
    CarefulOperator = TRUE
    AnnouncedPacks <- MCPacks
    PosterTx = {}
SPECIFICATION SystemSpec
INVARIANTS
    NextNonceIsFree
CHECK_DEADLOCK FALSE
