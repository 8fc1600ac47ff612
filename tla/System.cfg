\* A Poster and a Reader on one store: one fork, one fault of each, a message posted twice with two bodies.
CONSTANTS
    s1 = s1
    tagA = tagA
    bodyA = bodyA
    bodyB = bodyB
    worker = worker
    NoBody = NoBody
    Senders = {s1}
    MaxNonce = 0
    Bodies = {bodyA, bodyB}
    Tags = {tagA}
    TagOf <- MCTagOf
    MaxTx = 2
    MaxEmptyHead = 1
    MaxForkDepth = 1
    MaxForks = 1
    MayRevert = FALSE
    Tickers = {worker}
    ReorgWindow = 1
    TagCapacity = 2
    MaxTagsPerPack = 1
    UnhealthyAfter = 2
    FaultKinds = {"crash", "send", "receipt", "store"}
    MaxFaults = 1
    ReaderWindow = 1
    StartBlock = 1
    ChunkSize = 1
    MaxCommands = 0
    ReaderFaultKinds = {"tail_blob", "decode", "verify", "lookup", "throw", "crash"}
    MaxReaderFaults = 1
    CarefulOperator = TRUE
    AnnouncedPacks <- MCPacks
    PosterTx = {}
SPECIFICATION SystemSpec
INVARIANTS
    OneStory
CHECK_DEADLOCK FALSE
