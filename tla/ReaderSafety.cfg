\* Two transactions that may carry different messages at one key, one fork, one backfill or reset, one fault of any kind.
CONSTANTS
    s1 = s1
    tagA = tagA
    bodyA = bodyA
    bodyB = bodyB
    NoBody = NoBody
    Senders = {s1}
    MaxNonce = 1
    Bodies = {bodyA, bodyB}
    Tags = {tagA}
    TagOf <- MCTagOf
    MaxTx = 2
    MaxEmptyHead = 1
    MaxForkDepth = 1
    MaxForks = 1
    MayRevert = FALSE
    ReaderWindow = 1
    StartBlock = 1
    ChunkSize = 1
    MaxCommands = 1
    ReaderFaultKinds = {"tail_blob", "fill_blob", "decode", "verify", "lookup", "throw", "crash"}
    MaxReaderFaults = 1
    CarefulOperator = TRUE
    AnnouncedPacks <- MCPacks
    PosterTx = {1}
SPECIFICATION ReaderFairSpec
INVARIANTS
    ReaderTypeOK
    CursorComplete
    MessagesComplete
    ObservedBacked
PROPERTIES
    ReplayKeeps
    TailCatchesUp
