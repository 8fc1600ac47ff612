\* One transaction, one backfill or reset, a verification that times out.
CONSTANTS
    s1 = s1
    tagA = tagA
    bodyA = bodyA
    bodyB = bodyB
    NoBody = NoBody
    Senders = {s1}
    MaxNonce = 1
    Bodies = {bodyA, bodyB}
    Tags = {tagA}
    TagOf <- MCTagOf
    MaxTx = 1
    MaxEmptyHead = 2
    MaxForkDepth = 1
    MaxForks = 0
    MayRevert = FALSE
    ReaderWindow = 1
    StartBlock = 1
    ChunkSize = 1
    MaxCommands = 1
    ReaderFaultKinds = {"verify"}
    MaxReaderFaults = 1
    CarefulOperator = TRUE
    AnnouncedPacks <- MCPacks
    PosterTx = {}
SPECIFICATION ReaderSpec
PROPERTY ReplayIdempotent
