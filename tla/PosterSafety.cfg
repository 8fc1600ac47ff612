\* One author with two nonces, two tags, one fault of any kind.
CONSTANTS
    s1 = s1
    s2 = s2
    tagA = tagA
    tagB = tagB
    bodyA = bodyA
    bodyB = bodyB
    worker = worker
    flush = flush
    NoBody = NoBody
    Senders = {s1}
    MaxNonce = 1
    Bodies = {bodyA, bodyB}
    Tags = {tagA, tagB}
    TagOf <- MCTagOf
    MaxTx = 3
    MaxEmptyHead = 1
    MaxForkDepth = 2
    MaxForks = 1
    MayRevert = FALSE
    Tickers = {worker}
    ReorgWindow = 1
    TagCapacity = 2
    MaxTagsPerPack = 2
    UnhealthyAfter = 2
    FaultKinds = {"crash", "send", "receipt", "store", "rpc"}
    MaxFaults = 1
    NoLimit = NoLimit
    StatusWindow = 8
    DegradedAfter = 1
SPECIFICATION Spec
INVARIANTS
    TypeOK
    AckedDurable
    TrackerDominates
    ConfirmedBacked
    OneLiveBatch
    CalmInclusion
    AcceptedIsVisible
PROPERTIES
    RowsImmutable
    ImplementsMessageLog
