\* Two tags, no fault at all, one fork.
CONSTANTS
    s1 = s1
    s2 = s2
    tagA = tagA
    tagB = tagB
    bodyA = bodyA
    bodyB = bodyB
    worker = worker
    flush = flush
    NoBody = NoBody
    Senders = {s1}
    MaxNonce = 1
    Bodies = {bodyA, bodyB}
    Tags = {tagA, tagB}
    TagOf <- MCTagOf
    MaxTx = 2
    MaxEmptyHead = 1
    MaxForkDepth = 2
    MaxForks = 1
    MayRevert = FALSE
    Tickers = {worker}
    ReorgWindow = 2
    TagCapacity = 2
    MaxTagsPerPack = 2
    UnhealthyAfter = 2
    FaultKinds = {}
    MaxFaults = 0
    NoLimit = NoLimit
    StatusWindow = 8
    DegradedAfter = 1
SPECIFICATION Spec
INVARIANTS
    ReorgedIsRequeued
