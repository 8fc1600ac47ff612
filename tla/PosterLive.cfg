\* One tag and one message per pack, a fork, and one crash, failed store
\* transaction or failed RPC call.
CONSTANTS
    s1 = s1
    s2 = s2
    tagA = tagA
    tagB = tagB
    bodyA = bodyA
    bodyB = bodyB
    worker = worker
    flush = flush
    NoBody = NoBody
    Senders = {s1}
    MaxNonce = 1
    Bodies = {bodyA}
    Tags = {tagA}
    TagOf <- MCTagOf
    MaxTx = 5
    MaxEmptyHead = 0
    MaxForkDepth = 2
    MaxForks = 1
    MayRevert = FALSE
    Tickers = {worker}
    ReorgWindow = 4
    TagCapacity = 1
    MaxTagsPerPack = 1
    UnhealthyAfter = 2
    FaultKinds = {"crash", "store", "rpc"}
    MaxFaults = 1
    NoLimit = NoLimit
    StatusWindow = 8
    DegradedAfter = 1
SPECIFICATION FairSpec
INVARIANTS
    ReorgedIsRequeued
PROPERTIES
    EventuallySettled
