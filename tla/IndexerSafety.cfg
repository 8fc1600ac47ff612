\* Two batches that may be reorged and mined again, two versions of the code, one reset, one fault of any kind.
CONSTANTS
    s1 = s1
    twitter = twitter
    post = post
    junk = junk
    NoBody = NoBody
    Senders = {s1}
    MaxNonce = 1
    Bodies = {post, junk}
    Tags = {twitter}
    TagOf <- MCTagOf
    MaxTx = 2
    ServedTag = twitter
    Undecodable = {junk}
    Carried <- MCCarried
    Position <- MCPosition
    Blocks <- MCBlocks
    MaxStamp = 2
    MaxReorgs = 2
    BatchSize = 2
    CodeVersions = {1, 2}
    MaxGen = 2
    IndexerFaultKinds = {"refuse", "ack", "throw", "crash", "reset"}
    MaxIndexerFaults = 1
    CarefulReset = TRUE
    MaxResets = 1
SPECIFICATION IndexerFairSpec
INVARIANTS
    IndexerTypeOK
    BehindCursor
    ReorgsCascade
PROPERTIES
    FrozenStaysFrozen
    ConvergesInTime
CHECK_DEADLOCK FALSE
