\* Two batches confirmed in any order.
CONSTANTS
    s1 = s1
    twitter = twitter
    post = post
    junk = junk
    NoBody = NoBody
    Senders = {s1}
    MaxNonce = 1
    Bodies = {post, junk}
    Tags = {twitter}
    TagOf <- MCTagOf
    MaxTx = 2
    ServedTag = twitter
    Undecodable = {junk}
    Carried <- MCCarried
    Position <- MCPosition
    Blocks <- MCBlocks
    MaxStamp = 0
    MaxReorgs = 0
    BatchSize = 2
    CodeVersions = {1}
    MaxGen = 1
    IndexerFaultKinds = {}
    MaxIndexerFaults = 0
    CarefulReset = TRUE
    MaxResets = 0
SPECIFICATION IndexerFairSpec
PROPERTIES
    Converges
CHECK_DEADLOCK FALSE
