\* One sealer of four, two rounds, requests in any order.
CONSTANTS
    a = a
    b = b
    empty = empty
    NoBlock = NoBlock
    m_maxFuturePrepareCacheSize = 2
    Nodes = {0, 1, 2, 3}
    Engines = {2}
    Inbox <- TwoRounds
    Blocks = {a, b}
    EmptyBlocks = {}
    BadBlocks = {}
    Forwarding = FALSE
    Syncing = FALSE
    Crashers = {}
    MaxHeight = 2
    MaxView = 0
    MaxRestarts = 0
SPECIFICATION FairSpec
INVARIANTS NoQuorumOverlooked
PROPERTIES Progress
