\* Both sealers of two, two heights, no timeouts.
CONSTANTS
    a = a
    b = b
    empty = empty
    NoBlock = NoBlock
    m_maxFuturePrepareCacheSize = 2
    Nodes = {0, 1}
    Engines = {0, 1}
    Inbox <- NoInbox
    Blocks = {a}
    EmptyBlocks = {}
    BadBlocks = {}
    Forwarding = FALSE
    Syncing = FALSE
    Crashers = {}
    MaxHeight = 2
    MaxView = 0
    MaxRestarts = 0
SPECIFICATION FairSpec
PROPERTIES Progress
