\* Both sealers of two, one restart.
CONSTANTS
    a = a
    b = b
    empty = empty
    NoBlock = NoBlock
    m_maxFuturePrepareCacheSize = 2
    Nodes = {0, 1}
    Engines = {0, 1}
    Inbox <- NoInbox
    Blocks = {a}
    EmptyBlocks = {}
    BadBlocks = {}
    Forwarding = FALSE
    Syncing = FALSE
    Crashers = {0}
    MaxHeight = 1
    MaxView = 0
    MaxRestarts = 1
SPECIFICATION FairSpec
PROPERTIES StoredIsReported
