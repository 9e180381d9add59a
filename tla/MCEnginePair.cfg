\* Both sealers of two, two blocks, two views of one height.
CONSTANTS
    a = a
    b = b
    empty = empty
    NoBlock = NoBlock
    m_maxFuturePrepareCacheSize = 2
    Nodes = {0, 1}
    Engines = {0, 1}
    Inbox <- NoInbox
    Blocks = {a, b}
    EmptyBlocks = {}
    BadBlocks = {}
    Forwarding = FALSE
    Syncing = FALSE
    Crashers = {}
    MaxHeight = 1
    MaxView = 1
    MaxRestarts = 0
SPECIFICATION Spec
SYMMETRY BlockSymmetry
PROPERTIES ImplementsLocking
