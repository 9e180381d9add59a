\* One sealer of four, a SignReq of the next view before a view change.
CONSTANTS
    a = a
    b = b
    empty = empty
    NoBlock = NoBlock
    m_maxFuturePrepareCacheSize = 2
    Nodes = {0, 1, 2, 3}
    Engines = {2}
    Inbox <- EarlySign
    Blocks = {a, b}
    EmptyBlocks = {}
    BadBlocks = {}
    Forwarding = FALSE
    Syncing = FALSE
    Crashers = {}
    MaxHeight = 1
    MaxView = 1
    MaxRestarts = 0
SPECIFICATION Spec
INVARIANTS EarlySignsCount
