\* One sealer of four, three heights with view changes, forwarded copies of every
\* message, empty and failing blocks.
CONSTANTS
    a = a
    b = b
    empty = empty
    NoBlock = NoBlock
    m_maxFuturePrepareCacheSize = 2
    Nodes = {0, 1, 2, 3}
    Engines = {2}
    Inbox <- ThreeHeights
    Blocks = {a, b, empty}
    EmptyBlocks = {empty}
    BadBlocks = {b}
    Forwarding = TRUE
    Syncing = TRUE
    Crashers = {}
    MaxHeight = 3
    MaxView = 1
    MaxRestarts = 0
SPECIFICATION Spec
INVARIANTS NoQuorumOverlooked OneProposalPerView FutureCacheSound
PROPERTIES ViewChangeBacked
