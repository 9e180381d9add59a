\* One sealer of four, three views of one height, forwarded copies of every message, room for
\* one future proposal.
CONSTANTS
    a = a
    b = b
    empty = empty
    NoBlock = NoBlock
    m_maxFuturePrepareCacheSize = 1
    Nodes = {0, 1, 2, 3}
    Engines = {1}
    Inbox <- ThreeViews
    Blocks = {a, b}
    EmptyBlocks = {}
    BadBlocks = {}
    Forwarding = TRUE
    Syncing = FALSE
    Crashers = {}
    MaxHeight = 2
    MaxView = 2
    MaxRestarts = 0
SPECIFICATION SealerSpec
INVARIANTS TypeOK VotesMatchProposal OneProposalPerView NoThreadDeadlock FutureCacheSound
PROPERTIES ViewsGrow LeaderProposes
