\* Two sealers, a view change and a restart.
CONSTANTS
    n1 = n1
    n2 = n2
    n3 = n3
    n4 = n4
    a = a
    b = b
    Nodes = {n1, n2}
    Blocks = {a, b}
    NoBlock = NoBlock
    Reach <- FullReach
    Crashers = {n1, n2}
    MaxHeight = 1
    MaxView = 1
    MaxRestarts = 1
SYMMETRY FullSymmetry
SPECIFICATION Spec
INVARIANT TypeOK
PROPERTY ImplementsVoting
