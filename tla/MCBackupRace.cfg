\* Four sealers, two proposals split by the network, two restarts.
CONSTANTS
    n1 = n1
    n2 = n2
    n3 = n3
    n4 = n4
    a = a
    b = b
    Nodes = {n1, n2, n3, n4}
    Blocks = {a, b}
    NoBlock = NoBlock
    Reach <- SplitReach
    Crashers = {n2, n3}
    MaxHeight = 1
    MaxView = 0
    MaxRestarts = 2
SYMMETRY SplitSymmetry
SPECIFICATION Spec
INVARIANT BackupPreventsFork
