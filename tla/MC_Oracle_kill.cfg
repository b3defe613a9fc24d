CONSTANTS
    Nodes = {n1}
    Swaps = {s1}
    Accounts = {a1, a2}
    BLOCK_DURATION = 2
    MaxHeight = 4
    Classes = {"ok"}
    Src = Src
    NoAccount = NoAccount
    NoTx = NoTx

SPECIFICATION Spec

PROPERTY SourcesClearedWhenFetchFails
