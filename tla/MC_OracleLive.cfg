\* Two nodes, concurrent workers, gossip; entries valid or undecodable.
CONSTANTS
    Nodes = {n1, n2}
    Swaps = {s1}
    Accounts = {a1, a2}
    Custody = a1
    BLOCK_DURATION = 2
    Classes = {"ok", "invalid"}
    MaxBadAnswers = 1
    NoTx = NoTx

SPECIFICATION LiveSpec

PROPERTY EventuallySynced
