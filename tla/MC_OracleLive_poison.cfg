\* One node; an entry may be malformed (a field the decoder slices is short).
CONSTANTS
    Nodes = {n1}
    Swaps = {s1, s2}
    Accounts = {a1, a2}
    Custody = a1
    BLOCK_DURATION = 2
    Classes = {"ok", "malformed"}
    MaxBadAnswers = 0
    NoTx = NoTx

SPECIFICATION LiveSpec

PROPERTY EventuallySynced
