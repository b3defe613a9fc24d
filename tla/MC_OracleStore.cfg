CONSTANTS
    Swaps = {s1, s2}
    Receivers = {r1, r2}
    MaxBatch = 2
    MaxEvents = 4

SPECIFICATION Spec

INVARIANT StoresAgree
INVARIANT EventsAlternate
INVARIANT EventsMatchStore
PROPERTY RecordsImmutable
