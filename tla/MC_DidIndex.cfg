\* Counts 0..150: the first 151 dids, with 2-digit hashes from count 44 on.
CONSTANTS
    Salt <- ProchainSalt
    HashLength = 6
    FirstCount = 0
    MaxDidCount = 150
INIT IndexInit
NEXT CreateIndex
PROPERTY IndexFresh
\* create stops for good once checked_add fails at MaxDidCount.
CHECK_DEADLOCK FALSE
