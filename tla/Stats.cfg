\* Lost, doubled and reordered messages, failing handling, restarts, expiry. The worker waits
\* when there is nothing to do.
SPECIFICATION FairSpec
CHECK_DEADLOCK FALSE
CONSTANTS
    Tx = {t1, t2}
    Partition = {p1, p2}
    Readers = {r1}
    None = None
    MaxFaults = 2
INVARIANTS
    StatsInv
    ReadsFaithful
    OffsetCovers
PROPERTIES
    EveryMessageTried
