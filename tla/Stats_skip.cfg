\* Violated: the offset passes a message that was not stored.
SPECIFICATION Spec
CHECK_DEADLOCK FALSE
CONSTANTS
    Tx = {t1, t2}
    Partition = {p1}
    Readers = {}
    None = None
    MaxFaults = 1
INVARIANTS
    OffsetAfterEffect
