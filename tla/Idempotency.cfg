\* Three deliveries of one request, failures of Redis, lost answers, crashes, clients that send again.
SPECIFICATION FairSpec
CONSTANTS
    Calls = {c1, c2, c3}
    Keys = {k1}
    k1 = k1
    KeyOf <- OneKey
    None = None
    MaxFaults = 3
INVARIANTS
    SameAnswer
    OneHolder
    IdemInv
PROPERTIES
    CompletedStays
    NoLockout
