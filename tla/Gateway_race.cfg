\* Three concurrent calls on two accounts, one of the keys used twice, at the limits of the balance.
SPECIFICATION Spec
CONSTANTS
    Account = {1, 2}
    MaxUUID = 2
    Calls = {c1, c2, c3}
    Worker = Worker
    None = None
    MaxConns = 3
    MaxBigint = 3
    OpenCurrencies = {1}
    OpeningBalances = {2}
    Key = {k1, k2}
    k1 = k1
    k2 = k2
    NilKey = NilKey
    Requests <- RaceRequests
SYMMETRY CallSymmetry
INVARIANTS
    LedgerInv
    BalanceMatchesPostings
    LatestIsMax
    NoOverdraft
    NoWaitCycle
    ReplyFaithful
PROPERTIES
    AtomicSpec
