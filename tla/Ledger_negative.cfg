\* A correction that loses debits lets account 1 pay more than it has.
SPECIFICATION TwoOpenSpec
CONSTANTS
    Account = {1, 2, 3}
    MaxUUID = 3
    Calls = {c1, c2, c3}
    Worker = Worker
    None = None
    MaxConns = 3
    MaxBigint = 9
    OpenCurrencies = {1}
    OpeningBalances = {2}
    Key = {k1, k2, k3}
    k1 = k1
    k2 = k2
    k3 = k3
    NilKey = NilKey
    Requests <- DrainRequests
    BatchSize = 8
    MaxSteps = 2
    MaxWorkerFailures = 0
SYMMETRY DrainSymmetry
CONSTRAINT Calm
INVARIANT JournalNeverNegative
