\* Drift that is still ahead of the cursor is repaired; a correction that fails its CHECK stops nothing.
SPECIFICATION AheadSpec
CONSTANTS
    Account = {1, 2, 3}
    MaxUUID = 3
    Calls = {c1, c2, c3, c4}
    c1 = c1
    c2 = c2
    c3 = c3
    c4 = c4
    Worker = Worker
    None = None
    MaxConns = 3
    MaxBigint = 9
    OpenCurrencies = {1}
    OpeningBalances = {2}
    Key = {k1, k2, k3, k4, k5}
    k1 = k1
    k2 = k2
    k3 = k3
    k4 = k4
    k5 = k5
    NilKey = NilKey
    Requests <- CounterRequests
    BatchSize = 8
    MaxSteps = 2
    MaxWorkerFailures = 0
PROPERTY
    RepairsAhead
