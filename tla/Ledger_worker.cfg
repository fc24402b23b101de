\* Two transfers, an account being opened, and a worker that may fail or restart once.
SPECIFICATION FairOneOpenSpec
CONSTANTS
    Account = {1, 2}
    MaxUUID = 2
    Calls = {c1, c2}
    Worker = Worker
    None = None
    MaxConns = 2
    MaxBigint = 9
    OpenCurrencies = {1}
    OpeningBalances = {2}
    Key = {k1, k2}
    k1 = k1
    k2 = k2
    k3 = k3
    NilKey = NilKey
    Requests <- CounterRequests
    BatchSize = 2
    MaxSteps = 2
    MaxWorkerFailures = 1
INVARIANTS
    LedgerTypeOK
    NoSessionWaitCycle
    WorkerHoldsOneRow
PROPERTIES
    DriftOnlyByCorrection
    CatchesUp
