\* A lost update nobody corrects: the calls and the worker, without any fault.
SPECIFICATION FaultFreeSpec
CONSTANTS
    Account = {1, 2, 3}
    MaxUUID = 3
    Calls = {c1, c2}
    Worker = Worker
    None = None
    MaxConns = 3
    MaxBigint = 9
    OpenCurrencies = {1}
    OpeningBalances = {2}
    Key = {k1, k2}
    k1 = k1
    k2 = k2
    k3 = k3
    NilKey = NilKey
    Requests <- CounterRequests
    BatchSize = 8
    MaxSteps = 2
    MaxWorkerFailures = 0
PROPERTY EventuallyConsistent
