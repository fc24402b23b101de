\* Every kind of request, on accounts opened with any currency; four sessions, two connections.
SPECIFICATION FairCachedSpec
CONSTANTS
    Account = {1, 2}
    MaxUUID = 2
    Calls = {c1, c2}
    Worker = Worker
    None = None
    MaxConns = 2
    MaxBigint = 3
    OpenCurrencies = {0, 7, 65537}
    OpeningBalances = {2}
    Key = {k1, k2}
    k1 = k1
    k2 = k2
    NilKey = NilKey
    Requests <- CheckRequests
INVARIANTS
    CurrencyConsistent
    CacheTrue
PROPERTIES
    ImplementsGateway
    AllAnsweredFilled
