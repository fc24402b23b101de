\* Four streams and two workers over a queue of one, with failing calls and cancellation.
SPECIFICATION FairSpec
CONSTANTS
    NumAccounts = 3
    CurrencyOf <- TwoCurrencies
    Opening <- OpenWithTwo
    Streams = {"valid", "invalid_balance", "invalid_currency", "stats"}
    NumWorkers = 2
    None = None
    QueueSize = 1
    MaxRecent = 1
    Trim = 1
    InvalidBalanceAmount = 100
    MaxJobs = 2
    MaxFaults = 1
INVARIANTS
    ReservationInv
    PoolMatchesServer
    Settled
PROPERTIES
    Shutdown
