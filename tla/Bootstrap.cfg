\* Two pods, two workers, two accounts; one fault and the cancellation, each at any point.
SPECIFICATION FairSpec
CONSTANTS
    Pod = {p1, p2}
    Rpc = {w1, w2, Main}
    BootstrapWorkers = {w1, w2}
    Main = Main
    NoAnswer = NoAnswer
    Currencies <- OneCurrency
    PerCurrency = 2
    OpeningBalances = {1}
    MaxFaults = 1
INVARIANTS
    BootstrapInv
    NoUseAfterClose
    PoolFaithful
PROPERTIES
    PodsEnd
    BootstrapEnds
    LoadgenExits
    TracksName
