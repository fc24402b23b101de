\* Two transfers with an account in common, and two crashes that lose commits.
SPECIFICATION FairSpec
CONSTANTS
    Account = {1, 2, 3}
    Key = {k1, k2}
    k1 = k1
    k2 = k2
    Ends <- TwoTransfers
    Prelogged = 2
    MaxCrashes = 2
INVARIANTS
    NoGhostTransfer
    SurvivorsUnique
PROPERTY
    RetriedLands
