CONSTANTS
    a = a
    b = b
    NoCwd = NoCwd
    NotFound = NotFound
    Failed = Failed
    Cwds <- TwoCwds
    RetryCommits = FALSE
    MaxNonce = 2
SYMMETRY Symmetry
SPECIFICATION ViewSpec
INVARIANT ViewTypeOK
PROPERTY SelectedWasHome
