CONSTANTS
    a = a
    b = b
    c = c
    NoCwd = NoCwd
    Cwds <- TwoCwds
    RetryCommits = FALSE
    MaxNonce = 2
SPECIFICATION Spec
SYMMETRY Symmetry
INVARIANT Recoverable
