CONSTANTS
    a = a
    b = b
    c = c
    NoCwd = NoCwd
    Cwds <- ThreeCwds
    RetryCommits = FALSE
    MaxNonce = 3
SPECIFICATION Spec
SYMMETRY Symmetry
INVARIANTS TypeOK AuthorityIntact OneCopyAtRest NoOrphanStaging
PROPERTIES ForeignKept RelocationIsAtomic
