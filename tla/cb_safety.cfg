CONSTANTS
    t1 = t1
    t2 = t2
    Threads <- MCThreads
    MaxProbes = 1
    OpenDuration = 2
    WindowDuration = 1
    MaxWindowEntries = 2
    MinSamples = 2
    RateNum = 1
    RateDen = 2
    UsizeMod = 8
    StaleBound = 1
SPECIFICATION Spec
SYMMETRY Symmetry
INVARIANTS TypeOK WindowCountExact
PROPERTY LeaseExclusive
