CONSTANTS
    t1 = t1
    t2 = t2
    Threads <- MCThreads
    MaxProbes = 1
    OpenDuration = 2
    WindowDuration = 0
    MaxWindowEntries = 1
    MinSamples = 1
    RateNum = 1
    RateDen = 1
    UsizeMod = 4
    StaleBound = 1
SPECIFICATION FairSpec
PROPERTY Recovery
