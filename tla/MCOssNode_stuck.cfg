\* As many targets mounted as make the rune of the count the digit 1 (two here, 49 in the code).
CONSTANTS
    t1 = t1
    t2 = t2
    t3 = t3
    t4 = t4
    shared = shared
    single = single
    Targets = {t1, t2, t3}
    Volumes = {shared, single}
    VolumeOf <- TwoAndOne
    Shared = {shared}
    Workers = {w1, w2}
    None = None
    LastCode = 2
    Faults = {}
    MaxFaults = 0
SPECIFICATION FairSpec
PROPERTY EventuallyUnpublished
CHECK_DEADLOCK FALSE
