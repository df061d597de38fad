\* The last target of a shared volume is unpublished.
CONSTANTS
    t1 = t1
    t2 = t2
    t3 = t3
    t4 = t4
    shared = shared
    single = single
    Targets = {t1, t2}
    Volumes = {shared, single}
    VolumeOf <- OneEach
    Shared = {shared}
    Workers = {w1, w2}
    None = None
    LastCode = 49
    Faults = {}
    MaxFaults = 0
SPECIFICATION Spec
INVARIANT SharedIsReleased
CHECK_DEADLOCK FALSE
