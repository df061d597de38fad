\* Every fault, lost answers and restarts included: any two of three pods, one fault, and what retries achieve after it.
CONSTANTS
    t1 = t1
    t2 = t2
    t3 = t3
    t4 = t4
    shared = shared
    single = single
    Targets = {t1, t2, t3}
    Volumes = {shared, single}
    VolumeOf <- TwoAndOne
    Shared = {shared}
    Workers = {w1, w2}
    None = None
    LastCode = 49
    Faults = {"timeout", "restart", "nsenter", "credential", "createDest", "write", "mount", "reply", "bind", "umount", "remount", "globalDir"}
    MaxFaults = 1
SPECIFICATION FairSpec
CONSTRAINT TwoPods
INVARIANTS NoBareBind PublishedIsMounted MetricsBeforeMount
PROPERTIES ServiceSpec EventuallyPublished EventuallyUnpublished
CHECK_DEADLOCK FALSE
