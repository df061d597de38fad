\* Every failure that is reported: four pods, two calls at once, one failure.
CONSTANTS
    t1 = t1
    t2 = t2
    t3 = t3
    t4 = t4
    shared = shared
    single = single
    Targets = {t1, t2, t3, t4}
    Volumes = {shared, single}
    VolumeOf <- ThreeAndOne
    Shared = {shared}
    Workers = {w1, w2}
    None = None
    LastCode = 49
    Faults = {"credential", "createDest", "metrics", "write", "mount", "bind", "umount", "remount", "globalDir"}
    MaxFaults = 1
SPECIFICATION Spec
INVARIANTS UnpublishedStaysClean OneMountPerTarget GlobalMountsBounded
PROPERTIES ServiceSpec
SYMMETRY SymmetryShared
CHECK_DEADLOCK FALSE
