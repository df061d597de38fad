\* A pod on each of two volumes with buckets of their own; any one fault.
CONSTANTS
    t1 = t1
    t2 = t2
    shared = shared
    single = single
    bucket1 = bucket1
    bucket2 = bucket2
    old = old
    new = new
    cut = cut
    Targets = {t1, t2}
    Volumes = {shared, single}
    VolumeOf <- OneEach
    Shared = {shared}
    Workers = {w1, w2}
    None = None
    LastCode = 49
    Faults = {"timeout", "restart", "reply"}
    MaxFaults = 1
    Buckets = {bucket1, bucket2}
    Keys = {old, new}
    BucketOf <- BucketEach
    KeyOf <- NewPair
    Pairs = {old, new, cut}
    CutsOf <- CutOfNew
    MaxLines = 1
    FileFaults = {"read", "open", "write"}
SPECIFICATION MCFairSpec
INVARIANTS SavedPairIsThere NeverAnOldPair
PROPERTIES PublishedUnlessOthersSave
CHECK_DEADLOCK FALSE
