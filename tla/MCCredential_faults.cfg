\* Every fault: what the lock still guarantees, and that calls return.
CONSTANTS
    Buckets = {b1, b2}
    Keys = {k1}
    Pairs = {k1, cut}
    CutsOf <- EveryCut
    Handlers = {h1, h2}
    None = None
    MaxLines = 1
    Faults = {"read", "open", "write", "restart"}
SPECIFICATION FairSpec
INVARIANTS MutualExclusion
PROPERTY SaveReturns
