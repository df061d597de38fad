\* No fault: three concurrent saves, two buckets, two pairs.
CONSTANTS
    Buckets = {b1, b2}
    Keys = {k1, k2}
    Pairs = {k1, k2}
    CutsOf <- EveryCut
    Handlers = {h1, h2, h3}
    None = None
    MaxLines = 2
    Faults = {}
SPECIFICATION Spec
INVARIANTS AckedIsReadable AckedIsLast
PROPERTY StoreSpec
SYMMETRY Symmetry
