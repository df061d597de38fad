\* The read of uniqOssfsCredential fails.
CONSTANTS
    Buckets = {b1, b2}
    Keys = {k1, k2}
    Pairs = {k1, k2}
    CutsOf <- EveryCut
    Handlers = {h1, h2}
    None = None
    MaxLines = 1
    Faults = {"read"}
SPECIFICATION Spec
INVARIANT AckedIsReadable
