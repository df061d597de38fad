\* Two requests at once, with and without a filter; the disk stays and nothing fails.
CONSTANTS
    v1 = v1
    v2 = v2
    Scrapers = {s1, s2}
    Pvs = {v1}
    Devices = {vdb, vdc}
    Pods = {p1, p2}
    Queries <- FirstClaim
    None = None
    Faults = {}
    MaxFaults = 0
    MaxMoves = 0
SPECIFICATION Spec
INVARIANTS FilterStays
CHECK_DEADLOCK FALSE
