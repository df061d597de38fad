\* One disk that moves twice; two requests at once, with and without a filter, one fault.
CONSTANTS
    v1 = v1
    v2 = v2
    Scrapers = {s1, s2}
    Pvs = {v1}
    Devices = {vdb, vdc}
    Pods = {p1, p2}
    Queries <- FirstClaim
    None = None
    Faults = {"diskstats", "pods", "mount", "device", "lookup"}
    MaxFaults = 1
    MaxMoves = 2
SPECIFICATION FairSpec
PROPERTIES EventuallyCurrent
CHECK_DEADLOCK FALSE
