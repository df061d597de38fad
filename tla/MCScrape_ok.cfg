\* Two requests at once, two disks, two moves of a disk, one fault.
CONSTANTS
    v1 = v1
    v2 = v2
    Scrapers = {s1, s2}
    Pvs = {v1, v2}
    Devices = {vdb, vdc}
    Pods = {p1, p2}
    Queries <- FirstClaim
    None = None
    Faults = {"diskstats", "pods", "mount", "device", "lookup"}
    MaxFaults = 1
    MaxMoves = 2
SPECIFICATION Spec
INVARIANTS TypeOK AnswerIsExact EntryNamesTheDisk
SYMMETRY Symmetry
CHECK_DEADLOCK FALSE
