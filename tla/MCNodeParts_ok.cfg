\* One behaviour of one part at a time; two of what each part has many of.
CONSTANTS
    NfsMounts = {m1, m2}
    CsiMounts = {m1}
    Operations = {READ}
    MaxBlocks = 2
    NfsPvs = {pv1, pv2}
    NfsPods = {1, 2}
    NfsMaxFaults = 1
    NfsMaxMoves = 2
    Records <- ThreeRecords
    NoRecord = NoRecord
    FuseMaxFaults = 1
    FreezePaths = {p1}
    FreezeRequests = {r1, r2, r3}
    ParentFs = ParentFs
    NoRequest = NoRequest
    FreezeMaxMoves = 1
    FreezeMaxStops = 1
    PluginSockets = {oss, nas}
    DeadChecks = 2
    MaxCrashes = 1
    MaxPluginStarts = 2
    OrphanPods = {1, 2}
    VolumeNumbers = {1, 2}
    Links = {link}
    OmMaxFaults = 1
SPECIFICATION PartsSpec
INVARIANTS
    MountStatsTypeOK ParsedIsWritten
    NfsStatTypeOK NfsScrapeIsExact
    RecordsAreWhole SamplesAreExact
    TimerThawsItsOwn ParentStaysThawed
    MountedKeepsItsRecord
PROPERTIES
    NfsInfosCurrent
    VolumesAreReported
    FrozenIsThawed
    ExitsOnlyWhenDead ServesThePlugins LeavesWithThePlugins
    OmRepairs
CHECK_DEADLOCK FALSE
