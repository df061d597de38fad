# Verification of oss-csi-lite-plugin

TLA+ models of the OSS CSI plugin in `src/`, the TLC runs that check them on
small instances, and theorems about them proved with TLAPS for every instance.

## 1. The system

The plugin is one process per node. The kubelet calls it over gRPC; it mounts
OSS buckets by sending `ossfs` command lines over a unix socket to a connector
daemon on the host, because a FUSE process must outlive the plugin's container.

| Part | Source | State | Operations | Hard behaviour |
|---|---|---|---|---|
| Node server | `pkg/oss/nodeserver.go`, `utils.go` | none of its own: it reads the host's mount table | `NodePublishVolume`, `NodeUnpublishVolume` | concurrent calls with no lock per target or volume; calls abandoned by the kubelet go on; restarts |
| Credential file | `nodeserver.go:235-340`, `utils/util.go:371-390` | `/host/etc/passwd-ossfs`, `writeCredentialMutex` | `saveOssCredential` | two truncating rewrites per save, readers (ossfs) take no lock, I/O errors |
| Connector client | `utils/util.go:409-443`, `utils/auth.go` | a connection | `DoMountInHost`, `ValidateRun` | the answer is lost and the command goes on |
| Connector daemon | `build/lib/csiplugin-connector.go` | two listening sockets, watchdog counters | `echoServer`, `freezeFilesystemServer`, `watchDogCheck` | two watchdogs of the same sockets; exit code 0 is final for systemd, other ends are not; socket files outlive the daemon |
| Freeze script | `build/lib/freezefs.sh` | frozen filesystems, timers | freeze, unfreeze | a timer in the background beside thaws and later freezes |
| Entry point | `build/lib/amd64-entrypoint.sh` | the unit of the daemon | installs, restarts the daemon, starts the plugin | restarts a daemon others use |
| Metrics endpoint, disks | `pkg/metric/{serve_http,collector,disk_stat_collector}.go` | `scalerPvcMap`, `lastPvDiskInfoMap` | one `Update` per scrape | concurrent scrapes |
| Mount statistics | `pkg/metric/mountstats.go` | none: three loops over one scanner | `parseMountStats` | staying in step with the file |
| NFS volumes | `pkg/metric/nfs_stat_collector.go` | `lastPvNfsInfoMap` | `Update` | volumes move and lookups fail between its steps |
| Fuse volumes | `pkg/metric/fuse_stat_collector.go`, `WriteMetricsInfo` in `utils/util.go` | records under `/var/run/ossfs` | `WriteMetricsInfo`, `Update` | records are truncated, then written; restarts between the two |
| Controller | `pkg/oss/controllerserver.go` | none | `CreateVolume`, `DeleteVolume` | absent parameters |
| Operation manager | `pkg/om` | `FixedPodList` | `StorageOM`: removes what orphaned pods left | a clean-up of several steps of which one fails |
| Credential providers | `pkg/auth` | an atomic value refreshed every 3 minutes | `Get`, `refreshVal` | none: nothing in the repository calls `Get` |
| Helpers | `pkg/utils` | none | block devices, cgroup limits | arithmetic |

How they interact: the kubelet calls the node server; the node server writes the
credential file and the records, and sends commands to the connector; ossfs, on
the host, reads the credential file and writes counters beside the records; the
collectors read records, counters and the kernel's figures when somebody
scrapes; the connector runs the freeze script; the entry point restarts the
connector, which watches the sockets of the plugins; the operation manager
works on directories of the kubelet and on nothing else of the plugin.

The kubelet, ossfs, systemd and the kernel's mount table are outside the repository;
they are modelled from what the code does with them, and marked external.

## 2. The modules

### Credential, CredentialStore: the file of access keys

`CredentialStore` is what the rest of the plugin relies on: a map from buckets
to sets of pairs, in which a save atomically replaces the pairs of one bucket.

`Credential` is `saveOssCredential`, one action per system call, for any number
of concurrent `NodePublishVolume` calls (`Handlers`):

| pc | action | code |
|---|---|---|
| `lock` | `Lock` | `writeCredentialMutex.Lock()` |
| `read` | `ReadOld` | `ioutil.ReadFile` in `saveOssfsCredential` |
| `open`, `write` | `OpenTrunc`, `WriteNew` | `WriteAndSyncFile`: `OpenFile(O_TRUNC)`, then `Write` |
| `uniqRead` | `UniqRead` | the read in `uniqOssfsCredential`, error ignored |
| `uniqOpen`, `uniqWrite` | `UniqOpenTrunc`, `UniqWrite` | the second rewrite, error logged |
| `saved`, `failed` | `ReturnNil`, `ReturnError` | the deferred `Unlock` and the return |

The file is a bag of `bucket:id:secret` lines: `file[b][k]` counts them. The
order of lines never matters to a bucket, as there is one line for it. Lines
with another number of fields hold no pair and the first save drops them; a
missing file is read as an empty one. A write that fails or is short, an `Fsync`
or `Close` that fails after it, and a read whose error is ignored leave a
beginning of the content (`Prefixes`): nothing, all of it, or some lines of
which the last may be torn. A torn line without a secret is no line; any other
has a *cut* pair (`CutsOf`), which stays until the next save of its bucket. Of the
order of lines only one thing is used: the saved line is the first. `acked` is a history variable: the pair of the last save of
a bucket that returned nil.

### VolumeService, OssNode: publish and unpublish

`VolumeService` is what the kubelet relies on: for each target, whether its pod
is bound, what the kubelet was told, and whether anything is mounted. Publish is
answered with success over a mount, unless the pod is gone by then; a mount goes only
for a pod that is gone and never while the kubelet has it reported. When the service
is `Reliable`, nothing is left after a successful unpublish, no mount comes or goes
but between a request and its answer, and only an unpublish that succeeds takes one away.

`OssNode` implements it. One module holds the node server's two calls, the kubelet that issues them, the
connector and the mount table, because the interesting properties relate all of
them. A call is a *worker* with a `pc`; each action is one read of the mount
table or one effect, and anything may happen between two of them.

| pc | action | code |
|---|---|---|
| `pubCheck` | `PubCheck` | parsing and validation, then `IsOssfsMounted(mountPath)` |
| `pubSave` | `PubSave` | the credential provider, the branch on `UseSharedPath` |
| `pubShared` | `PubShared` | `GetGlobalMountPath`, `IsOssfsMounted(sharedPath)` |
| `pubCreate` | `PubCreate` | `CreateDest`; for a mount on the target then the `MkdirAll` of `WriteMetricsInfo` |
| `podLook`, `mountLook` | `LookForRecord` | `IsFileExisting` for `pod_info` and for `mount_point_info` |
| `podOpen`, `mountOpen` | `OpenRecord` | the `OpenFile(O_TRUNC)` of `WriteAndSyncFile` |
| `podWrite`, `mountWrite` | `WriteRecord` | its `Write`; no error of the two is looked at |
| `pubSend`, `pubWait` | `PubSend`, `PubAnswer`, `PubAnswerLost` | `DoMountInHost` / `ConnectorRun` |
| `pubBind` | `PubBind` | `k8smounter.Mount(sharedPath, mountPath, "", bind)` |
| `unpCheck`, `unpShared`, `unpCount`, `unpRun` | `UnpCheck`, `UnpShared`, `UnpCount`, `UnpRun` | the body of `NodeUnpublishVolume` |
| - | `JobMount`, `JobFail` | `echoServer` runs the command of a client that waits |
| - | `OrphanMount`, `OrphanFail` | the same, of a client that is gone |

`mounts[p]` is the stack of mounts on path `p`, the top last. `"ossfs"` is a
mount that the mount table shows with type `fuse.ossfs`; `"bare"` is a bind of a
directory on which nothing was mounted, which no look at the mount table finds.
A bind shows what is on the global path at that moment. `umount` takes off the
top. For a shared volume the code makes the global directory and not the target's:
the kubelet makes that, and where it has not, the bind fails (a fault `bind`).

`metrics[t][f]` is the record `f` of target `t`: absent, empty between its
truncation and its write, full, or torn. A restart tears what is empty
at that moment, a failing or short write what it leaves; a record that exists in any
form is not written by later calls. A target is a pod of its own here, so `pod_info`
is per target; `FuseStat` has the pods with several volumes, and what a collector makes of it.

The kubelet (`view`, `pod`) follows the CSI contract: it retries a publish until
it has seen it succeed or the pod is deleted, unpublishes a deleted pod's volume
unless it is sure it never was published, and has one call per target at a time
*as far as it knows*: a call it has given up on goes on in the plugin. Each target is
used by one pod, because its path contains the pod's uid. Whether the global
path is the old (`ver1`) or the new directory is decided by the file system at
every call (`globalDir`).

`IsLastSharedVol` returns `string(rune(n))` for a count `n`; its caller compares
that with `"1"`. The constant `LastCode` is the count for which this is true:
49 in the code.

`ServiceSpec` is `VolumeService` with `mounted` mapped to the targets whose stack is
not empty and `Reliable` to `Reported` (no timeout, restart, lost answer or unread mount table).
The workers, jobs, global paths and faults do not show there.

Requests that fail validation return before anything is read or changed and are
left out. `fuseType: jindofs` is left out: its mounts have another type than
`fuse.ossfs` and the mount tool that sets it is not in the repository.

### OssNodeCredential: the two together

`OssNode` takes `saveOssCredential` for one step that succeeds or fails, and lets
a mount command fail for reasons of its own. `OssNodeCredential` extends it and
replaces the step by the save of `Credential` (instantiated with the workers as
handlers), and gives the mounts the reason that the file is to blame for:

| Action | Code |
|---|---|
| `SaveBegins`, `SaveStep`, `SaveReturnsNil`, `SaveReturnsError` | the call of `saveOssCredential` at `nodeserver.go:169`, its system calls, its two returns |
| `MountWithPair`, `OrphanMountWithPair` | ossfs starts, looks its bucket up in the file, finds a pair and mounts |
| `MountFails`, `OrphanMountFails` | it finds none, or fails as in `OssNode` |
| all others | the action of `OssNode`, the file unchanged |

A volume has a bucket (`BucketOf`), a bucket one pair (`KeyOf`), which is the
situation the plugin supports: the file has one line per bucket, so volumes that
name different pairs for one bucket would use each other's. Volumes with
`authType: sts` save no pair and need none; they are in `OssNode` only. What the file held
before the plugin started is arbitrary; those are the *old* pairs.

### Scrape: the metrics endpoint and the disks

The collectors have no lock in common and requests are served concurrently, so
`Scrape` has one action per access to what they share: the global filter
`scalerPvcMap` (`filter`; `None` is the nil map) and the disk collector's
`lastPvDiskInfoMap` (`infos`) with its `pvInfoLock` (`lock`).

| pc | action | code |
|---|---|---|
| `idle` | `Request` | a request reaches `Handler.ServeHTTP` |
| `newFilter`, `store` | `NewFilter`, `StoreClaim` | the `multipvc` branch: a new `sync.Map`, one `Store` per claim |
| `stats` | `ReadStats` | `getDiskStats` |
| `paths`, `volumes` | `FindVolJSON`, `UpdateMap` | the list of `vol_data.json` files, then the device of each |
| `lock`, `lookup` | `Lock`, `LookUp`, `Prune` | `updateDiskInfoMap` under `pvInfoLock`: the API server is asked for the claim of each new entry, stale entries go |
| `range`, `load` | `Range`, `Load`, `EndRange`, `MapRace` | the loop over the map, without the lock |
| `reset`, `answer` | `Reset`, `Answer` | the deferred reset of the filter in `CSICollector.Collect`; the answer |

A sample is a pair: the volume it is reported for and the volume whose disk the
statistics were read from. The disks are with pods (`host`), and move. `Load` on
a nil map ends the process, as it happens in a goroutine that `Collect` started;
`StoreClaim` on one only ends its request, because `net/http` recovers panics of
handlers. `MapRace` is the Go runtime's right to end a process that reads a map
while it is written. `clean` is a history variable: this scrape has run alone, without
a fault, on disks that stayed.

Left out: the values of statistics, the events about latency and hanging, the
other collectors (they share no state with this one). A claim is identified with
its volume, to which it is bound for ever; a disk is used by one pod at a time.

### MountStats: the parser of the mount statistics

The kernel writes `/proc/1/mountstats` as blocks of lines, one per mount, and
three loops of the parser hand one scanner on. The module has one action per
line the kernel writes, and what the parser makes of the line (`parser`) is part
of the action, as one loop takes one line per iteration.

| Action | Line | Loop that takes it |
|---|---|---|
| `WriteDevice` | `device ... mounted on ... with fstype nfs statvers=1.1` | `parseMountStats`, `parseMount` |
| `WriteInfo` | `opts:`, `age:`, `bytes:`, `events:`, `caps:` | `parseMountStatsNFS`, `parseNFSBytesStats`, `parseNFSEventsStats` |
| `WriteTransport` | `xprt:` | `parseNFSTransportStats` |
| `WritePerOp`, `WriteOperation`, `WriteBlank` | `per-op statistics`, `READ: ...`, the empty line | `parseNFSOperationStats` |
| `ReadError` | - | `s.Err()` of any loop |

A line is a record of what the parser looks at: its kind, how many fields it has,
whether they are numbers. Numbers of the transport line are the *names* of
their fields, so that a figure that lands in the wrong field shows. `written`
and `refused` say what the parser ought to return; they know the file
format and not the loops. `InfoRefused` and its siblings list the lines that the
parser refuses.

### NfsStat: the NFS collector

One scrape after the other (the lock and the races of two are those of
`Scrape`), one action per step of `Update`:

| nfsPc | action | code |
|---|---|---|
| `idle` | `getNfsStat` | the parser's figures, sixteen per mount, appended to the list of the volume |
| `paths`, `map`, `lookup` | `findVolJSON`, `updateMap`, `lookUpClaim`, `prune` | `updateNfsInfoMap` with the API server asked per entry |
| `report`, `done` | `report`, `finish`, `answer` | the loop over the map, `getNfsCapacityStat`, `setNfsMetric` |

`volume[v][p]` says how far pod `p`'s directory of volume `v` is: without
`vol_data.json`, with it, mounted. `kubeletMoves` changes it between any two
steps. `getNfsStat` may also end the process: a mount whose device line has no
`statvers` gets no statistics, and the loop calls a method of that nil interface.
A figure is the pair of its operation and field, so position and meaning
(`descs`) can be compared. The list of a volume is written by position: that of
`n` mounts has sixteen times `n` figures, each determined by its place.

### FuseStat: records of published volumes and their collector

`WriteMetricsInfo` of any number of concurrent publishes (`writer`), system call
by system call: `MakeDirectory`, `StatPodInfo`, `OpenPodInfo`, `WritePodInfo`,
and the same for `mount_point_info`. Each call that changes something may fail, the
directories after the pod's was made and a write after any part of the line, and
the publish goes on; `restartPlugin` may come between any two of them.
`FuseUpdate` is `Update` with its two loops: `Begin`, `ReadPodInfo`,
`ListVolumes`, `ReadMountPointInfo`, `Post`, `EndLoop`. A record is absent,
empty (without what the collector wants of it) or full; a `mount_point_info` that
ends within its last word, the target path, is cut: it is read, with a label that is wrong.
`hurt` is a history variable: the records of which a call failed or was killed.
`fsClientInfo` is the one struct that all samples of a scrape take their labels
from. A sample names the pair whose counters it has beside the labels it is given.

### Freeze: the disk connector and freezefs.sh

| Action | Code |
|---|---|
| `Ask`, `DfPath`, `DfDirectory` | a connection to `freezeFilesystemServer`; the two `df` of `isIsolateDevice` |
| `ScriptFreezes`, `ScriptThaws` | `freezefs.sh --type=freeze` and `unfreeze` |
| `Answer` | `run` returns when every writer of the pipe has ended, the timer included |
| `TimerLogs`, `TimerThaws` | `timeoutFunc` in the background: log, `sleep`, log, `fsfreeze -u` |
| `RestartConnector`, `MoveMount` | systemd kills all processes of the service; somebody mounts or unmounts |

`frozen[fs]` is the request that froze the file system. A frozen file system
blocks whoever writes the log on it. The clients are not in the repository, and
nothing is assumed of them: each connection has a goroutine of its own, any
request may come at any time, two freezes of one path among them. `beside` is a history
variable: the pairs of freezes of one path that were awaited at the same time. Those, and
only those, may end each other's freeze: one freezes, somebody thaws by hand,
the second freezes, the timer of the first fires. `moved`, another, has the requests
under way while the mount of their path came or went.

### Connector: the daemon, its watchdogs and who restarts it

| Action | Code |
|---|---|
| `EnsureSocketPath`, `Listen` | the start of each server; `log.Fatalf` when the address is in use |
| `CheckSocket`, `EndRound` | one socket of `watchDogCheck`; its `os.Exit(0)` or its sleep |
| `Crash`, `RestartOnFailure` | the unit's `Restart=on-failure` |
| `PluginInstalls`, `RestartService`, `PluginListens`, `PluginStops` | `amd64-entrypoint.sh` up to the plugin, the end of a container |

Each server starts a watchdog with counters of its own (`notAlive[l]`). `missed`
is a history variable. Assumed: `PLUGINS_SOCKETS` is set (else there is
no watchdog), a plugin listens before the daemon restarted for it
has checked `DeadChecks` times (`QuickStart`), and `systemctl restart` succeeds
within its ten attempts.

### Orphans: the operation manager

`ReadFileLines` takes the lines of the kubelet's log, `OrphanLine` begins
`FixOrphanedPodIssue`, whose steps for one volume are `NextVolume`,
`CleanupMountPoint`, `RemoveJson`, `RemoveVolumePath`; `LinkLine` begins
`FixReferenceMountIssue` with `NextLink` and `RemoveLink`. The first directory
listing and every system call that changes something may fail. The kubelet complains of
one orphaned pod at a time (`orphaned.go:22` quotes its line); lines of pods repaired
before stay in the tail for a while. Both switches are on.

### The others

`CredentialProofs`, `OssNodeProofs`, `OssNodeSerialProofs`,
`OssNodeCredentialProofs`, `ScrapeProofs`, `MountStatsProofs`, `FreezeProofs` and
`NodePartsProofs` (NFS, fuse, connector, orphans) have the theorems with their
proofs. `MCCredential`, `MCOssNode`, `MCOssNodeCredential` and `MCScrape` only define symmetry
sets, assignments of targets to volumes, a bound on pods and two initial files instead of
all. `MCNodeParts` runs the six modules above: a behaviour is one of one part,
chosen initially, while the others rest, as they share no state.

## 3. The runs

| Run | Instance | Shows |
|---|---|---|
| `cred_ok` | 3 calls, 2 buckets, 2 pairs, any first file with at most 2 copies of a line, no fault | an acknowledged bucket is readable except while the file is being rewritten; when nobody saves, the bucket has exactly the pair saved last; the whole refines `CredentialStore` |
| `cred_faults` | 2 calls, 2 buckets, one pair and its cut, every read, open and write may fail or stop anywhere, restarts | the mutex excludes; every save returns |
| `cred_swallowed` | as above, only reads fail | **violated**: see 6 |
| `node_serial` | 4 targets (3 of a shared volume), 2 calls at once, one failure that is reported to the caller | an unpublished target is clean and stays clean; at most one mount per target; never more mounts on a global path than calls at once; the whole refines a reliable `VolumeService` |
| `node_faults` | any two pods on 3 targets (2 shared), 2 calls, any one fault including lost answers, abandoned calls and restarts (writes of records that fail among them, but not a directory in which no record can be made), fairness | the whole refines `VolumeService`, unreliable; no bare binds; a published pod has its mount; both metrics records come before the mount, torn only by a restart or a failed write; every pod that stays is published and every pod that goes is released, on shared volumes, too |
| `publish_cred` | `OssNodeCredential`: 2 targets on 2 volumes with a bucket each, an old pair and a new one that may be cut, 2 calls, any one timeout, restart, lost answer or I/O error, fairness | a mount finds the pair its call saved unless the file is being rewritten; never an old pair, nor a cut of one; a pod can wait for ever only for saves of others that never end |
| `scrape` | 2 requests at once, 2 disks, 2 moves, 1 fault | types; a scrape left alone answers exactly; an entry never ties a pod to another disk's device |
| `scrape_live` | 2 requests at once, 1 disk, 2 moves, 1 fault, fairness | the map agrees with the disks in the end |
| `scrape_nil` | 2 requests, nothing fails | **violated**: see 6 |
| `node_parts`: `MountStats` | 2 mounts, one of them wanted, 1 operation, 2 blocks with every line the parser takes or refuses | the parser returns the wanted mounts with their own figures, or fails exactly when a line of one must be refused |
| `node_parts`: `NfsStat` | 2 volumes, 2 pods, 2 moves, 1 failure | types; a clean scrape publishes every mounted volume, the first sixteen figures are those their names say, and so is the capacity when the volume has one pod; the map is current in the end |
| `node_parts`: `FuseStat` | 2 volumes of one pod and one of another, 1 restart or failing system call | a record that is not whole has a writer of its own at it, failed or killed; every sample has the labels of its counters and no two collide; published volumes are reported again and again unless their record is torn |
| `node_parts`: `Freeze` | 1 path, 3 requests, 1 move, 1 restart | a timer thaws only what its request froze, or one awaited beside it; the parent's file system is frozen only by a request under which a mount moved; what is frozen is thawed |
| `node_parts`: `Connector` | 2 plugins, 2 starts, 1 crash, `DeadChecks = 2` | the daemon ends itself only when one watchdog missed every socket long enough; it serves while a plugin stays; it goes when all are gone |
| `node_parts`: `Orphans` | 2 pods with 2 volumes, 1 link, 1 failure | a mounted volume keeps its record; what failed is repaired in the end |
| `node_leak` | 2 targets, no fault | **violated**: see 6 |
| `node_stuck` | 3 targets, no fault, `LastCode = 2`, fairness | **violated**: see 6 |

### Bounds

* Two calls at once are enough for every pairwise race: a call and its retry, two
  first publishes of one volume, a publish and an unpublish. Three targets of
  one shared volume let a publish, an unpublish and a third user meet.
* `MaxFaults = 1`: each run covers every placement of every single fault. The
  theorems have no such bound.
* `MaxLines = 2` lets the first file of `cred_ok` repeat a line, which is all that
  `removeDuplicateElement` reacts to; the runs with faults have 1, as repeated lines go
  with the first rewrite. In `cred_faults` the pair has one cut, which may be torn again.
* In `node_stuck`, `LastCode` is scaled from 49 to 2, so that three targets
  suffice to reach it; nothing else depends on the number.
* `publish_cred` starts with an empty file or with an old and a new line for
  each bucket: the first is a missing file, the second has all that a first save
  has to remove. Only the new pair has a cut there: a cut old pair is as foreign to its
  bucket as the whole. The theorem covers every first file and every cut.
* `scrape*`: two requests are enough for a filter and its reset, and for an old
  snapshot written over a new one; two moves let a disk go and come back under another
  device name. A pod UID is reused only when nothing remembers it, as UIDs are unique.
  `scrape_live` has one disk, as entries of several never depend on each other there.
* `node_faults` lets two of the pods exist (`TwoPods`, a constraint on states; binding a
  pod is no step that fairness asks for, so the temporal properties lose only behaviours with
  more pods). The two may share a volume or not, and two calls never concern more.
* `node_parts`: two blocks show that the parser is in step again after one; two pods
  of one volume and two volumes of one pod are all that a shared record or list
  can confuse; three requests let a thaw and a second freeze meet a timer; two sockets tell the
  counters of one watchdog from those of the other. `DeadChecks` is scaled from 6
  to 2, the least number at which one missed check is not enough; the theorem has it arbitrary.
  Failures, moves and restarts are few, and every placement of them is checked.
  `FuseMaxFaults` bounds restarts and failing system calls together.
* `node_*` and `publish_cred` set `CHECK_DEADLOCK FALSE`: a node whose pods are all gone
  has nothing to do. `scrape_*` do so for the same reason: a process ended and not restarted,
  disks at rest, is no error of the model.

### Fairness

A call that runs is scheduled and each of its system calls returns; a mount
command ends; the kubelet retries (`WF`). `Lock` is strongly fair: a Go mutex
hands itself over to a waiter that starves. Scrapes are scheduled, unfiltered requests keep coming, and the kubelet
restarts a plugin that ended. Faults, pods and moves of disks are never fair.

`PartsFairness` states that scrapes go on, that writers of records, servers of requests and
timers get to run, that systemd restarts what failed, that each server and each
watchdog of the daemon is a goroutine that is scheduled, and that `StorageOM` loops.
One condition for all writers of records, and one for all requests and timers,
is enough because each takes a bounded number of steps. Clients, the kubelet's
moves, crashes and starts and stops of containers are never fair.
`FrozenIsThawed` is stated for behaviours in which no mount moved and the
connector was not restarted: a restart kills the timers and leaves the file system frozen.

In `OssNodeCredential` this does not make every pod get its volume: each retry
of a publish saves again and so truncates the file twice, and two pods whose
mounts always fall into the other's rewrites can fail for ever.
`PublishedUnlessOthersSave` excludes that schedule and nothing else.

## 4. The proofs

**Credential.** `TypeCorrect` and `LockExcludes` hold under every fault, for
any sets of handlers, buckets and pairs and any cuts: a beginning of a content is a
content (`PrefixesType`). `AckedReadable`, `AckedLast` and
`ImplementsStore` assume `Faults = {}`. `MutualExclusion` alone says nothing of
the file, so the invariant `IInv` adds, for the holder of the mutex, what file
and buffer contain at each `pc` (`Holding`): e.g. at `uniqWrite` the file is
empty and the buffer has exactly the requested pair for the bucket. Refinement
maps the abstract store to the buffer while the file is truncated and to the
file otherwise, so that only `WriteNew` changes the store.

**OssNode.** `TypeCorrect`, `NeverBareBind` and `PublishedStaysMounted` hold for any
targets, volumes, number of concurrent calls, `LastCode`, and under *every* fault in any
number. The invariant `PInv` consists of

* `Typed`: types, and which locals are set at which `pc`;
* `CallOK`: calls are for pods that exist, unpublishes for pods that are gone;
* `SeenOK`: the path chosen for a bind is mounted; after an answer "ok" so is the
  path of the command, unless its pod is gone;
* `NoBareBind` and `PublishedIsMounted`.

`NoBareBind` needs the fact that a global path, once mounted, is never released:
the only command that would do it is refused (finding 3). Repairing that comparison and that command
without a lock would break this proof, and the mutant
`Bug_UnpRunReleasesShared` shows the run finds it.

`RecordedBeforeMounted` assumes that the directory and the records can be made
(`"metrics" \notin Faults`), and nothing of their writes. Its invariant `RInv` follows
both records through the system calls of the call (`RecordOK`) and, by `OrphanSteps`,
to the mount commands whose sender is gone. A record once made stays (`RecordsKept`);
one that is empty has a call about to write it (`EmptyIsWriting`), as a restart, which takes
the call away, tears the record; and one that is torn has cost a fault (`TornByFault`).

Three of the theorems of `OssNodeSerialProofs` assume `Reported`: no timeout, no
restart, no lost answer, no unread mount table. Then the kubelet knows of every
call, and since it has one per target, calls for one target exclude each other
(`Serial`) although the server has no lock. `Empty` says what a publish
knows of its target from its check to its mount. For the global paths,
which calls for different targets share, an inductive bound has to count the
commands under way with the mounts (`PendingBounded`): each started when
nothing was mounted, and each mounts once. `StepKinds` reduces the steps of
`OssNode` to five kinds, so that each part of the invariant is proved for five cases.

**OssNode implements VolumeService.** `ImplementsService` has no assumption: it is one proof
for the service that reports its failures and the one that does not, as the abstract
module itself has the difference as its constant. A single step of `OssNode` may be a call
that begins, one that answers, a command of the connector, a change of a pod, or none of what
the service shows; `Kinds` says so action by action, and `StepIsServed`
maps each kind. Three facts make the steps fit (`ServiceInv`):

* `PInv`: success of a publish comes over a mount or to a pod that is gone;
* `AskOK`: calls, mount commands and commands whose sender is gone concern targets that
  the kubelet asked for; about a target it has one question open at most, and is
  unsure while it has; while an unpublish runs, given up on or not, it does not ask for a publish;
* `SInv`, when `Reported`, and only then: what a publish or an
  unpublish knows of its target still holds when it answers, as no other call concerns it.

Without `Reported` the third is false: a call that was given up on goes on after the answer
to its retry, which is why an unreliable service may unmount, and mount, after an answer.

**OssNodeCredential.** Each step of the composition is a step of `OssNode`, a step of a
save that `OssNode` does not see, or a mount that fails because of the file. `OssNode`
has the last only when `"mount"` is a fault and faults are left; `NodeStep` adds it
without that guard (`FailsElsewhere`), the lemmas of `OssNodeProofs` and
`OssNodeSerialProofs` are about `NodeStep`, and `StepsOfNode` shows that all of the composition
are. So the invariants carry over: `MountedWithCredential` (`PublishedIsMounted`
and `NoBareBind`), `ServiceWithCredential` (the composition implements `VolumeService`) and,
with `Reported`, `CleanWithCredential` (`UnpublishedStaysClean`, `OneMountPerTarget`,
`GlobalMountsBounded`). In the other direction, `SavesAreOfCredential` shows that what the
publishes do to the file is a behaviour of `Credential` under all its faults.

`MountsOwnPair` holds for any targets, volumes, buckets,
pairs, cuts and calls, and under every fault of calls, plugin, host and file, writes and
ignored reads that stop anywhere among them. A pair in the file for a bucket is then one
of its `Own`: the pair its volumes name, or a cut of it (`Clean`). `CleanPrefixes` says
that what is left of a clean content is clean: a torn line is a cut of a line that was there.
`NeverAnOldPair` itself is not inductive: a truncated file has no old pair, yet
a call that read one earlier could write it back. `Fresh(b)` adds that no copy
about to be written has an old pair of `b`, unless the writer is about to
replace the lines of `b` itself. A save makes its bucket fresh with its first
rewrite, when the mutex keeps every other copy away (`FreshBegins`); every other
save keeps it so (`FreshStays`), failures and a retry's truncation included; and
`FreshOK` carries it from there through the call to its mount command and to the
command whose sender is gone.

`SavedPairStays` proves `SavedPairIsThere`, for behaviours without a fault so far. Its
invariant `KInv` speaks of what the file has or is about to have again (`Kept`:
the copy of the holder of the mutex, while it has the file truncated): no step of a
save loses the pair of any bucket (`PairStays`), the first rewrite brings that
of its own (`PairBegins`), and the call carries it to its mount command (`KeptStep`).

**Scrape.** `TypeCorrect` and `NamesTheDisk` hold for any requests, volumes,
devices and pods, every fault and race. `EntryNamesTheDisk` needs the same of each
scrape's own snapshot (`DiskInv`): a snapshot may be old when it is written, but
then the pod it names is not the one that has the disk now. `AloneAnswersExactly`
(`AnswerIsExact`) follows a scrape that runs alone from its request to its answer:
the filter of the server belongs to a request under way (`FilterOwned`), so a
request that finds no other starts without one, and while its scrape stays clean
the filter holds what it asked for less what it has yet to add (`FilterOK`), the
snapshot and then the map are those of the disks (`KnowsOK`, which needs
`DiskInv` for the entries it does not look up), and the samples are those of the
entries seen (`ReportOK`). No two disks share a device (`DevicesDiffer`), and a
loop begins with nothing seen (`BeginsEmpty`).

**MountStats.** `ReturnsTheMounts` holds for any mounts, operations and number of
blocks. `ParserInv` says in which loop the parser is while the kernel is within a
block (`InStep`), that the mount under construction is the kernel's as far as
it is written (`Built`), and that the mounts returned are those written
(`Returned`). `TransportParsed` compares the fields of a transport line with the meaning of its
figures for each protocol and version.

**Freeze.** `TimersThawTheirOwn` has no assumption on clients. It needs to know that a
timer that runs has a client that waits (`TimersAreAwaited`), so whoever freezes its path
meanwhile is awaited at the same time and has been noted (`BesideIsNoted`), and that a
frozen file system stays mounted (`FrozenIsMounted`). `ParentIsNeverFrozen` adds that a
request past its check has a path of its own unless its mount moved since (`Isolated`).

**NfsStat.** `CleanScrapesAreExact` holds for any volumes, any finite set of pods,
every failure and every move. `NfsInv` says that a volume that the kernel's figures name
has those of one mount at least (`FiguresAreThere`; so what is published of a volume
has a figure for each of the nineteen names, the second half of `NfsTypeCorrect`), and follows a clean scrape through its
steps (`CleanScrape`): the figures and the paths are those of the volumes as they are, the
entries looked up so far name a pod of each, and the samples published so far are exact. The list
of figures is defined by positions and not by a recursion over the pods, so what is at a
place is a matter of arithmetic; that the last of finitely many paths is one of
them (`LastPathIsOne`) takes a least element of a well-founded order.

**FuseStat.** `OnlyOwnWritersTear` is inductive with the types: who empties a record is about
to write it, and who does not write it has failed or was killed. `SamplesAreUnambiguous` proves both halves of
`SamplesAreExact`: the loop reads counters only where its labels are from
(`AtItsVolume`), a record it has read is not written again (`ReadableIsFinal`), and each sample has the metrics of one file of counters (`SamplesAreFiles`).
No metric is in two files (`MetricHasOneFile`), so two samples of one volume have no metric
in common.

**Connector, Orphans.** `WatchdogsAreRight`: the counter of a watchdog is the number of its checks in
a row that found the socket dead (`CountsItsOwn`). `RecordsOutliveMounts`: the steps of the
loop about one volume are past its mount before they take its record (`Unmounted`),
and a line is about the pod whose volumes are left (`LinesOK`). The type invariants
of these parts, of `FuseStat`, `Freeze`, `Credential` and `OssNode` are proved and in no run.

**Model-checked only.** Every safety invariant, every action property and both refinements that the
runs check are proved. Out of the prover's reach are liveness and `ENABLED`: `SaveReturns`,
`EventuallyPublished`, `EventuallyUnpublished`, `EventuallyCurrent`,
`PublishedUnlessOthersSave`, `NfsInfosCurrent`, `VolumesAreReported`, `FrozenIsThawed`,
`ServesThePlugins`, `LeavesWithThePlugins` and `OmRepairs`. TLC checks them on the
instances of section 3 under the fairness described there.

## 5. What holds only under conditions

`UnpublishedStaysClean` and `OneMountPerTarget` are checked, and proved, with the
faults that are *reported*. With an unread mount table, a lost answer or an abandoned call
they fail, as one expects from a server with no lock and no record of its own:
`IsOssfsMounted` answers false when `nsenter` fails, so an unpublish then reports
success over a live mount. `EventuallyUnpublished` holds there all the same, in the sense
that the kubelet is told so.

## 6. Findings

1. `cred_swallowed`: `uniqOssfsCredential` ignores the error of its read
   (`nodeserver.go:267`), rewrites the file from nothing, and the save succeeds.
2. `node_leak`: `IsLastSharedVol` (`utils.go:110`) turns a count into the rune with that
   code, so the last target is never recognised and the global ossfs stays.
3. `node_stuck`: at the count 49, the command becomes `umount A && umount -f B`,
   which `ValidateRun` refuses because of the `&`; the unpublish fails for as long as the
   count stays.
4. `scrape_nil`: the loop of `diskStatCollector.Update` tests `scalerPvcMap` for nil and
   loads from it in the next statement (`disk_stat_collector.go:266`), while the scrape that
   ends first sets it to nil (`collector.go:81`); nothing recovers the panic there.

Seen on the way, without a run of their own, as no text of the repository says otherwise:

* When the claim of a modified entry cannot be looked up the old entry stays
  (`disk_stat_collector.go:453`), so until the next scrape a volume may be reported with the
  statistics of the disk that has its device name now.
* A mount statistics file that cannot be parsed ends the NFS scrape without an error
  (`nfs_stat_collector.go:258`), so the collector's success metric stays 1.
* Two pods on one NFS volume append sixteen figures each; the positions of the capacity then
  show the second mount's first figures (`NfsScrapeIsExact` is about the first sixteen
  figures of such a volume, and about all of one with a single pod).
* A directory on which nothing is mounted any more has the capacity of the file system above it.
* The answer to a freeze comes after its timer has thawed: the timer inherits the pipe.
* A restart of the connector leaves frozen what its timers would have thawed.
* `ISSUE_ORPHANED_POD` has no effect unless `ISSUE_BLOCK_REFERENCE` is on.
* A link is found unused and removed later; the pod it was made for may have mounted it in between.
* A torn `pod_info` is never written again, as it exists; the pod's volumes go unreported. A
  restart between truncation and write tears one, and so does a write that fails or is
  short, whose error `WriteMetricsInfo` drops (`util.go:462`, `471`).
* A `mount_point_info` cut within the target path is read, and the volume reported with the cut path.
* A short write of the credential file may leave a line with a cut secret. The save reports
  the error if it is the first rewrite and only logs it if it is the second. The lines of
  other buckets that are lost or cut stay so until their next save.
* Two freezes of one path awaited at once, with a thaw by hand between them: the timer of the
  first ends the second.
* An NFS mount without `statvers` in its device line ends the process on every scrape that wants it
  (`nfs_stat_collector.go:387`).

## 7. Not modelled, and the plan

| Part | Why |
|---|---|
| `pfs_stat_collector.go` | off unless its environment variable is set; its figures come from a program inside a container that is not in the repository; its map and lock are used as those of `Scrape` and `NfsStat` |
| events on latency, hanging and capacity in the collectors | arithmetic on values, which the models leave out |
| `checkOssfsCmd` and its siblings | tests on the words of a command, without state |
| controller server | stateless: it validates its parameters and echoes them |
| `pkg/auth` | `oidc.go` returns nil from every function and nothing calls `Get` of `singleton.go` |
| `pkg/utils`: block devices, cgroups, I/O limits, mounter, ECS and STS helpers | conversions around one system call or one call to the cloud, most of them for drivers that are not in this repository |
| logging, options, CNFS types | no behaviour |
| `main.go`, deployment files, the file copies of the entry point | wiring; what is started concurrently is what the modules take as processes |
| requests that the parser refuses, `fuseType: jindofs`, stage, expand and capability calls | they return before anything is read or changed, or answer a constant |

The core, its composition with the credential file, the six parts beside it and the
refinements of `CredentialStore` and `VolumeService` are done. Left, in this order: two
concurrent scrapes of the NFS collector on the lock of `Scrape`; `FuseStat` beside
`OssNode`, with unpublishes that leave records.
