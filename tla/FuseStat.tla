------------------------------- MODULE FuseStat -------------------------------
(***************************************************************************)
(* The records of mounted volumes under /var/run/ossfs: WriteMetricsInfo   *)
(* (pkg/utils/util.go) writes two of them when a volume is published, and  *)
(* Update of pkg/metric/fuse_stat_collector.go reads them, with the        *)
(* counter files that ossfs keeps beside them, on every scrape.  A record  *)
(* is truncated and written by two system calls; nothing keeps a second    *)
(* writer, a restart or a scrape from coming between, and the error of a   *)
(* call that fails is dropped.  All volumes of a pod have the same words   *)
(* in its pod_info that the collector reads.  The directory of the other   *)
(* client, eac, which nothing here fills, and the values of counters are   *)
(* left out.                                                               *)
(***************************************************************************)
EXTENDS Integers

CONSTANTS Records,          \* pairs of a pod and a volume published for it
          NoRecord,         \* no pair
          FuseMaxFaults     \* bound: restarts of the plugin, and system calls of
                            \* WriteMetricsInfo that fail

ASSUME FuseAssumption == NoRecord \notin Records /\ FuseMaxFaults \in Nat

PodOf(d) == d[1]
FusePods == {PodOf(d) : d \in Records}

VARIABLES
  podInfo,        \* the pod's pod_info: "absent", "empty" or "full"
  mountPointInfo, \* the pair's mount_point_info: the same, or "cut"
  podDirs, dirs,  \* pods and pairs whose directory exists
  fuseFaults,     \* restarts and failing system calls still to come
  hurt,           \* history: the records of which a call failed or was killed
  counters,       \* pairs whose counter files ossfs has written
  writer,         \* the call that publishes the pair
  reader,         \* where Update stands
  fsClientInfo,   \* the pod and the pair its labels are from, and whether that of
                  \* the mount point is "full" or "cut"
  podsLeft, volumesLeft,  \* what its loops have left
  fuseVolume,     \* the pair whose directory the inner loop is at
  posted          \* the samples of the scrape
records == <<podInfo, mountPointInfo, podDirs, dirs, fuseFaults, hurt>>
scrapeVars == <<reader, fsClientInfo, podsLeft, volumesLeft, fuseVolume, posted>>
fuseVars == <<records, counters, writer, scrapeVars>>

-----------------------------------------------------------------------------
(* The metrics: the name at each position of a counter file, without the   *)
(* suffix _counter.                                                        *)

FrontDescs ==
    [capacity_counter   |-> <<"capacity_bytes_used", "capacity_bytes_available", "capacity_bytes_total">>,
     inodes_counter     |-> <<"inode_bytes_used", "inode_bytes_available", "inode_bytes_total">>,
     throughput_counter |-> <<"read_bytes_total", "write_bytes_total">>,
     iops_counter       |-> <<"read_completed_total", "write_completed_total">>,
     latency_counter    |-> <<"read_time_milliseconds_total", "write_time_milliseconds_total">>]

CallDescs ==
    [posix_counter |->
       <<"posix_mkdir_total", "posix_rmdir_total", "posix_opendir_total", "posix_readdir_total",
         "posix_write_total", "posix_flush_total", "posix_fsync_total", "posix_release_total",
         "posix_read_total", "posix_create_total", "posix_open_total", "posix_access_total",
         "posix_rename_total", "posix_chown_total", "posix_chmod_total", "posix_truncate_total">>,
     oss_object_counter |->
       <<"oss_put_object_total", "oss_get_object_total", "oss_head_object_total",
         "oss_delete_object_total", "oss_post_object_total">>]

BackendDescs ==
    [backend_throughput_counter |-> <<"backend_read_bytes_total", "backend_write_bytes_total">>,
     backend_iops_counter       |-> <<"backend_read_completed_total", "backend_write_completed_total">>,
     backend_latency_counter    |-> <<"backend_read_time_milliseconds_total",
                                      "backend_write_time_milliseconds_total">>,
     backend_meta_qps_ounter    |->
       <<"backend_posix_getattr_total", "backend_posix_getmode_total", "backend_posix_access_total",
         "backend_posix_lookup_total", "backend_posix_mknod_total", "backend_posix_remove_total",
         "backend_posix_setattr_total", "backend_posix_link_total", "backend_posix_readlink_total",
         "backend_posix_statfs_total", "backend_posix_rename_total", "backend_posix_readdir_total">>]

HotSpotDescs ==
    [hot_spot_read_file_top  |-> <<"hot_spot_read_file_top">>,
     hot_spot_write_file_top |-> <<"hot_spot_write_file_top">>,
     hot_spot_head_file_top  |-> <<"hot_spot_head_file_top">>]

\* A sample of the figures at all positions of the files of one kind, with the
\* labels in fsClientInfo; of: the pair whose files were read.
SamplesFrom(files, d) ==
    {[file |-> f, pod |-> fsClientInfo.pod, volume |-> fsClientInfo.volume,
      mountPoint |-> fsClientInfo.mountPoint, of |-> d] : f \in DOMAIN files}

postCounterMetrics(d)        == SamplesFrom(FrontDescs, d) \cup SamplesFrom(CallDescs, d)
postHotTopFileMetrics(d)     == SamplesFrom(HotSpotDescs, d)
postBackendCounterMetrics(d) == SamplesFrom(BackendDescs, d)

-----------------------------------------------------------------------------
(* WriteMetricsInfo, and what follows it in NodePublishVolume.  What fails *)
(* is not noticed: the call goes on.                                       *)

Go(d, to) == writer' = [writer EXCEPT ![d] = to]

FuseFault == fuseFaults > 0 /\ fuseFaults' = fuseFaults - 1

\* The call for d did not do what it should with pod_info or mount_point_info.
Hurt(record, d) == hurt' = hurt \cup {<<record, d>>}

\* MkdirAll, which may fail after the first directory.
MakeDirectory(d) ==
    /\ writer[d] = "mkdir"
    /\ \/ dirs' = dirs \cup {d} /\ podDirs' = podDirs \cup {PodOf(d)} /\ UNCHANGED fuseFaults
       \/ /\ d \notin dirs /\ FuseFault
          /\ podDirs' \in {podDirs, podDirs \cup {PodOf(d)}}
          /\ UNCHANGED dirs
    /\ Go(d, "statPod")
    /\ UNCHANGED <<podInfo, mountPointInfo, hurt, counters, scrapeVars>>

\* A record that exists, whole or not, is left as it is.
StatPodInfo(d) ==
    /\ writer[d] = "statPod"
    /\ Go(d, IF podInfo[PodOf(d)] = "absent" THEN "openPod" ELSE "statMount")
    /\ UNCHANGED <<records, counters, scrapeVars>>

\* Bug: the record is created and not written.
Bug_CreatedOnly(d) ==
    /\ writer[d] = "openPod"
    /\ PodOf(d) \in podDirs
    /\ podInfo' = [podInfo EXCEPT ![PodOf(d)] = "empty"]
    /\ Go(d, "statMount")
    /\ UNCHANGED <<mountPointInfo, podDirs, dirs, fuseFaults, hurt, counters, scrapeVars>>

\* WriteAndSyncFile opens with O_TRUNC ...
OpenPodInfo(d) ==
    /\ writer[d] = "openPod"
    /\ \/ /\ PodOf(d) \in podDirs
          /\ podInfo' = [podInfo EXCEPT ![PodOf(d)] = "empty"]
          /\ Go(d, "writePod")
          /\ UNCHANGED <<fuseFaults, hurt>>
       \/ /\ (PodOf(d) \notin podDirs /\ UNCHANGED fuseFaults) \/ FuseFault
          /\ Hurt("pod", d) /\ Go(d, "statMount")
          /\ UNCHANGED podInfo
    /\ UNCHANGED <<mountPointInfo, podDirs, dirs, counters, scrapeVars>>

\* ... and then writes: all of it, or what the collector does not read, or so
\* much that it is read all the same; what another call has written stays.
WritePodInfo(d) ==
    /\ writer[d] = "writePod"
    /\ \/ podInfo' = [podInfo EXCEPT ![PodOf(d)] = "full"] /\ UNCHANGED <<fuseFaults, hurt>>
       \/ /\ FuseFault /\ Hurt("pod", d)
          /\ podInfo' \in {podInfo, [podInfo EXCEPT ![PodOf(d)] = "full"]}
    /\ Go(d, "statMount")
    /\ UNCHANGED <<mountPointInfo, podDirs, dirs, counters, scrapeVars>>

StatMountPointInfo(d) ==
    /\ writer[d] = "statMount"
    /\ Go(d, IF mountPointInfo[d] = "absent" THEN "openMount" ELSE "done")
    /\ UNCHANGED <<records, counters, scrapeVars>>

OpenMountPointInfo(d) ==
    /\ writer[d] = "openMount"
    /\ \/ /\ d \in dirs
          /\ mountPointInfo' = [mountPointInfo EXCEPT ![d] = "empty"]
          /\ Go(d, "writeMount")
          /\ UNCHANGED <<fuseFaults, hurt>>
       \/ /\ (d \notin dirs /\ UNCHANGED fuseFaults) \/ FuseFault
          /\ Hurt("mount", d) /\ Go(d, "done")
          /\ UNCHANGED mountPointInfo
    /\ UNCHANGED <<podInfo, podDirs, dirs, counters, scrapeVars>>

\* The last word is the target path: a write that ends in it leaves a record that
\* is read, with the path cut.
WriteMountPointInfo(d) ==
    /\ writer[d] = "writeMount"
    /\ \E left \in {"empty", "cut", "full"} :
          /\ \/ left = "full" /\ UNCHANGED <<fuseFaults, hurt>>
             \/ FuseFault /\ Hurt("mount", d)
          /\ mountPointInfo' = [mountPointInfo EXCEPT ![d] = left]
    /\ Go(d, "done")
    /\ UNCHANGED <<podInfo, podDirs, dirs, counters, scrapeVars>>

WriteMetricsInfo(d) ==
    \/ MakeDirectory(d)
    \/ StatPodInfo(d) \/ OpenPodInfo(d) \/ WritePodInfo(d)
    \/ StatMountPointInfo(d) \/ OpenMountPointInfo(d) \/ WriteMountPointInfo(d)

\* The kubelet has a volume published; ossfs is mounted and writes counters if it
\* has the directory.
publish(d) ==
    /\ writer[d] = "idle"
    /\ Go(d, "mkdir")
    /\ UNCHANGED <<records, counters, scrapeVars>>

ossfsCounts(d) ==
    /\ writer[d] = "done"
    /\ d \in dirs \ counters
    /\ counters' = counters \cup {d}
    /\ UNCHANGED <<records, writer, scrapeVars>>

NoInfo == [pod |-> NoRecord, volume |-> NoRecord, mountPoint |-> "absent"]

\* Calls and scrapes under way are gone, the kubelet calls again.
restartPlugin ==
    /\ FuseFault
    /\ writer' = [d \in Records |-> IF writer[d] = "done" THEN "done" ELSE "idle"]
    /\ hurt' = hurt \cup {<<"pod", d>> : d \in {w \in Records : writer[w] = "writePod"}}
                    \cup {<<"mount", d>> : d \in {w \in Records : writer[w] = "writeMount"}}
    /\ reader' = "idle"
    /\ fsClientInfo' = NoInfo
    /\ podsLeft' = {} /\ volumesLeft' = {} /\ fuseVolume' = NoRecord /\ posted' = {}
    /\ UNCHANGED <<podInfo, mountPointInfo, podDirs, dirs, counters>>

-----------------------------------------------------------------------------
(* Update: a record that is missing or torn is passed over. *)

Begin ==
    /\ reader = "idle"
    /\ reader' = "pod"
    /\ podsLeft' = podDirs
    /\ fsClientInfo' = NoInfo
    /\ posted' = {}
    /\ UNCHANGED <<records, counters, writer, volumesLeft, fuseVolume>>

\* Bug: a pod without its record ends the scrape.
Bug_TornRecordEndsScrape(p) ==
    /\ reader = "pod" /\ p \in podsLeft
    /\ IF podInfo[p] = "full"
       THEN /\ reader' = "list" /\ fsClientInfo' = [fsClientInfo EXCEPT !.pod = p]
            /\ podsLeft' = podsLeft \ {p}
       ELSE reader' = "idle" /\ podsLeft' = {} /\ UNCHANGED fsClientInfo
    /\ UNCHANGED <<records, counters, writer, volumesLeft, fuseVolume, posted>>

ReadPodInfo(p) ==
    /\ reader = "pod" /\ p \in podsLeft
    /\ podsLeft' = podsLeft \ {p}
    /\ IF podInfo[p] = "full"
       THEN reader' = "list" /\ fsClientInfo' = [fsClientInfo EXCEPT !.pod = p]
       ELSE UNCHANGED <<reader, fsClientInfo>>
    /\ UNCHANGED <<records, counters, writer, volumesLeft, fuseVolume, posted>>

\* pod_info is listed too, but has no mount_point_info in it.
ListVolumes ==
    /\ reader = "list"
    /\ volumesLeft' = {d \in dirs : PodOf(d) = fsClientInfo.pod}
    /\ reader' = "volume"
    /\ UNCHANGED <<records, counters, writer, fsClientInfo, podsLeft, fuseVolume, posted>>

\* Bug: the counters of a volume are read though its record is torn.
Bug_TornVolumeIsPosted(d) ==
    /\ reader = "volume" /\ d \in volumesLeft
    /\ volumesLeft' = volumesLeft \ {d}
    /\ fuseVolume' = d
    /\ reader' = "post"
    /\ fsClientInfo' = IF mountPointInfo[d] \notin {"cut", "full"} THEN fsClientInfo
                       ELSE [fsClientInfo EXCEPT !.volume = d, !.mountPoint = mountPointInfo[d]]
    /\ UNCHANGED <<records, counters, writer, podsLeft, posted>>

ReadMountPointInfo(d) ==
    /\ reader = "volume" /\ d \in volumesLeft
    /\ volumesLeft' = volumesLeft \ {d}
    /\ fuseVolume' = d
    /\ IF mountPointInfo[d] \notin {"cut", "full"} THEN UNCHANGED <<reader, fsClientInfo>>
       ELSE /\ reader' = "post"
            /\ fsClientInfo' =
                 [fsClientInfo EXCEPT !.volume = d, !.mountPoint = mountPointInfo[d]]
    /\ UNCHANGED <<records, counters, writer, podsLeft, posted>>

\* The counter files of the directory the loop is at.
Post ==
    /\ reader = "post"
    /\ posted' = IF fuseVolume \in counters
                 THEN posted \cup postCounterMetrics(fuseVolume)
                             \cup postHotTopFileMetrics(fuseVolume)
                             \cup postBackendCounterMetrics(fuseVolume)
                 ELSE posted
    /\ reader' = "volume"
    /\ fuseVolume' = NoRecord
    /\ UNCHANGED <<records, counters, writer, fsClientInfo, podsLeft, volumesLeft>>

EndLoop ==
    /\ \/ reader = "volume" /\ volumesLeft = {} /\ reader' = "pod"
       \/ reader = "pod" /\ podsLeft = {} /\ reader' = "idle"
    /\ UNCHANGED <<records, counters, writer, fsClientInfo, podsLeft, volumesLeft,
                   fuseVolume, posted>>

FuseUpdate ==
    \/ Begin \/ ListVolumes \/ Post \/ EndLoop
    \/ \E p \in FusePods : ReadPodInfo(p)
    \/ \E d \in Records : ReadMountPointInfo(d)

-----------------------------------------------------------------------------

\* Some volumes have been published by an earlier run of the plugin.
FuseStatInit ==
    /\ counters \in SUBSET Records
    /\ dirs = counters /\ podDirs = {PodOf(d) : d \in counters}
    /\ fuseFaults = FuseMaxFaults /\ hurt = {}
    /\ podInfo = [p \in FusePods |-> IF \E d \in counters : PodOf(d) = p THEN "full" ELSE "absent"]
    /\ mountPointInfo = [d \in Records |-> IF d \in counters THEN "full" ELSE "absent"]
    /\ writer = [d \in Records |-> IF d \in counters THEN "done" ELSE "idle"]
    /\ reader = "idle"
    /\ fsClientInfo = NoInfo
    /\ podsLeft = {} /\ volumesLeft = {} /\ fuseVolume = NoRecord /\ posted = {}

FuseStatNext ==
    \/ \E d \in Records : publish(d) \/ WriteMetricsInfo(d) \/ ossfsCounts(d)
    \/ restartPlugin
    \/ FuseUpdate

FuseStatSpec == FuseStatInit /\ [][FuseStatNext]_fuseVars
-----------------------------------------------------------------------------
(* Properties. *)

FuseStatTypeOK ==
    /\ podInfo \in [FusePods -> {"absent", "empty", "full"}]
    /\ mountPointInfo \in [Records -> {"absent", "empty", "cut", "full"}]
    /\ dirs \subseteq Records /\ podDirs \subseteq FusePods /\ counters \subseteq Records
    /\ writer \in [Records -> {"idle", "mkdir", "statPod", "openPod", "writePod",
                               "statMount", "openMount", "writeMount", "done"}]
    /\ reader \in {"idle", "pod", "list", "volume", "post"}
    /\ fsClientInfo \in [pod : FusePods \cup {NoRecord}, volume : Records \cup {NoRecord},
                         mountPoint : {"absent", "cut", "full"}]
    /\ podsLeft \subseteq FusePods /\ volumesLeft \subseteq Records
    /\ fuseVolume \in Records \cup {NoRecord}
    /\ fuseFaults \in 0 .. FuseMaxFaults
    /\ hurt \subseteq {"pod", "mount"} \X Records

\* Calls that are done with the pod's pod_info.
PastPodInfo == {"statMount", "openMount", "writeMount", "done"}

WritesPodInfo(p) == \E d \in Records : PodOf(d) = p /\ writer[d] = "writePod"
HurtPodInfo(p) == \E d \in Records : PodOf(d) = p /\ <<"pod", d>> \in hurt

\* A record that is not whole is not there yet, or one of its own writers is at
\* it, failed or was killed between truncation and write: two calls for volumes
\* of one pod may truncate pod_info one after the other and write it in any order.
\* (WriteMetricsInfo, called by concurrent NodePublishVolume.)
RecordsAreWhole ==
    /\ \A p \in FusePods :
          \/ podInfo[p] = "full" \/ WritesPodInfo(p) \/ HurtPodInfo(p)
          \/ /\ podInfo[p] = "absent"
             /\ \A d \in Records : PodOf(d) = p => writer[d] \notin PastPodInfo
    /\ \A d \in Records :
          \/ mountPointInfo[d] = "full" \/ writer[d] = "writeMount" \/ <<"mount", d>> \in hurt
          \/ mountPointInfo[d] = "absent" /\ writer[d] # "done"

\* Every sample is labelled with the pod and the volume whose counters it is, and
\* with the mount point as the record has it, which is whole unless a call for
\* that very volume failed.
SamplesAreLabelled ==
    \A s \in posted :
        /\ s.pod = PodOf(s.of) /\ s.volume = s.of
        /\ s.mountPoint = mountPointInfo[s.of]
        /\ s.mountPoint = "cut" => <<"mount", s.of>> \in hurt

\* The names in the files of two kinds never meet.
NamesAreDistinct ==
    LET kinds == <<FrontDescs, CallDescs, BackendDescs, HotSpotDescs>>
        names(k, f) == {kinds[k][f][i] : i \in DOMAIN kinds[k][f]} IN
    \A k, l \in 1 .. 4 : \A f \in DOMAIN kinds[k], g \in DOMAIN kinds[l] :
        f # g => names(k, f) \cap names(l, g) = {}

\* That is so though Update keeps one fsClientInfo for all samples and passes over
\* torn records, and no two samples of a scrape have the same name and labels,
\* for which the whole scrape would be refused.
SamplesAreExact ==
    /\ SamplesAreLabelled
    /\ \A s, t \in posted : s # t /\ s.volume = t.volume => s.file # t.file
    /\ NamesAreDistinct

\* A published volume whose counters are there comes to be in a scrape, and
\* again and again, unless a writer of its record or of its pod's failed or was
\* killed and left it unreadable; the records of others do not matter.
VolumesAreReported ==
    \A d \in Records :
        [](d \in counters =>
              <>(\/ \E s \in posted : s.of = d
                 \/ podInfo[PodOf(d)] # "full" /\ HurtPodInfo(PodOf(d)) /\ ~WritesPodInfo(PodOf(d))
                 \/ mountPointInfo[d] \in {"absent", "empty"} /\ <<"mount", d>> \in hurt))
=============================================================================
