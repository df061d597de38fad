---------------------------- MODULE NodePartsProofs ----------------------------
(***************************************************************************)
(* Theorems about four of the node's parts that share no state: the        *)
(* records of mounted volumes and their reader, the NFS collector, the     *)
(* connector with its watchdogs, and the operation manager.                *)
(***************************************************************************)
EXTENDS FuseStat, NfsStat, Connector, Orphans, FiniteSetTheorems, SequenceTheorems,
        WellFoundedInduction, TLAPS

-----------------------------------------------------------------------------
(* FuseStat: the records. *)

\* A mount_point_info that the collector reads is not written any more, and one
\* that is cut has a call that failed.
ReadableIsFinal ==
    \A d \in Records :
        /\ mountPointInfo[d] \in {"cut", "full"} => writer[d] \notin {"openMount", "writeMount"}
        /\ mountPointInfo[d] = "cut" => <<"mount", d>> \in hurt

\* What Update holds while it is among the volumes of a pod.
AtItsVolume ==
    /\ reader \in {"volume", "post"} => \A d \in volumesLeft : PodOf(d) = fsClientInfo.pod
    /\ reader = "post" =>
          /\ fuseVolume \in Records
          /\ mountPointInfo[fuseVolume] \in {"cut", "full"}
          /\ fsClientInfo = [pod |-> PodOf(fuseVolume), volume |-> fuseVolume,
                             mountPoint |-> mountPointInfo[fuseVolume]]

\* A sample is of a record that is read, and has nothing but its labels and file.
SamplesAreFiles ==
    \A s \in posted :
        /\ s.of \in Records /\ mountPointInfo[s.of] \in {"cut", "full"}
        /\ s = [file |-> s.file, pod |-> s.pod, volume |-> s.volume,
                mountPoint |-> s.mountPoint, of |-> s.of]

FuseInv ==
    /\ FuseStatTypeOK /\ RecordsAreWhole /\ ReadableIsFinal
    /\ AtItsVolume /\ SamplesAreLabelled /\ SamplesAreFiles

FileKinds == {FrontDescs, CallDescs, BackendDescs, HotSpotDescs}
MetricsIn(files, f) == {files[f][i] : i \in DOMAIN files[f]}

\* No metric is in two files: those of one kind, ...
FilesAreApart(files) ==
    \A f, g \in DOMAIN files : \A i \in DOMAIN files[f] : \A j \in DOMAIN files[g] :
        files[f][i] = files[g][j] => f = g
\* ... and those of two.
KindsAreApart(files, others) ==
    \A f \in DOMAIN files, g \in DOMAIN others :
        \A i \in DOMAIN files[f] : \A j \in DOMAIN others[g] : files[f][i] # others[g][j]

LEMMA MetricHasOneFile ==
    ASSUME NEW files \in FileKinds, NEW others \in FileKinds,
           NEW f \in DOMAIN files, NEW g \in DOMAIN others,
           MetricsIn(files, f) \cap MetricsIn(others, g) # {}
    PROVE  files = others /\ f = g
  <1>1. FilesAreApart(FrontDescs) /\ FilesAreApart(HotSpotDescs)
    BY DEF FilesAreApart, FrontDescs, HotSpotDescs
  <1>2. FilesAreApart(CallDescs) /\ FilesAreApart(BackendDescs)
    BY DEF FilesAreApart, CallDescs, BackendDescs
  <1>3. KindsAreApart(FrontDescs, CallDescs) /\ KindsAreApart(CallDescs, FrontDescs)
    BY DEF KindsAreApart, FrontDescs, CallDescs
  <1>4. KindsAreApart(FrontDescs, BackendDescs) /\ KindsAreApart(BackendDescs, FrontDescs)
    BY DEF KindsAreApart, FrontDescs, BackendDescs
  <1>5. KindsAreApart(FrontDescs, HotSpotDescs) /\ KindsAreApart(HotSpotDescs, FrontDescs)
    BY DEF KindsAreApart, FrontDescs, HotSpotDescs
  <1>6. KindsAreApart(CallDescs, BackendDescs) /\ KindsAreApart(BackendDescs, CallDescs)
    BY DEF KindsAreApart, CallDescs, BackendDescs
  <1>7. KindsAreApart(CallDescs, HotSpotDescs) /\ KindsAreApart(HotSpotDescs, CallDescs)
    BY DEF KindsAreApart, CallDescs, HotSpotDescs
  <1>8. KindsAreApart(BackendDescs, HotSpotDescs) /\ KindsAreApart(HotSpotDescs, BackendDescs)
    BY DEF KindsAreApart, BackendDescs, HotSpotDescs
  <1>9. files # others => KindsAreApart(files, others)
    BY <1>3, <1>4, <1>5, <1>6, <1>7, <1>8 DEF FileKinds
  <1>10. files = others
    BY <1>9 DEF KindsAreApart, MetricsIn
  <1>11. FilesAreApart(files)
    BY <1>1, <1>2 DEF FileKinds
  <1> QED  BY <1>10, <1>11 DEF FilesAreApart, MetricsIn

LEMMA FuseInit == FuseStatInit => FuseInv
  <1> SUFFICES ASSUME FuseStatInit PROVE FuseInv
    OBVIOUS
  <1>1. FuseStatTypeOK
    BY FuseAssumption DEF FuseStatInit, FuseStatTypeOK, FusePods, NoInfo
  <1>2. RecordsAreWhole /\ ReadableIsFinal
    BY DEF FuseStatInit, RecordsAreWhole, ReadableIsFinal, PastPodInfo
  <1>3. AtItsVolume /\ SamplesAreLabelled /\ SamplesAreFiles
    BY DEF FuseStatInit, AtItsVolume, SamplesAreLabelled, SamplesAreFiles
  <1> QED  BY <1>1, <1>2, <1>3 DEF FuseInv

\* What a call or a restart does to the records does not matter to a scrape.
LEMMA LabelsStay ==
    ASSUME FuseInv, UNCHANGED scrapeVars, hurt \subseteq hurt',
           \A d \in Records :
              mountPointInfo[d] \in {"cut", "full"} => mountPointInfo'[d] = mountPointInfo[d]
    PROVE  AtItsVolume' /\ SamplesAreLabelled' /\ SamplesAreFiles'
  BY DEF FuseInv, scrapeVars, AtItsVolume, SamplesAreLabelled, SamplesAreFiles

\* Calls that publish.
LEMMA FuseWrites ==
    ASSUME FuseInv, NEW d \in Records, publish(d) \/ WriteMetricsInfo(d) \/ ossfsCounts(d)
    PROVE  FuseInv'
  <1> USE DEF FuseInv
  <1>1. PodOf(d) \in FusePods
    BY DEF FusePods
  <1>2. /\ UNCHANGED scrapeVars
        /\ hurt \subseteq hurt' /\ hurt' \subseteq {"pod", "mount"} \X Records
        /\ fuseFaults' \in 0 .. FuseMaxFaults
    BY FuseAssumption DEF publish, ossfsCounts, WriteMetricsInfo, MakeDirectory, StatPodInfo, OpenPodInfo,
           WritePodInfo, StatMountPointInfo, OpenMountPointInfo, WriteMountPointInfo, records, Hurt,
           FuseFault, FuseStatTypeOK
  <1>3. \A e \in Records : e # d => writer'[e] = writer[e]
    BY DEF publish, ossfsCounts, WriteMetricsInfo, MakeDirectory, StatPodInfo, OpenPodInfo,
           WritePodInfo, StatMountPointInfo, OpenMountPointInfo, WriteMountPointInfo, Go,
           FuseStatTypeOK
  <1>4. CASE \/ publish(d) \/ ossfsCounts(d) \/ MakeDirectory(d)
             \/ StatPodInfo(d) \/ StatMountPointInfo(d)
    <2>1. /\ UNCHANGED <<podInfo, mountPointInfo, hurt>>
          /\ writer[d] \notin {"writePod", "writeMount", "openMount"}
          /\ writer'[d] \in {"writePod", "writeMount"} => FALSE
          /\ writer'[d] \in PastPodInfo => writer[d] \in PastPodInfo \/ podInfo[PodOf(d)] # "absent"
          /\ writer'[d] \in {"done", "openMount"} =>
                 \/ writer'[d] = writer[d]
                 \/ (writer'[d] = "done" /\ mountPointInfo[d] # "absent")
                 \/ (writer'[d] = "openMount" /\ mountPointInfo[d] = "absent")
      BY <1>4 DEF publish, ossfsCounts, MakeDirectory, StatPodInfo, StatMountPointInfo, Go, records,
                  FuseStatTypeOK, PastPodInfo
    <2>2. RecordsAreWhole' /\ ReadableIsFinal'
      <3>1. ReadableIsFinal'
        BY <1>3, <2>1 DEF ReadableIsFinal
      <3>2. ASSUME NEW e \in Records
            PROVE  (\/ mountPointInfo[e] = "full" \/ writer[e] = "writeMount" \/ <<"mount", e>> \in hurt
                    \/ mountPointInfo[e] = "absent" /\ writer[e] # "done")'
        BY <1>3, <2>1 DEF RecordsAreWhole
      <3>3. ASSUME NEW p \in FusePods
            PROVE  (\/ podInfo[p] = "full" \/ WritesPodInfo(p) \/ HurtPodInfo(p)
                    \/ /\ podInfo[p] = "absent"
                       /\ \A e \in Records : PodOf(e) = p => writer[e] \notin PastPodInfo)'
        <4>1. (WritesPodInfo(p) => WritesPodInfo(p)') /\ (HurtPodInfo(p) => HurtPodInfo(p)')
          BY <1>3, <2>1 DEF WritesPodInfo, HurtPodInfo
        <4>2. \A e \in Records : PodOf(e) = p /\ writer'[e] \in PastPodInfo =>
                 writer[e] \in PastPodInfo \/ podInfo[p] # "absent"
          BY <1>3, <2>1
        <4> QED  BY <4>1, <4>2, <2>1 DEF RecordsAreWhole
      <3> QED  BY <3>1, <3>2, <3>3 DEF RecordsAreWhole
    <2>3. FuseStatTypeOK'
      BY <1>2, <1>4 DEF FuseStatTypeOK, publish, ossfsCounts, MakeDirectory, StatPodInfo,
                        StatMountPointInfo, Go, records, scrapeVars, FusePods
    <2> QED  BY <1>2, <2>1, <2>2, <2>3, LabelsStay
  <1>5. CASE OpenPodInfo(d) \/ WritePodInfo(d)
    <2>1. FuseStatTypeOK'
      BY <1>1, <1>2, <1>5 DEF FuseStatTypeOK, OpenPodInfo, WritePodInfo, Go, scrapeVars
    <2>2. /\ UNCHANGED mountPointInfo
          /\ writer[d] \in {"openPod", "writePod"}
          /\ writer'[d] \in {"writePod", "statMount"}
          /\ \A p \in FusePods : p # PodOf(d) => podInfo'[p] = podInfo[p]
          /\ \/ podInfo'[PodOf(d)] = "full" \/ writer'[d] = "writePod" \/ <<"pod", d>> \in hurt'
      BY <1>1, <1>5 DEF OpenPodInfo, WritePodInfo, Go, Hurt, FuseStatTypeOK
    <2>3. ReadableIsFinal'
      BY <1>2, <1>3, <2>2 DEF ReadableIsFinal
    <2>4. ASSUME NEW p \in FusePods
          PROVE  (\/ podInfo[p] = "full" \/ WritesPodInfo(p) \/ HurtPodInfo(p)
                  \/ /\ podInfo[p] = "absent"
                     /\ \A e \in Records : PodOf(e) = p => writer[e] \notin PastPodInfo)'
      <3>1. CASE p = PodOf(d)
        BY <2>2, <3>1 DEF WritesPodInfo, HurtPodInfo
      <3>2. CASE p # PodOf(d)
        <4>1. (WritesPodInfo(p) => WritesPodInfo(p)') /\ (HurtPodInfo(p) => HurtPodInfo(p)')
          BY <1>2, <1>3, <3>2 DEF WritesPodInfo, HurtPodInfo
        <4>2. \A e \in Records : PodOf(e) = p => writer'[e] = writer[e]
          BY <1>3, <3>2
        <4> QED  BY <4>1, <4>2, <2>2, <3>2 DEF RecordsAreWhole
      <3> QED  BY <3>1, <3>2
    <2>5. ASSUME NEW e \in Records
          PROVE  (\/ mountPointInfo[e] = "full" \/ writer[e] = "writeMount" \/ <<"mount", e>> \in hurt
                  \/ mountPointInfo[e] = "absent" /\ writer[e] # "done")'
      BY <1>2, <1>3, <2>2 DEF RecordsAreWhole
    <2>6. RecordsAreWhole'
      BY <2>4, <2>5 DEF RecordsAreWhole
    <2> QED  BY <1>2, <2>1, <2>2, <2>3, <2>6, LabelsStay
  <1>6. CASE OpenMountPointInfo(d) \/ WriteMountPointInfo(d)
    <2>1. FuseStatTypeOK'
      BY <1>2, <1>6 DEF FuseStatTypeOK, OpenMountPointInfo, WriteMountPointInfo, Go, scrapeVars
    <2>2. /\ UNCHANGED podInfo
          /\ writer[d] \in {"openMount", "writeMount"} /\ writer'[d] \in {"writeMount", "done"}
          /\ \A e \in Records : e # d => mountPointInfo'[e] = mountPointInfo[e]
          /\ writer'[d] = "writeMount" => mountPointInfo'[d] = "empty"
          /\ mountPointInfo'[d] = "cut" => <<"mount", d>> \in hurt' \/ mountPointInfo[d] = "cut"
          /\ mountPointInfo'[d] = "full" \/ writer'[d] = "writeMount" \/ <<"mount", d>> \in hurt'
      BY <1>6 DEF OpenMountPointInfo, WriteMountPointInfo, Go, Hurt, FuseStatTypeOK
    <2>3. mountPointInfo[d] \notin {"cut", "full"}
      BY <2>2 DEF ReadableIsFinal
    <2>4. ReadableIsFinal'
      BY <1>2, <1>3, <2>2, <2>3 DEF ReadableIsFinal
    <2>5. ASSUME NEW p \in FusePods
          PROVE  (\/ podInfo[p] = "full" \/ WritesPodInfo(p) \/ HurtPodInfo(p)
                  \/ /\ podInfo[p] = "absent"
                     /\ \A e \in Records : PodOf(e) = p => writer[e] \notin PastPodInfo)'
      <3>1. (WritesPodInfo(p) => WritesPodInfo(p)') /\ (HurtPodInfo(p) => HurtPodInfo(p)')
        BY <1>2, <1>3, <2>2 DEF WritesPodInfo, HurtPodInfo
      <3>2. \A e \in Records : writer'[e] \in PastPodInfo => writer[e] \in PastPodInfo
        BY <1>3, <2>2 DEF PastPodInfo
      <3> QED  BY <3>1, <3>2, <2>2 DEF RecordsAreWhole
    <2>6. ASSUME NEW e \in Records
          PROVE  (\/ mountPointInfo[e] = "full" \/ writer[e] = "writeMount" \/ <<"mount", e>> \in hurt
                  \/ mountPointInfo[e] = "absent" /\ writer[e] # "done")'
      BY <1>2, <1>3, <2>2 DEF RecordsAreWhole
    <2>7. RecordsAreWhole'
      BY <2>5, <2>6 DEF RecordsAreWhole
    <2> QED  BY <1>2, <2>1, <2>2, <2>3, <2>4, <2>7, LabelsStay
  <1> QED  BY <1>4, <1>5, <1>6 DEF WriteMetricsInfo

LEMMA FuseRestarted == FuseInv /\ restartPlugin => FuseInv'
  <1> SUFFICES ASSUME FuseInv, restartPlugin PROVE FuseInv'
    OBVIOUS
  <1> USE DEF FuseInv
  <1>1. FuseStatTypeOK'
    BY FuseAssumption DEF FuseStatTypeOK, restartPlugin, FuseFault, NoInfo
  <1>2. /\ UNCHANGED <<podInfo, mountPointInfo>> /\ hurt \subseteq hurt'
        /\ reader' = "idle" /\ posted' = {}
        /\ \A d \in Records : writer'[d] = writer[d] \/ (writer[d] # "done" /\ writer'[d] = "idle")
        /\ \A d \in Records :
              /\ writer[d] = "writePod" => <<"pod", d>> \in hurt'
              /\ writer[d] = "writeMount" => <<"mount", d>> \in hurt'
    BY DEF restartPlugin, FuseStatTypeOK
  <1>3. ReadableIsFinal'
    BY <1>2 DEF ReadableIsFinal
  <1>4. AtItsVolume' /\ SamplesAreLabelled' /\ SamplesAreFiles'
    BY <1>2 DEF AtItsVolume, SamplesAreLabelled, SamplesAreFiles
  <1>5. ASSUME NEW p \in FusePods
        PROVE  (\/ podInfo[p] = "full" \/ WritesPodInfo(p) \/ HurtPodInfo(p)
                \/ /\ podInfo[p] = "absent"
                   /\ \A e \in Records : PodOf(e) = p => writer[e] \notin PastPodInfo)'
    <2>1. WritesPodInfo(p) \/ HurtPodInfo(p) => HurtPodInfo(p)'
      BY <1>2 DEF WritesPodInfo, HurtPodInfo
    <2>2. \A e \in Records : writer'[e] \in PastPodInfo => writer[e] \in PastPodInfo
      BY <1>2 DEF PastPodInfo
    <2> QED  BY <2>1, <2>2, <1>2 DEF RecordsAreWhole
  <1>6. ASSUME NEW e \in Records
        PROVE  (\/ mountPointInfo[e] = "full" \/ writer[e] = "writeMount" \/ <<"mount", e>> \in hurt
                \/ mountPointInfo[e] = "absent" /\ writer[e] # "done")'
    BY <1>2 DEF RecordsAreWhole
  <1>7. RecordsAreWhole'
    BY <1>5, <1>6 DEF RecordsAreWhole
  <1> QED  BY <1>1, <1>3, <1>4, <1>7

\* The collector changes neither records nor writers.
LEMMA FuseReads ==
    ASSUME FuseInv, FuseUpdate
    PROVE  FuseInv'
  <1> USE DEF FuseInv
  <1>1. UNCHANGED <<podInfo, mountPointInfo, podDirs, dirs, counters, writer, fuseFaults, hurt>>
    BY DEF FuseUpdate, Begin, ListVolumes, Post, EndLoop, ReadPodInfo, ReadMountPointInfo, records
  <1>2. RecordsAreWhole' /\ ReadableIsFinal'
    BY <1>1 DEF RecordsAreWhole, ReadableIsFinal, WritesPodInfo, HurtPodInfo
  <1> DEFINE Info == [pod : FusePods \cup {NoRecord}, volume : Records \cup {NoRecord},
                      mountPoint : {"absent", "cut", "full"}]
  <1>t. ASSUME reader' \in {"idle", "pod", "list", "volume", "post"}, fsClientInfo' \in Info,
               podsLeft' \subseteq FusePods, volumesLeft' \subseteq Records,
               fuseVolume' \in Records \cup {NoRecord}
        PROVE  FuseStatTypeOK'
    BY <1>1, <1>t DEF FuseStatTypeOK
  <1>3. CASE Begin
    <2>1. FuseStatTypeOK'
      BY <1>1, <1>3 DEF FuseStatTypeOK, Begin, NoInfo
    <2> QED  BY <1>2, <1>3, <2>1 DEF Begin, AtItsVolume, SamplesAreLabelled, SamplesAreFiles
  <1>4. CASE ListVolumes
    BY <1>1, <1>2, <1>4 DEF ListVolumes, FuseStatTypeOK, AtItsVolume, SamplesAreLabelled, SamplesAreFiles
  <1>5. CASE EndLoop
    BY <1>1, <1>2, <1>5 DEF EndLoop, FuseStatTypeOK, AtItsVolume, SamplesAreLabelled, SamplesAreFiles
  <1>6. ASSUME NEW p \in FusePods, ReadPodInfo(p) PROVE FuseInv'
    <2>1. FuseStatTypeOK'
      <3>1. fsClientInfo \in Info
        BY DEF FuseStatTypeOK
      <3>2. fsClientInfo' \in Info
        BY <1>6, <3>1 DEF ReadPodInfo
      <3>3. /\ reader' \in {"pod", "list"}
            /\ podsLeft' \subseteq FusePods /\ volumesLeft' \subseteq Records
            /\ fuseVolume' \in Records \cup {NoRecord}
        BY <1>6 DEF FuseStatTypeOK, ReadPodInfo
      <3> QED  BY <1>t, <3>2, <3>3
    <2>2. reader' \in {"pod", "list"} /\ UNCHANGED posted
      BY <1>6 DEF ReadPodInfo
    <2> QED  BY <1>1, <1>2, <2>1, <2>2 DEF AtItsVolume, SamplesAreLabelled, SamplesAreFiles
  <1>7. ASSUME NEW d \in Records, ReadMountPointInfo(d) PROVE FuseInv'
    <2>1. FuseStatTypeOK'
      <3>1. fsClientInfo \in Info
        BY DEF FuseStatTypeOK
      <3>2. fsClientInfo' \in Info
        <4>1. CASE mountPointInfo[d] \notin {"cut", "full"}
          BY <1>7, <3>1, <4>1 DEF ReadMountPointInfo
        <4>2. CASE mountPointInfo[d] \in {"cut", "full"}
          <5>1. fsClientInfo' =
                  [fsClientInfo EXCEPT !.volume = d, !.mountPoint = mountPointInfo[d]]
            BY <1>7, <4>2 DEF ReadMountPointInfo
          <5> QED  BY <3>1, <4>2, <5>1
        <4> QED  BY <4>1, <4>2
      <3>3. /\ reader' \in {"volume", "post"}
            /\ podsLeft' \subseteq FusePods /\ volumesLeft' \subseteq Records
            /\ fuseVolume' \in Records \cup {NoRecord}
        BY <1>7 DEF FuseStatTypeOK, ReadMountPointInfo
      <3> QED  BY <1>t, <3>2, <3>3
    <2>2. /\ \A e \in volumesLeft : PodOf(e) = fsClientInfo.pod
          /\ d \in volumesLeft /\ volumesLeft' \subseteq volumesLeft
      BY <1>7 DEF ReadMountPointInfo, AtItsVolume
    <2>3. fsClientInfo'.pod = fsClientInfo.pod /\ UNCHANGED posted
      BY <1>7 DEF ReadMountPointInfo, FuseStatTypeOK
    <2>4. reader' = "post" =>
             /\ fuseVolume' = d /\ mountPointInfo[d] \in {"cut", "full"}
             /\ fsClientInfo' = [pod |-> PodOf(d), volume |-> d, mountPoint |-> mountPointInfo[d]]
      BY <1>7, <2>2 DEF ReadMountPointInfo, FuseStatTypeOK
    <2> QED  BY <1>1, <1>2, <2>1, <2>2, <2>3, <2>4 DEF AtItsVolume, SamplesAreLabelled, SamplesAreFiles
  <1>8. CASE Post
    <2>1. FuseStatTypeOK'
      BY <1>1, <1>8 DEF FuseStatTypeOK, Post
    <2>2. AtItsVolume'
      BY <1>8 DEF Post, AtItsVolume
    <2>3. /\ fuseVolume \in Records /\ mountPointInfo[fuseVolume] \in {"cut", "full"}
          /\ mountPointInfo[fuseVolume] = "cut" => <<"mount", fuseVolume>> \in hurt
          /\ fsClientInfo.pod = PodOf(fuseVolume) /\ fsClientInfo.volume = fuseVolume
          /\ fsClientInfo.mountPoint = mountPointInfo[fuseVolume]
      BY <1>8 DEF Post, AtItsVolume, ReadableIsFinal
    <2>4. \A files : \A s \in SamplesFrom(files, fuseVolume) :
             /\ s.pod = fsClientInfo.pod /\ s.volume = fsClientInfo.volume
             /\ s.mountPoint = fsClientInfo.mountPoint /\ s.of = fuseVolume
             /\ s = [file |-> s.file, pod |-> s.pod, volume |-> s.volume,
                     mountPoint |-> s.mountPoint, of |-> s.of]
      BY DEF SamplesFrom
    <2>5. posted' = posted \/
          \A s \in posted' : s \in posted \/ \E files : s \in SamplesFrom(files, fuseVolume)
      <3>1. CASE fuseVolume \in counters
        <4> SUFFICES ASSUME NEW s \in posted', s \notin posted
                     PROVE  \E files : s \in SamplesFrom(files, fuseVolume)
          OBVIOUS
        <4>1. \/ s \in SamplesFrom(FrontDescs, fuseVolume) \/ s \in SamplesFrom(CallDescs, fuseVolume)
              \/ s \in SamplesFrom(HotSpotDescs, fuseVolume)
              \/ s \in SamplesFrom(BackendDescs, fuseVolume)
          BY <1>8, <3>1 DEF Post, postCounterMetrics, postHotTopFileMetrics, postBackendCounterMetrics
        <4> QED  BY <4>1
      <3>2. CASE fuseVolume \notin counters
        BY <1>8, <3>2 DEF Post
      <3> QED  BY <3>1, <3>2
    <2>6. SamplesAreLabelled'
      <3> SUFFICES ASSUME NEW s \in posted'
                   PROVE  (/\ s.pod = PodOf(s.of) /\ s.volume = s.of
                           /\ s.mountPoint = mountPointInfo[s.of]
                           /\ s.mountPoint = "cut" => <<"mount", s.of>> \in hurt)'
        BY DEF SamplesAreLabelled
      <3>1. CASE s \in posted
        BY <1>1, <3>1 DEF SamplesAreLabelled
      <3>2. ASSUME NEW files, s \in SamplesFrom(files, fuseVolume)
            PROVE  /\ s.pod = PodOf(s.of) /\ s.volume = s.of /\ s.of = fuseVolume
                   /\ s.mountPoint = mountPointInfo[fuseVolume]
        BY <2>3, <2>4, <3>2
      <3> QED  BY <1>1, <2>3, <2>5, <3>1, <3>2
    <2>7. SamplesAreFiles'
      BY <1>1, <2>3, <2>4, <2>5 DEF SamplesAreFiles
    <2> QED  BY <1>2, <2>1, <2>2, <2>6, <2>7
  <1> QED  BY <1>3, <1>4, <1>5, <1>6, <1>7, <1>8 DEF FuseUpdate

LEMMA FuseStep == FuseInv /\ [FuseStatNext]_fuseVars => FuseInv'
  <1> SUFFICES ASSUME FuseInv, [FuseStatNext]_fuseVars PROVE FuseInv'
    OBVIOUS
  <1>1. CASE UNCHANGED fuseVars
    <2>1. FuseStatTypeOK' /\ ReadableIsFinal' /\ AtItsVolume' /\ SamplesAreLabelled' /\ SamplesAreFiles'
      BY <1>1 DEF fuseVars, records, scrapeVars, FuseInv, FuseStatTypeOK, ReadableIsFinal,
                  AtItsVolume, SamplesAreLabelled, SamplesAreFiles
    <2>2. RecordsAreWhole'
      BY <1>1 DEF fuseVars, records, FuseInv, RecordsAreWhole, WritesPodInfo, HurtPodInfo
    <2> QED  BY <2>1, <2>2 DEF FuseInv
  <1> QED  BY <1>1, FuseWrites, FuseRestarted, FuseReads DEF FuseStatNext

LEMMA FuseAlways == FuseStatSpec => []FuseInv
  BY FuseInit, FuseStep, PTL DEF FuseStatSpec

-----------------------------------------------------------------------------
(* NfsStat: the NFS collector. *)

\* A volume that the kernel's figures name has those of one mount at least, and
\* the loop that publishes goes over such volumes only.
FiguresAreThere ==
    /\ \A v \in NfsPvs : stat[v] = <<>> \/ Len(stat[v]) >= 16
    /\ nfsPc = "report" => \A v \in nfsTodo : stat[v] # <<>>

\* How far a scrape has come during which nothing failed or moved.
CleanScrape ==
    nfsClean =>
        /\ nfsPc \in {"paths", "map", "lookup", "report"} =>
              \A v \in NfsPvs : stat[v] = FiguresOf(v)
        /\ nfsPc \in {"map", "lookup"} =>
              \A v \in NfsPvs : jsonPaths[v] = Having(v, {"file", "mounted"})
        /\ nfsPc = "lookup" =>
              \A v \in NfsPvs \ nfsTodo : LastPath(jsonPaths[v]) \in {NoPod, nfsInfos[v]}
        /\ nfsPc \in {"report", "done"} =>
              \A v \in NfsPvs : nfsInfos[v] = LastPath(Having(v, {"file", "mounted"}))
        /\ nfsPc \in {"report", "done"} =>
              \A v \in NfsPvs : Having(v, {"mounted"}) # {} /\ (nfsPc = "report" => v \notin nfsTodo) =>
                  SampleIsExact(v)

\* What is published has a figure for each name, and none besides.
AllNamesHaveFigures ==
    \A v \in NfsPvs : \A sample \in nfsOut[v] : Len(sample.figures) = Len(descs)

NfsInv == NfsStatTypeOK /\ FiguresAreThere /\ CleanScrape

\* The figures of one mount, in the order of their names.
LEMMA FiguresOfOneMount ==
    /\ addNfsStat \in Seq(OpFigures) /\ Len(addNfsStat) = 16
    /\ \A i \in 1 .. 16 : addNfsStat[i] \in OpFigures /\ addNfsStat[i] = descs[i]
  <1> DEFINE reads  == [i \in 1 .. 8 |-> <<"READ", OpFields[i]>>]
             writes == [i \in 1 .. 8 |-> <<"WRITE", OpFields[i]>>]
  <1>1. \A i \in 1 .. 8 : <<"READ", OpFields[i]>> \in OpFigures /\ <<"WRITE", OpFields[i]>> \in OpFigures
    <2>1. DOMAIN OpFields = 1 .. 8
      BY DEF OpFields
    <2> QED  BY <2>1 DEF OpFigures
  <1>2. /\ reads \in Seq(OpFigures) /\ Len(reads) = 8
        /\ writes \in Seq(OpFigures) /\ Len(writes) = 8
    BY <1>1
  <1>3. /\ addNfsStat \in Seq(OpFigures) /\ Len(addNfsStat) = 16
        /\ \A i \in 1 .. 8 : addNfsStat[i] = <<"READ", OpFields[i]>>
        /\ \A i \in 9 .. 16 : addNfsStat[i] = <<"WRITE", OpFields[i - 8]>>
    <2>1. addNfsStat = reads \o writes
      BY DEF addNfsStat
    <2> HIDE DEF reads, writes
    <2>2. /\ addNfsStat \in Seq(OpFigures)
          /\ Len(addNfsStat) = Len(reads) + Len(writes)
          /\ \A i \in 1 .. Len(reads) + Len(writes) :
                addNfsStat[i] = IF i <= Len(reads) THEN reads[i] ELSE writes[i - Len(reads)]
      BY <1>2, <2>1, ConcatProperties
    <2>3. /\ \A i \in 1 .. 8 : addNfsStat[i] = reads[i]
          /\ \A i \in 9 .. 16 : addNfsStat[i] = writes[i - 8]
          /\ Len(addNfsStat) = 16
      BY <1>2, <2>2
    <2> QED  BY <2>2, <2>3 DEF reads, writes
  <1> HIDE DEF reads, writes
  <1>4. ASSUME NEW i \in 1 .. 16 PROVE addNfsStat[i] = descs[i]
    <2>1. CASE i \in 1 .. 8
      <3>1. addNfsStat[i] = <<"READ", OpFields[i]>>
        BY <1>3, <2>1
      <3> QED  BY <2>1, <3>1 DEF OpFields, descs
    <2>2. CASE i \in 9 .. 16
      <3>1. addNfsStat[i] = <<"WRITE", OpFields[i - 8]>>
        BY <1>3, <2>2
      <3> QED  BY <2>2, <3>1 DEF OpFields, descs
    <2> QED  BY <2>1, <2>2
  <1>5. \A i \in 1 .. 16 : addNfsStat[i] \in OpFigures
    BY <1>3, ElementOfSeq
  <1> QED  BY <1>3, <1>4, <1>5

\* The figures of a volume: sixteen per mount, and the first sixteen are named
\* by the first sixteen names.
LEMMA FiguresOfAVolume ==
    ASSUME NEW v \in NfsPvs
    PROVE  /\ FiguresOf(v) \in Seq(OpFigures)
           /\ FiguresOf(v) = <<>> <=> Having(v, {"mounted"}) = {}
           /\ FiguresOf(v) # <<>> =>
                 /\ Len(FiguresOf(v)) >= 16
                 /\ \A i \in 1 .. 16 : FiguresOf(v)[i] = descs[i]
           /\ \A p \in NfsPods : Having(v, {"mounted"}) = {p} => Len(FiguresOf(v)) = 16
  <1> DEFINE n == Cardinality(Having(v, {"mounted"}))
  <1>1. /\ n \in Nat /\ (n = 0 <=> Having(v, {"mounted"}) = {})
        /\ \A p \in NfsPods : Having(v, {"mounted"}) = {p} => n = 1
    <2>1. IsFiniteSet(Having(v, {"mounted"}))
      BY NfsAssumption, FS_Subset DEF Having
    <2> QED  BY <2>1, FS_CardinalityType, FS_EmptySet, FS_Singleton
  <1>2. FiguresOf(v) = [i \in 1 .. 16 * n |-> addNfsStat[((i - 1) % 16) + 1]]
    BY DEF FiguresOf
  <1> HIDE DEF n
  <1>3. \A i \in 1 .. 16 * n : ((i - 1) % 16) + 1 \in 1 .. 16
    BY <1>1
  <1>4. FiguresOf(v) \in Seq(OpFigures) /\ Len(FiguresOf(v)) = 16 * n
    <2>1. \A i \in 1 .. 16 * n : addNfsStat[((i - 1) % 16) + 1] \in OpFigures
      BY <1>3, FiguresOfOneMount
    <2> QED  BY <1>1, <1>2, <2>1
  <1>5. ASSUME n >= 1, NEW i \in 1 .. 16 PROVE FiguresOf(v)[i] = descs[i]
    <2>1. i \in 1 .. 16 * n /\ ((i - 1) % 16) + 1 = i
      BY <1>1, <1>5
    <2> QED  BY <1>2, <2>1, FiguresOfOneMount
  <1> QED  BY <1>1, <1>4, <1>5

\* The last of some pods is one of them: there are finitely many.
LEMMA LastPathIsOne ==
    ASSUME NEW pods \in SUBSET NfsPods
    PROVE  /\ pods # {} => LastPath(pods) \in pods /\ LastPath(pods) # NoPod
           /\ pods = {} => LastPath(pods) = NoPod
           /\ LastPath(pods) \in NfsPods \cup {NoPod}
  <1>1. ASSUME pods # {} PROVE \E p \in pods : \A q \in pods : q <= p
    <2> DEFINE above(p) == {q \in pods : q > p}
               T == {above(p) : p \in pods}
    <2>1. IsWellFoundedOn(StrictSubsetOrdering(pods), SUBSET pods)
      BY NfsAssumption, FS_Subset, FS_FiniteSubsetsOfFinite, FS_StrictSubsetOrderingWellFounded
    <2>2. T \subseteq SUBSET pods /\ T # {}
      BY <1>1
    <2>3. PICK x \in T : \A y \in T : <<y, x>> \notin StrictSubsetOrdering(pods)
      <3> HIDE DEF T
      <3> QED  BY <2>1, <2>2, WFMin
    <2>4. PICK p \in pods : x = above(p)
      BY <2>3
    <2>5. ASSUME NEW q \in pods, q > p PROVE FALSE
      <3>1. pods \subseteq Int
        BY NfsAssumption
      <3>2. q \in above(p) /\ q \notin above(q)
        BY <2>5, <3>1
      <3>3. ASSUME NEW r \in above(q) PROVE r \in above(p)
        BY <2>5, <3>1
      <3>4. <<above(q), above(p)>> \in StrictSubsetOrdering(pods)
        BY <3>2, <3>3 DEF StrictSubsetOrdering
      <3> QED  BY <2>3, <2>4, <2>5, <3>4
    <2> QED  BY <2>5, NfsAssumption
  <1> QED  BY <1>1, NfsAssumption DEF LastPath, NoPod

ParentCapacity == <<"parent_total", "parent_used", "parent_available">>

\* What is published of figures and a capacity: the first nineteen of both.
LEMMA PublishedFigures ==
    ASSUME NEW s \in Seq(OpFigures), Len(s) >= 16,
           NEW capacity \in {CapacityFields, ParentCapacity}
    PROVE  LET all == s \o [i \in 1 .. 3 |-> <<"capacity", capacity[i]>>]
               out == SubSeq(all, 1, Len(descs))
           IN  /\ out \in Seq(OpFigures \cup CapacityFigures) /\ Len(out) = 19
               /\ \A i \in 1 .. 16 : out[i] = s[i]
               /\ Len(s) = 16 => \A i \in 1 .. 3 : out[16 + i] = <<"capacity", capacity[i]>>
  <1> DEFINE three == [i \in 1 .. 3 |-> <<"capacity", capacity[i]>>]
             all == s \o three
             out == SubSeq(all, 1, Len(descs))
             Both == OpFigures \cup CapacityFigures
  <1>1. three \in Seq(Both) /\ Len(three) = 3 /\ \A i \in 1 .. 3 : three[i] = <<"capacity", capacity[i]>>
    <2>1. \A i \in 1 .. 3 : <<"capacity", capacity[i]>> \in Both
      <3>1. \A i \in 1 .. 3 : CapacityFields[i] \in {"total", "used", "available"}
        BY DEF CapacityFields
      <3>2. \A i \in 1 .. 3 : ParentCapacity[i] \in {"parent_total", "parent_used", "parent_available"}
        BY DEF ParentCapacity
      <3> QED  BY <3>1, <3>2 DEF CapacityFigures
    <2> HIDE DEF Both
    <2> QED  BY <2>1
  <1>2. s \in Seq(Both)
    OBVIOUS
  <1> HIDE DEF three, Both
  <1>3. /\ all \in Seq(Both)
        /\ Len(all) = Len(s) + Len(three)
        /\ \A i \in 1 .. Len(s) + Len(three) :
              all[i] = IF i <= Len(s) THEN s[i] ELSE three[i - Len(s)]
    BY <1>1, <1>2, ConcatProperties
  <1> HIDE DEF all
  <1>4. /\ Len(all) >= 19
        /\ \A i \in 1 .. 16 : all[i] = s[i]
        /\ Len(s) = 16 => \A i \in 1 .. 3 : all[16 + i] = three[i]
    <2>1. Len(all) >= 19
      BY <1>1, <1>3
    <2>2. ASSUME NEW i \in 1 .. 16 PROVE all[i] = s[i]
      <3>1. i \in 1 .. Len(s) + Len(three) /\ i <= Len(s)
        BY <1>1
      <3> QED  BY <1>3, <3>1
    <2>3. ASSUME Len(s) = 16, NEW i \in 1 .. 3 PROVE all[16 + i] = three[i]
      <3>1. 16 + i \in 1 .. Len(s) + Len(three) /\ ~(16 + i <= Len(s)) /\ 16 + i - Len(s) = i
        BY <1>1, <2>3
      <3> QED  BY <1>3, <3>1
    <2> QED  BY <2>1, <2>2, <2>3
  <1>5. \A i \in 1 .. 19 : all[i] \in Both
    BY <1>3, <1>4, ElementOfSeq
  <1>6. /\ out \in Seq(Both)
        /\ Len(out) = IF 1 <= 19 THEN 19 - 1 + 1 ELSE 0
        /\ \A i \in 1 .. 19 - 1 + 1 : out[i] = all[1 + i - 1]
    <2>1. Len(descs) = 19
      BY DEF descs
    <2> QED  BY <1>5, <2>1, SubSeqProperties
  <1> HIDE DEF out
  <1>7. Len(out) = 19 /\ \A i \in 1 .. 19 : out[i] = all[i]
    BY <1>6
  <1>8. \A i \in 1 .. 3 : 16 + i \in 1 .. 19
    OBVIOUS
  <1>9. /\ \A i \in 1 .. 16 : out[i] = s[i]
        /\ Len(s) = 16 => \A i \in 1 .. 3 : out[16 + i] = <<"capacity", capacity[i]>>
    <2>1. ASSUME NEW i \in 1 .. 16 PROVE out[i] = s[i]
      <3>1. i \in 1 .. 19
        OBVIOUS
      <3> QED  BY <1>4, <1>7, <3>1
    <2>2. ASSUME Len(s) = 16, NEW i \in 1 .. 3 PROVE out[16 + i] = <<"capacity", capacity[i]>>
      <3>1. out[16 + i] = all[16 + i]
        BY <1>7, <1>8
      <3> QED  BY <1>1, <1>4, <2>2, <3>1
    <2> QED  BY <2>1, <2>2
  <1> QED  BY <1>6, <1>7, <1>9 DEF three, all, out, Both

\* Figures that agree with the names are the names.
LEMMA ExactFigures ==
    ASSUME NEW S, NEW out \in Seq(S), Len(out) = 19,
           \A i \in 1 .. 16 : out[i] = descs[i]
    PROVE  /\ SubSeq(out, 1, 16) = SubSeq(descs, 1, 16)
           /\ (\A i \in 1 .. 3 : out[16 + i] = <<"capacity", CapacityFields[i]>>) => out = descs
  <1> DEFINE T == S \cup {descs[i] : i \in 1 .. 19}
  <1>1. descs \in Seq(T) /\ Len(descs) = 19 /\ out \in Seq(T)
    <2>1. descs \in Seq({descs[i] : i \in 1 .. 19}) /\ Len(descs) = 19
      BY DEF descs
    <2> QED  BY <2>1
  <1> HIDE DEF T
  <1>2. \A i \in 1 .. 16 : out[i] \in T /\ descs[i] \in T
    <2>1. \A i \in 1 .. 19 : out[i] \in T
      BY <1>1, ElementOfSeq
    <2>2. \A i \in 1 .. 19 : descs[i] \in T
      BY <1>1, ElementOfSeq
    <2> QED  BY <2>1, <2>2
  <1>3. /\ SubSeq(out, 1, 16) \in Seq(T) /\ SubSeq(descs, 1, 16) \in Seq(T)
        /\ Len(SubSeq(out, 1, 16)) = Len(SubSeq(descs, 1, 16))
        /\ \A i \in 1 .. Len(SubSeq(out, 1, 16)) : SubSeq(out, 1, 16)[i] = SubSeq(descs, 1, 16)[i]
    <2>1. /\ SubSeq(out, 1, 16) \in Seq(T)
          /\ Len(SubSeq(out, 1, 16)) = IF 1 <= 16 THEN 16 - 1 + 1 ELSE 0
          /\ \A i \in 1 .. 16 - 1 + 1 : SubSeq(out, 1, 16)[i] = out[1 + i - 1]
      BY <1>2, SubSeqProperties
    <2>2. /\ SubSeq(descs, 1, 16) \in Seq(T)
          /\ Len(SubSeq(descs, 1, 16)) = IF 1 <= 16 THEN 16 - 1 + 1 ELSE 0
          /\ \A i \in 1 .. 16 - 1 + 1 : SubSeq(descs, 1, 16)[i] = descs[1 + i - 1]
      BY <1>2, SubSeqProperties
    <2>3. \A i \in 1 .. 16 : 1 + i - 1 = i
      OBVIOUS
    <2>4. \A i \in 1 .. 16 : SubSeq(out, 1, 16)[i] = out[i] /\ SubSeq(descs, 1, 16)[i] = descs[i]
      BY <2>1, <2>2, <2>3
    <2> QED  BY <2>1, <2>2, <2>4
  <1>4. SubSeq(out, 1, 16) = SubSeq(descs, 1, 16)
    BY <1>3, SeqEqual
  <1>5. ASSUME \A i \in 1 .. 3 : out[16 + i] = <<"capacity", CapacityFields[i]>> PROVE out = descs
    <2>1. ASSUME NEW i \in 1 .. 19 PROVE out[i] = descs[i]
      <3>1. CASE i \in 1 .. 16
        BY <3>1
      <3>2. CASE i \in 17 .. 19
        <4>1. out[i] = <<"capacity", CapacityFields[i - 16]>>
          <5>1. i - 16 \in 1 .. 3 /\ 16 + (i - 16) = i
            BY <3>2
          <5> QED  BY <1>5, <5>1
        <4> QED  BY <3>2, <4>1 DEF CapacityFields, descs
      <3> QED  BY <3>1, <3>2
    <2> QED  BY <1>1, <2>1, SeqEqual
  <1> QED  BY <1>4, <1>5

LEMMA NfsInitially == NfsStatInit => NfsInv
  <1> SUFFICES ASSUME NfsStatInit PROVE NfsInv
    OBVIOUS
  <1>1. NfsStatTypeOK
    <2>1. volume \in [NfsPvs -> [NfsPods -> {"none", "file", "mounted"}]]
      BY DEF NfsStatInit
    <2>2. stat \in [NfsPvs -> Seq(OpFigures)]
      BY DEF NfsStatInit, Nothing
    <2>3. nfsFaults \in 0 .. NfsMaxFaults /\ nfsMoves \in 0 .. NfsMaxMoves
      BY NfsAssumption DEF NfsStatInit
    <2> QED  BY <2>1, <2>2, <2>3 DEF NfsStatInit, NfsStatTypeOK
  <1>2. FiguresAreThere /\ CleanScrape
    BY DEF NfsStatInit, FiguresAreThere, CleanScrape, Nothing
  <1> QED  BY <1>1, <1>2 DEF NfsInv

LEMMA HavingStays ==
    ASSUME UNCHANGED volume
    PROVE  /\ \A v, states : Having(v, states)' = Having(v, states)
           /\ \A v : FiguresOf(v)' = FiguresOf(v)
  BY DEF Having, FiguresOf

\* What a step that may fail does to the counter and to the history.
LEMMA NfsFaultsType ==
    ASSUME NfsStatTypeOK, NfsFault \/ NoNfsFault
    PROVE  nfsClean' \in BOOLEAN /\ nfsFaults' \in 0 .. NfsMaxFaults
  <1>1. nfsClean' \in BOOLEAN
    BY DEF NfsStatTypeOK, NfsFault, NoNfsFault
  <1>2. nfsFaults' \in 0 .. NfsMaxFaults
    BY NfsAssumption DEF NfsStatTypeOK, NfsFault, NoNfsFault
  <1> QED  BY <1>1, <1>2

\* A step that fails or moves ends what is known of a clean scrape.
LEMMA NfsMoves == NfsInv /\ kubeletMoves => NfsInv'
  <1> SUFFICES ASSUME NfsInv, NEW v \in NfsPvs, NEW p \in NfsPods,
                      NEW from, NEW to \in {"none", "file", "mounted"}, Move(v, p, from, to)
               PROVE  NfsInv'
    BY DEF kubeletMoves
  <1>1. volume' \in [NfsPvs -> [NfsPods -> {"none", "file", "mounted"}]]
    BY DEF NfsInv, NfsStatTypeOK, Move
  <1>2. nfsMoves' \in 0 .. NfsMaxMoves
    BY NfsAssumption DEF NfsInv, NfsStatTypeOK, Move
  <1>3. NfsStatTypeOK'
    BY <1>1, <1>2 DEF NfsInv, NfsStatTypeOK, Move
  <1> QED  BY <1>3 DEF NfsInv, FiguresAreThere, CleanScrape, Move

LEMMA NfsGets == NfsInv /\ getNfsStat => NfsInv'
  <1> SUFFICES ASSUME NfsInv, getNfsStat PROVE NfsInv'
    OBVIOUS
  <1>1. UNCHANGED <<volume, jsonPaths, nfsTodo, nfsOut, nfsMoves>>
    BY DEF getNfsStat
  <1>2. CASE /\ nfsFaults > 0 /\ nfsFaults' = nfsFaults - 1
             /\ nfsInfos' \in {nfsInfos, [v \in NfsPvs |-> NoPod]}
             /\ UNCHANGED <<nfsPc, stat, nfsClean>>
    BY <1>1, <1>2, NfsAssumption, HavingStays DEF getNfsStat, NfsInv, NfsStatTypeOK, FiguresAreThere, CleanScrape
  <1>3. CASE /\ stat' = [v \in NfsPvs |-> FiguresOf(v)]
             /\ nfsPc' = IF stat' = Nothing THEN "idle" ELSE "paths"
             /\ nfsClean' = TRUE
             /\ UNCHANGED <<nfsInfos, nfsFaults>>
    <2>1. stat' \in [NfsPvs -> Seq(OpFigures)]
      BY <1>3, FiguresOfAVolume
    <2>2. NfsStatTypeOK'
      BY <1>1, <1>3, <2>1 DEF NfsInv, NfsStatTypeOK
    <2>3. nfsPc' \in {"idle", "paths"}
      BY <1>3
    <2>4. FiguresAreThere'
      BY <1>3, <2>3, FiguresOfAVolume DEF FiguresAreThere
    <2>5. \A v \in NfsPvs : FiguresOf(v)' = FiguresOf(v)
      BY <1>1 DEF FiguresOf, Having
    <2>6. CleanScrape'
      BY <1>3, <2>3, <2>5 DEF CleanScrape
    <2> QED  BY <2>2, <2>4, <2>6 DEF NfsInv
  <1> QED  BY <1>2, <1>3 DEF getNfsStat

LEMMA NfsFinds == NfsInv /\ findVolJSON => NfsInv'
  <1> SUFFICES ASSUME NfsInv, findVolJSON PROVE NfsInv'
    OBVIOUS
  <1>1. UNCHANGED <<volume, nfsInfos, nfsTodo, nfsOut, nfsMoves>> /\ nfsPc = "paths"
    BY DEF findVolJSON
  <1>2. CASE /\ NoNfsFault
             /\ jsonPaths' = [v \in NfsPvs |-> Having(v, {"file", "mounted"})]
             /\ nfsPc' = "map" /\ UNCHANGED stat
    <2>1. NfsStatTypeOK'
      BY <1>1, <1>2 DEF NfsInv, NfsStatTypeOK, NoNfsFault, Having
    <2>2. FiguresAreThere'
      BY <1>1, <1>2 DEF NfsInv, FiguresAreThere
    <2>3. CleanScrape'
      BY <1>1, <1>2, HavingStays DEF NfsInv, CleanScrape, NoNfsFault
    <2> QED  BY <2>1, <2>2, <2>3 DEF NfsInv
  <1>3. CASE NfsFault /\ nfsPc' = "idle" /\ stat' = Nothing /\ UNCHANGED jsonPaths
    <2>1. NfsStatTypeOK'
      <3>1. nfsClean' \in BOOLEAN /\ nfsFaults' \in 0 .. NfsMaxFaults
        BY <1>3, NfsFaultsType DEF NfsInv
      <3>2. stat' \in [NfsPvs -> Seq(OpFigures)]
        BY <1>3 DEF Nothing
      <3> QED  BY <1>1, <1>3, <3>1, <3>2 DEF NfsInv, NfsStatTypeOK
    <2> QED  BY <1>3, <2>1 DEF NfsInv, FiguresAreThere, CleanScrape, NfsFault, Nothing
  <1> QED  BY <1>1, <1>2, <1>3 DEF findVolJSON

LEMMA NfsMaps == NfsInv /\ updateMap => NfsInv'
  <1> SUFFICES ASSUME NfsInv, updateMap PROVE NfsInv'
    OBVIOUS
  <1>1. /\ UNCHANGED <<volume, nfsInfos, stat, nfsOut, nfsMoves>>
        /\ nfsPc = "map" /\ nfsPc' = "lookup" /\ nfsTodo' = NfsChanged(jsonPaths')
    BY DEF updateMap
  <1>2. /\ jsonPaths' \in [NfsPvs -> SUBSET NfsPods]
        /\ nfsClean' \in BOOLEAN /\ nfsFaults' \in 0 .. NfsMaxFaults
    <2>1. jsonPaths' \in [NfsPvs -> SUBSET NfsPods]
      BY DEF NfsInv, NfsStatTypeOK, updateMap
    <2> QED  BY <2>1, NfsFaultsType DEF NfsInv, updateMap
  <1>3. NfsStatTypeOK'
    BY <1>1, <1>2 DEF NfsInv, NfsStatTypeOK, NfsChanged
  <1>4. FiguresAreThere'
    BY <1>1 DEF NfsInv, FiguresAreThere
  <1>5. ASSUME nfsClean' PROVE CleanScrape'
    <2>1. nfsClean /\ jsonPaths' = [v \in NfsPvs |-> jsonPaths[v] \cap Having(v, {"file", "mounted"})]
      BY <1>5 DEF updateMap, NoNfsFault, NfsFault
    <2>2. /\ \A v \in NfsPvs : jsonPaths'[v] = Having(v, {"file", "mounted"})
          /\ \A v \in NfsPvs : stat[v] = FiguresOf(v)
      BY <1>1, <2>1 DEF NfsInv, CleanScrape
    <2>3. \A v \in NfsPvs \ nfsTodo' : LastPath(jsonPaths'[v]) \in {NoPod, nfsInfos[v]}
      BY <1>1 DEF NfsChanged
    <2> QED  BY <1>1, <2>2, <2>3, HavingStays DEF CleanScrape
  <1>6. CleanScrape'
    BY <1>2, <1>5 DEF CleanScrape
  <1> QED  BY <1>3, <1>4, <1>6 DEF NfsInv

LEMMA NfsLooksUp == NfsInv /\ lookUpClaim => NfsInv'
  <1> SUFFICES ASSUME NfsInv, lookUpClaim PROVE NfsInv'
    OBVIOUS
  <1>1. PICK v \in nfsTodo :
            /\ \/ NoNfsFault /\ nfsInfos' = [nfsInfos EXCEPT ![v] = LastPath(jsonPaths[v])]
               \/ NfsFault /\ UNCHANGED nfsInfos
            /\ nfsTodo' = nfsTodo \ {v}
    BY DEF lookUpClaim
  <1>2. /\ UNCHANGED <<volume, nfsPc, stat, jsonPaths, nfsOut, nfsMoves>>
        /\ nfsPc = "lookup" /\ v \in NfsPvs
    BY DEF lookUpClaim, NfsInv, NfsStatTypeOK
  <1>3. /\ nfsInfos' \in [NfsPvs -> NfsPods \cup {NoPod}]
        /\ nfsClean' \in BOOLEAN /\ nfsFaults' \in 0 .. NfsMaxFaults
    <2>1. LastPath(jsonPaths[v]) \in NfsPods \cup {NoPod}
      BY <1>2, LastPathIsOne DEF NfsInv, NfsStatTypeOK
    <2>2. nfsInfos' \in [NfsPvs -> NfsPods \cup {NoPod}]
      BY <1>1, <1>2, <2>1 DEF NfsInv, NfsStatTypeOK
    <2> QED  BY <1>1, <2>2, NfsFaultsType DEF NfsInv
  <1>4. NfsStatTypeOK'
    BY <1>1, <1>2, <1>3 DEF NfsInv, NfsStatTypeOK
  <1>5. FiguresAreThere'
    BY <1>2 DEF NfsInv, FiguresAreThere
  <1>6. ASSUME nfsClean' PROVE CleanScrape'
    <2>1. nfsClean /\ nfsInfos' = [nfsInfos EXCEPT ![v] = LastPath(jsonPaths[v])]
      BY <1>1, <1>6 DEF NoNfsFault, NfsFault
    <2>2. \A u \in NfsPvs \ nfsTodo' : LastPath(jsonPaths[u]) \in {NoPod, nfsInfos'[u]}
      BY <1>1, <1>2, <2>1 DEF NfsInv, NfsStatTypeOK, CleanScrape
    <2> QED  BY <1>2, <2>1, <2>2, HavingStays DEF NfsInv, CleanScrape
  <1>7. CleanScrape'
    BY <1>3, <1>6 DEF CleanScrape
  <1> QED  BY <1>4, <1>5, <1>7 DEF NfsInv

LEMMA NfsPrunes == NfsInv /\ prune => NfsInv'
  <1> SUFFICES ASSUME NfsInv, prune PROVE NfsInv'
    OBVIOUS
  <1>1. NfsStatTypeOK'
    BY DEF NfsInv, NfsStatTypeOK, prune
  <1>2. FiguresAreThere'
    BY DEF NfsInv, FiguresAreThere, prune
  <1>3. ASSUME nfsClean' PROVE CleanScrape'
    <2>1. nfsClean /\ nfsPc = "lookup" /\ nfsPc' = "report" /\ nfsTodo = {} /\ UNCHANGED <<volume, stat>>
      BY <1>3 DEF prune
    <2>2. \A v \in NfsPvs : /\ stat[v] = FiguresOf(v)
                            /\ jsonPaths[v] = Having(v, {"file", "mounted"})
                            /\ LastPath(jsonPaths[v]) \in {NoPod, nfsInfos[v]}
      BY <2>1 DEF NfsInv, CleanScrape
    <2>3. \A v \in NfsPvs : nfsInfos'[v] = LastPath(jsonPaths[v])
      BY <2>2, LastPathIsOne DEF prune, NfsInv, NfsStatTypeOK
    <2>4. \A v \in NfsPvs : Having(v, {"mounted"}) # {} => v \in nfsTodo'
      BY <2>2, FiguresOfAVolume DEF prune
    <2> QED  BY <2>1, <2>2, <2>3, <2>4, HavingStays DEF CleanScrape
  <1>4. CleanScrape'
    BY <1>1, <1>3 DEF CleanScrape, NfsStatTypeOK
  <1> QED  BY <1>1, <1>2, <1>4 DEF NfsInv

\* What setNfsMetric publishes is of the right type, and exact when the figures
\* are those of now, the volume has its entry, and nothing failed.
LEMMA NfsPublishes ==
    ASSUME NfsInv, nfsPc = "report", NEW v \in nfsTodo,
           NEW capacity \in getNfsCapacityStat(v), capacity # <<>>,
           setNfsMetric(v, stat[v] \o [i \in 1 .. 3 |-> <<"capacity", capacity[i]>>])
    PROVE  /\ nfsOut' \in [NfsPvs -> SUBSET NfsSamples]
           /\ \A u \in NfsPvs \ {v} : nfsOut'[u] = nfsOut[u]
           /\ \A sample \in nfsOut'[v] : Len(sample.figures) = Len(descs)
           /\ nfsClean /\ Having(v, {"mounted"}) # {} /\ UNCHANGED volume => SampleIsExact(v)'
  <1> DEFINE out == SubSeq(stat[v] \o [i \in 1 .. 3 |-> <<"capacity", capacity[i]>>], 1, Len(descs))
  <1>1. v \in NfsPvs /\ stat[v] \in Seq(OpFigures) /\ Len(stat[v]) >= 16
    BY DEF NfsInv, NfsStatTypeOK, FiguresAreThere
  <1>2. capacity \in {CapacityFields, ParentCapacity}
    BY DEF getNfsCapacityStat, ParentCapacity
  <1>3. /\ out \in Seq(OpFigures \cup CapacityFigures) /\ Len(out) = 19
        /\ \A i \in 1 .. 16 : out[i] = stat[v][i]
        /\ Len(stat[v]) = 16 => \A i \in 1 .. 3 : out[16 + i] = <<"capacity", capacity[i]>>
    BY <1>1, <1>2, PublishedFigures
  <1>4. nfsOut' = [nfsOut EXCEPT ![v] = {[figures |-> out, labelled |-> nfsInfos[v] # NoPod]}]
    BY DEF setNfsMetric
  <1> HIDE DEF out
  <1>5. [figures |-> out, labelled |-> nfsInfos[v] # NoPod] \in NfsSamples
    BY <1>3 DEF NfsSamples
  <1>6. /\ nfsOut' \in [NfsPvs -> SUBSET NfsSamples]
        /\ \A u \in NfsPvs \ {v} : nfsOut'[u] = nfsOut[u]
        /\ nfsOut'[v] = {[figures |-> out, labelled |-> nfsInfos[v] # NoPod]}
    BY <1>1, <1>4, <1>5 DEF NfsInv, NfsStatTypeOK
  <1>7. ASSUME nfsClean, Having(v, {"mounted"}) # {}, UNCHANGED volume
        PROVE  SampleIsExact(v)'
    <2> DEFINE sample == [figures |-> out, labelled |-> nfsInfos[v] # NoPod]
    <2>1. /\ stat[v] = FiguresOf(v) /\ nfsInfos[v] = LastPath(Having(v, {"file", "mounted"}))
          /\ stat[v] # <<>>
      BY <1>1, <1>7, FiguresOfAVolume DEF NfsInv, CleanScrape
    <2>2. /\ nfsInfos[v] \in Having(v, {"file", "mounted"}) /\ nfsInfos[v] # NoPod
      <3>1. Having(v, {"file", "mounted"}) # {} /\ Having(v, {"file", "mounted"}) \in SUBSET NfsPods
        BY <1>7 DEF Having
      <3> QED  BY <2>1, <3>1, LastPathIsOne
    <2>3. /\ SubSeq(out, 1, 16) = SubSeq(descs, 1, 16)
          /\ (\A i \in 1 .. 3 : out[16 + i] = <<"capacity", CapacityFields[i]>>) => out = descs
      <3>1. \A i \in 1 .. 16 : out[i] = descs[i]
        BY <1>1, <1>3, <2>1, FiguresOfAVolume
      <3> QED  BY <1>3, <3>1, ExactFigures
    <2>4. ASSUME NEW p \in NfsPods, Having(v, {"mounted"}) = {p}, Having(v, {"file"}) = {}
          PROVE  out = descs
      <3>1. volume[v][nfsInfos[v]] = "mounted"
        BY <2>2, <2>4 DEF Having
      <3>2. capacity = CapacityFields
        BY <2>2, <3>1 DEF getNfsCapacityStat
      <3>3. Len(stat[v]) = 16
        BY <1>1, <2>1, <2>4, FiguresOfAVolume
      <3> QED  BY <1>3, <2>3, <3>2, <3>3
    <2>5. nfsOut'[v] = {sample} /\ sample.labelled /\ sample.figures = out
      BY <1>6, <2>2
    <2> HIDE DEF sample
    <2>6. \A states : Having(v, states)' = Having(v, states)
      BY <1>7 DEF Having
    <2> QED  BY <2>3, <2>4, <2>5, <2>6 DEF SampleIsExact
  <1>8. \A sample \in nfsOut'[v] : Len(sample.figures) = Len(descs)
    <2>1. Len(descs) = 19
      BY DEF descs
    <2> QED  BY <1>3, <1>6, <2>1
  <1> QED  BY <1>6, <1>7, <1>8

\* A clean scrape has the capacity of every volume that is mounted.
LEMMA CapacityIsThere ==
    ASSUME NfsInv, nfsPc = "report", nfsClean, NEW v \in NfsPvs, Having(v, {"mounted"}) # {},
           NEW capacity \in getNfsCapacityStat(v)
    PROVE  capacity # <<>>
  <1>1. nfsInfos[v] = LastPath(Having(v, {"file", "mounted"}))
    BY DEF NfsInv, CleanScrape
  <1>2. nfsInfos[v] \in Having(v, {"file", "mounted"}) /\ nfsInfos[v] # NoPod
    <2>1. Having(v, {"file", "mounted"}) # {} /\ Having(v, {"file", "mounted"}) \in SUBSET NfsPods
      BY DEF Having
    <2> QED  BY <1>1, <2>1, LastPathIsOne
  <1>3. volume[v][nfsInfos[v]] # "none"
    BY <1>2 DEF Having
  <1>4. capacity \in {CapacityFields, ParentCapacity}
    BY <1>2, <1>3 DEF getNfsCapacityStat, ParentCapacity
  <1>5. CapacityFields # <<>> /\ ParentCapacity # <<>>
    BY DEF CapacityFields, ParentCapacity
  <1> QED  BY <1>4, <1>5

LEMMA NfsReports == NfsInv /\ report => NfsInv'
  <1> SUFFICES ASSUME NfsInv, report PROVE NfsInv'
    OBVIOUS
  <1>1. PICK v \in nfsTodo :
            /\ \/ /\ NoNfsFault
                  /\ \E capacity \in getNfsCapacityStat(v) :
                        IF capacity = <<>> THEN UNCHANGED nfsOut
                        ELSE setNfsMetric(v, stat[v] \o [i \in 1 .. 3 |-> <<"capacity", capacity[i]>>])
               \/ NfsFault /\ UNCHANGED nfsOut
            /\ nfsTodo' = nfsTodo \ {v}
    BY DEF report
  <1>2. UNCHANGED <<volume, nfsInfos, nfsPc, stat, jsonPaths, nfsMoves>> /\ nfsPc = "report"
    BY DEF report
  <1>3. /\ nfsClean' \in BOOLEAN /\ nfsFaults' \in 0 .. NfsMaxFaults
        /\ nfsClean' => nfsClean
    <2>1. nfsClean' \in BOOLEAN /\ nfsFaults' \in 0 .. NfsMaxFaults
      BY <1>1, NfsFaultsType DEF NfsInv
    <2>2. nfsClean' => nfsClean
      BY <1>1 DEF NoNfsFault, NfsFault
    <2> QED  BY <2>1, <2>2
  <1>4. v \in NfsPvs
    BY DEF NfsInv, NfsStatTypeOK
  <1>5. /\ nfsOut' \in [NfsPvs -> SUBSET NfsSamples]
        /\ \A u \in NfsPvs \ {v} : nfsOut'[u] = nfsOut[u]
        /\ nfsClean' /\ Having(v, {"mounted"}) # {} => SampleIsExact(v)'
    <2>1. ASSUME NoNfsFault, NEW capacity \in getNfsCapacityStat(v), capacity # <<>>,
                 setNfsMetric(v, stat[v] \o [i \in 1 .. 3 |-> <<"capacity", capacity[i]>>])
          PROVE  /\ nfsOut' \in [NfsPvs -> SUBSET NfsSamples]
                 /\ \A u \in NfsPvs \ {v} : nfsOut'[u] = nfsOut[u]
                 /\ nfsClean' /\ Having(v, {"mounted"}) # {} => SampleIsExact(v)'
      BY <1>2, <1>3, <2>1, NfsPublishes
    <2>2. ASSUME NoNfsFault, NEW capacity \in getNfsCapacityStat(v), capacity = <<>>
          PROVE  ~(nfsClean' /\ Having(v, {"mounted"}) # {})
      BY <1>2, <1>3, <1>4, <2>2, CapacityIsThere
    <2>3. ASSUME NfsFault PROVE ~nfsClean'
      BY <2>3 DEF NfsFault
    <2>4. nfsOut \in [NfsPvs -> SUBSET NfsSamples]
      BY DEF NfsInv, NfsStatTypeOK
    <2> QED  BY <1>1, <2>1, <2>2, <2>3, <2>4
  <1>6. NfsStatTypeOK'
    BY <1>1, <1>2, <1>3, <1>5 DEF NfsInv, NfsStatTypeOK
  <1>7. FiguresAreThere'
    BY <1>1, <1>2 DEF NfsInv, FiguresAreThere
  <1>8. ASSUME nfsClean' PROVE CleanScrape'
    <2>1. \A u \in NfsPvs \ {v} : SampleIsExact(u) => SampleIsExact(u)'
      BY <1>2, <1>5, HavingStays DEF SampleIsExact
    <2>2. \A u \in NfsPvs : Having(u, {"mounted"}) # {} /\ u \notin nfsTodo' => SampleIsExact(u)'
      BY <1>1, <1>2, <1>3, <1>5, <1>8, <2>1 DEF NfsInv, CleanScrape
    <2> QED  BY <1>2, <1>3, <1>8, <2>2, HavingStays DEF NfsInv, CleanScrape
  <1>9. CleanScrape'
    BY <1>3, <1>8 DEF CleanScrape
  <1> QED  BY <1>6, <1>7, <1>9 DEF NfsInv

LEMMA NfsEnds == NfsInv /\ (finish \/ answer) => NfsInv'
  <1> SUFFICES ASSUME NfsInv, finish \/ answer PROVE NfsInv'
    OBVIOUS
  <1>1. CASE finish
    <2>1. NfsStatTypeOK'
      <3>1. stat' \in [NfsPvs -> Seq(OpFigures)]
        BY <1>1 DEF finish, Nothing
      <3> QED  BY <1>1, <3>1 DEF NfsInv, NfsStatTypeOK, finish
    <2>2. FiguresAreThere'
      BY <1>1 DEF FiguresAreThere, finish, Nothing
    <2>3. \A v \in NfsPvs : SampleIsExact(v)' <=> SampleIsExact(v)
      BY <1>1, HavingStays DEF SampleIsExact, finish
    <2>4. CleanScrape'
      BY <1>1, <2>3, HavingStays DEF NfsInv, CleanScrape, finish
    <2> QED  BY <2>1, <2>2, <2>4 DEF NfsInv
  <1>2. CASE answer
    <2>1. NfsStatTypeOK'
      BY <1>2 DEF NfsInv, NfsStatTypeOK, answer
    <2> QED  BY <1>2, <2>1 DEF NfsInv, FiguresAreThere, CleanScrape, answer
  <1> QED  BY <1>1, <1>2

LEMMA NfsStep == NfsInv /\ [NfsStatNext]_nfsVars => NfsInv'
  <1> SUFFICES ASSUME NfsInv, [NfsStatNext]_nfsVars PROVE NfsInv'
    OBVIOUS
  <1>1. CASE UNCHANGED nfsVars
    <2>1. \A v \in NfsPvs : SampleIsExact(v)' <=> SampleIsExact(v)
      BY <1>1, HavingStays DEF SampleIsExact, nfsVars
    <2> QED  BY <1>1, <2>1, HavingStays
             DEF nfsVars, NfsInv, NfsStatTypeOK, FiguresAreThere, CleanScrape
  <1> QED  BY <1>1, NfsMoves, NfsGets, NfsFinds, NfsMaps, NfsLooksUp, NfsPrunes, NfsReports, NfsEnds
           DEF NfsStatNext, Update

LEMMA NamesStep == NfsInv /\ AllNamesHaveFigures /\ [NfsStatNext]_nfsVars => AllNamesHaveFigures'
  <1> SUFFICES ASSUME NfsInv, AllNamesHaveFigures, [NfsStatNext]_nfsVars
               PROVE  AllNamesHaveFigures'
    OBVIOUS
  <1>1. CASE UNCHANGED nfsOut
    BY <1>1 DEF AllNamesHaveFigures
  <1>2. CASE report
    <2>1. PICK v \in nfsTodo :
             \/ \E capacity \in getNfsCapacityStat(v) :
                   /\ capacity # <<>>
                   /\ setNfsMetric(v, stat[v] \o [i \in 1 .. 3 |-> <<"capacity", capacity[i]>>])
             \/ UNCHANGED nfsOut
      BY <1>2 DEF report
    <2> QED  BY <1>1, <1>2, <2>1, NfsPublishes DEF report, AllNamesHaveFigures
  <1>3. CASE answer
    BY <1>3 DEF answer, AllNamesHaveFigures
  <1> QED  BY <1>1, <1>2, <1>3
           DEF NfsStatNext, nfsVars, Update, getNfsStat, findVolJSON, updateMap, lookUpClaim, prune,
               finish, kubeletMoves, Move

LEMMA NfsAlways == NfsStatSpec => []NfsInv
  BY NfsInitially, NfsStep, PTL DEF NfsStatSpec

-----------------------------------------------------------------------------
(* Connector: the watchdogs. *)

\* Each watchdog counts what it has itself found.
CountsItsOwn == notAlive = missed

ConnectorInv == ConnectorTypeOK /\ CountsItsOwn

LEMMA ConnInit == ConnectorInit => ConnectorInv
  <1> SUFFICES ASSUME ConnectorInit PROVE ConnectorInv
    OBVIOUS
  <1>1. NoCounts \in [Listeners -> [PluginSockets -> 0 .. DeadChecks]]
    BY ConnectorAssumption DEF NoCounts
  <1>2. crashes \in 0 .. MaxCrashes /\ starts \in 0 .. MaxPluginStarts
    BY ConnectorAssumption DEF ConnectorInit
  <1> QED  BY <1>1, <1>2 DEF ConnectorInit, ConnectorInv, ConnectorTypeOK, CountsItsOwn

LEMMA CountType ==
    ASSUME NEW n \in 0 .. DeadChecks
    PROVE  Count(n) \in 0 .. DeadChecks
  BY ConnectorAssumption DEF Count

LEMMA ConnWatchdog ==
    ASSUME ConnectorInv, NEW l \in Listeners, watchDogCheck(l)
    PROVE  /\ ConnectorInv'
           /\ daemon' = "exited" => \A p \in PluginSockets : missed[l][p] = DeadChecks
  <1> USE DEF ConnectorInv
  <1>1. CASE EndRound(l)
    <2>1. ConnectorTypeOK'
      BY <1>1 DEF EndRound, ConnectorTypeOK
    <2>2. CountsItsOwn'
      BY <1>1 DEF EndRound, CountsItsOwn
    <2>3. ASSUME daemon' = "exited" PROVE \A p \in PluginSockets : missed[l][p] = DeadChecks
      <3>1. \A p \in PluginSockets : notAlive[l][p] >= DeadChecks
        BY <1>1, <2>3 DEF EndRound
      <3>2. \A p \in PluginSockets : notAlive[l][p] \in 0 .. DeadChecks
        BY DEF ConnectorTypeOK
      <3> QED  BY <3>1, <3>2, ConnectorAssumption DEF CountsItsOwn
    <2> QED  BY <2>1, <2>2, <2>3
  <1>2. ASSUME NEW p \in PluginSockets, CheckSocket(l, p)
        PROVE  ConnectorInv' /\ daemon' = "running"
    <2>1. missed' = notAlive' /\ notAlive' = Counted(l, p)
      BY <1>2 DEF CheckSocket, Counted, CountsItsOwn
    <2>2. (IF Alive(p) THEN 0 ELSE Count(notAlive[l][p])) \in 0 .. DeadChecks
      BY CountType, ConnectorAssumption DEF ConnectorTypeOK
    <2>3. notAlive' \in [Listeners -> [PluginSockets -> 0 .. DeadChecks]]
      BY <2>1, <2>2 DEF Counted, ConnectorTypeOK
    <2>4. unchecked' \in [Listeners -> SUBSET PluginSockets]
      BY <1>2 DEF CheckSocket, ConnectorTypeOK
    <2> QED  BY <1>2, <2>1, <2>3, <2>4 DEF CheckSocket, ConnectorTypeOK, CountsItsOwn
  <1> QED  BY <1>1, <1>2 DEF watchDogCheck

\* A daemon that is started has counted nothing yet.
LEMMA ConnStarted ==
    ASSUME ConnectorInv, Started, UNCHANGED <<socketFile, crashes, starts>>,
           plugin' \in [PluginSockets -> {"down", "installing", "starting", "up"}]
    PROVE  ConnectorInv'
  <1>1. NoCounts \in [Listeners -> [PluginSockets -> 0 .. DeadChecks]]
    BY ConnectorAssumption DEF NoCounts
  <1> QED  BY <1>1 DEF Started, ConnectorInv, ConnectorTypeOK, CountsItsOwn

LEMMA ConnStep ==
    ASSUME ConnectorInv, [ConnectorNext]_connectorVars
    PROVE  /\ ConnectorInv'
           /\ daemon = "running" /\ daemon' = "exited" =>
                \E l \in Listeners : \A p \in PluginSockets : missed[l][p] = DeadChecks
  <1>1. CASE UNCHANGED connectorVars
    BY <1>1 DEF connectorVars, watch, ConnectorInv, ConnectorTypeOK, CountsItsOwn
  <1>2. ASSUME NEW l \in Listeners, EnsureSocketPath(l) \/ Listen(l)
        PROVE  ConnectorInv' /\ daemon' # "exited"
    BY <1>2 DEF EnsureSocketPath, Listen, watch, ConnectorInv, ConnectorTypeOK, CountsItsOwn
  <1>3. ASSUME Crash PROVE ConnectorInv' /\ daemon' # "exited"
    BY <1>3, ConnectorAssumption DEF Crash, watch, ConnectorInv, ConnectorTypeOK, CountsItsOwn
  <1>4. ASSUME RestartOnFailure PROVE ConnectorInv' /\ daemon' # "exited"
    BY <1>4, ConnStarted DEF RestartOnFailure, Started, ConnectorInv, ConnectorTypeOK
  <1>5. ASSUME NEW p \in PluginSockets, RestartService(p)
        PROVE  ConnectorInv' /\ daemon' # "exited"
    <2>1. plugin' \in [PluginSockets -> {"down", "installing", "starting", "up"}]
      BY <1>5 DEF RestartService, ConnectorInv, ConnectorTypeOK
    <2> QED  BY <1>5, <2>1, ConnStarted DEF RestartService, Started
  <1>6. ASSUME NEW p \in PluginSockets, PluginInstalls(p) \/ PluginStops(p) \/ PluginListens(p)
        PROVE  ConnectorInv' /\ UNCHANGED daemon
    <2>1. /\ plugin' \in [PluginSockets -> {"down", "installing", "starting", "up"}]
          /\ starts' \in 0 .. MaxPluginStarts
          /\ UNCHANGED <<daemon, listener, socketFile, watch, crashes>>
      BY <1>6, ConnectorAssumption
         DEF PluginInstalls, PluginStops, PluginListens, ConnectorInv, ConnectorTypeOK
    <2> QED  BY <2>1 DEF watch, ConnectorInv, ConnectorTypeOK, CountsItsOwn
  <1>7. CASE ConnectorNext
    BY <1>2, <1>3, <1>4, <1>5, <1>6, <1>7, ConnWatchdog DEF ConnectorNext, amd64_entrypoint
  <1> QED  BY <1>1, <1>7

LEMMA ConnAlways == ConnectorSpec => []ConnectorInv
  <1>1. ConnectorInv /\ [ConnectorNext]_connectorVars => ConnectorInv'
    BY ConnStep
  <1> QED  BY <1>1, ConnInit, PTL DEF ConnectorSpec

-----------------------------------------------------------------------------
(* Orphans: the clean-up. *)

\* The links of a line are links, and a volume whose record is to be removed has
\* been unmounted.
LinesOK == \A l \in omTail : l[1] = "links" => l[2] \subseteq Links
Unmounted == om \in {"json", "rmdir"} => omAt \notin mountedOn

OrphansInv == OrphansTypeOK /\ LinesOK /\ Unmounted /\ MountedKeepsItsRecord
LEMMA OmInit == OrphansInit => OrphansInv
  BY OrphanAssumption DEF OrphansInit, OrphansInv, OrphansTypeOK, LinesOK, Unmounted,
                          MountedKeepsItsRecord, Orphaned

LEMMA OmFaultsType ==
    ASSUME OrphansInv, OmFault \/ NoOmFault
    PROVE  omFaults' \in 0 .. OmMaxFaults
  BY OrphanAssumption DEF OmFault, NoOmFault, OrphansInv, OrphansTypeOK

\* The log, and the steps between the lines.
LEMMA OmLines ==
    ASSUME OrphansInv, ReadFileLines \/ EndLine \/ OrphanLine \/ LinkLine
    PROVE  OrphansInv'
  <1> USE DEF OrphansInv
  <1>1. CASE ReadFileLines
    <2>1. UNCHANGED <<host, FixedPodList, omLeft, omAt>> /\ omFaults' \in 0 .. OmMaxFaults
      BY <1>1, OmFaultsType DEF ReadFileLines
    <2>2. \/ UNCHANGED <<om, omTail>>
          \/ /\ om' = "loop"
             /\ \E pods : omTail' = {<<"orphan", p>> : p \in pods}
                                   \cup (IF links = {} THEN {} ELSE {<<"links", links>>})
      BY <1>1 DEF ReadFileLines
    <2>3. /\ \A line \in omTail' : line[1] \in {"orphan", "links"}
          /\ \A line \in omTail' : line[1] = "links" => line[2] \subseteq Links
      BY <2>2 DEF OrphansTypeOK, LinesOK
    <2> QED  BY <2>1, <2>2, <2>3
             DEF host, OrphansTypeOK, LinesOK, Unmounted, MountedKeepsItsRecord
  <1>2. CASE EndLine
    BY <1>2 DEF EndLine, host, OrphansTypeOK, LinesOK, Unmounted, MountedKeepsItsRecord
  <1>3. CASE OrphanLine
    <2>1. omFaults' \in 0 .. OmMaxFaults
      BY <1>3, OmFaultsType DEF OrphanLine
    <2> QED  BY <1>3, <2>1
             DEF OrphanLine, host, OrphansTypeOK, LinesOK, Unmounted, MountedKeepsItsRecord
  <1>4. CASE LinkLine
    BY <1>4 DEF LinkLine, host, OrphansTypeOK, LinesOK, Unmounted, MountedKeepsItsRecord
  <1> QED  BY <1>1, <1>2, <1>3, <1>4

\* The steps for one volume or one link.
LEMMA OmItems ==
    ASSUME OrphansInv,
           NextVolume \/ CleanupMountPoint \/ RemoveJson \/ RemoveVolumePath \/ NextLink \/ RemoveLink
    PROVE  OrphansInv'
  <1> USE DEF OrphansInv
  <1>1. CASE NextVolume
    BY <1>1 DEF NextVolume, NoOmFault, host, OrphansTypeOK, LinesOK, Unmounted, MountedKeepsItsRecord
  <1>2. CASE CleanupMountPoint
    <2>1. omFaults' \in 0 .. OmMaxFaults
      BY <1>2, OmFaultsType DEF CleanupMountPoint
    <2>2. /\ mountedOn' \subseteq mountedOn /\ mountDirs' \subseteq mountDirs
          /\ om' \in {"json", "volume"} /\ om' = "json" => omAt \notin mountedOn'
      BY <1>2 DEF CleanupMountPoint
    <2> QED  BY <1>2, <2>1, <2>2
             DEF CleanupMountPoint, OrphansTypeOK, LinesOK, Unmounted, MountedKeepsItsRecord
  <1>3. CASE RemoveJson
    <2>1. omFaults' \in 0 .. OmMaxFaults
      BY <1>3, OmFaultsType DEF RemoveJson
    <2> QED  BY <1>3, <2>1
             DEF RemoveJson, OrphansTypeOK, LinesOK, Unmounted, MountedKeepsItsRecord
  <1>4. CASE RemoveVolumePath
    <2>1. omFaults' \in 0 .. OmMaxFaults
      BY <1>4, OmFaultsType DEF RemoveVolumePath
    <2> QED  BY <1>4, <2>1
             DEF RemoveVolumePath, OrphansTypeOK, LinesOK, Unmounted, MountedKeepsItsRecord
  <1>5. CASE NextLink
    <2>1. omFaults' \in 0 .. OmMaxFaults
      BY <1>5, OmFaultsType DEF NextLink
    <2> QED  BY <1>5, <2>1 DEF NextLink, host, OrphansTypeOK, LinesOK, Unmounted, MountedKeepsItsRecord
  <1>6. CASE RemoveLink
    <2>1. omFaults' \in 0 .. OmMaxFaults
      BY <1>6, OmFaultsType DEF RemoveLink
    <2> QED  BY <1>6, <2>1
             DEF RemoveLink, OrphansTypeOK, LinesOK, Unmounted, MountedKeepsItsRecord
  <1> QED  BY <1>1, <1>2, <1>3, <1>4, <1>5, <1>6

LEMMA OmStep == OrphansInv /\ [OrphansNext]_omVars => OrphansInv'
  <1> SUFFICES ASSUME OrphansInv, [OrphansNext]_omVars PROVE OrphansInv'
    OBVIOUS
  <1>1. CASE UNCHANGED omVars
    BY <1>1 DEF omVars, host, omLocals, OrphansInv, OrphansTypeOK, LinesOK, Unmounted,
                MountedKeepsItsRecord
  <1>2. ASSUME NEW f \in Links, PodProceeds(f) PROVE OrphansInv'
    BY <1>2 DEF PodProceeds, omLocals, OrphansInv, OrphansTypeOK, LinesOK, Unmounted,
                MountedKeepsItsRecord
  <1> QED  BY <1>1, <1>2, OmLines, OmItems DEF OrphansNext, StorageOM

LEMMA OmAlways == OrphansSpec => []OrphansInv
  BY OmInit, OmStep, PTL DEF OrphansSpec
-----------------------------------------------------------------------------
(* The theorems. *)

\* The records, the calls that write them and the scrape that reads them keep to
\* their types.  (WriteMetricsInfo; Update of the fuse collector.)
THEOREM FuseTypeCorrect == FuseStatSpec => []FuseStatTypeOK
  <1>1. FuseInv => FuseStatTypeOK
    BY DEF FuseInv
  <1> QED  BY <1>1, FuseAlways, PTL

\* However many calls publish volumes of one pod at once, and whatever fails or
\* is killed: a record that is not whole is one that no call is done with, or one
\* of its own writers is at it or was stopped.  (WriteMetricsInfo, WriteAndSyncFile.)
THEOREM OnlyOwnWritersTear == FuseStatSpec => []RecordsAreWhole
  <1>1. FuseInv => RecordsAreWhole
    BY DEF FuseInv
  <1> QED  BY <1>1, FuseAlways, PTL

LEMMA DescsAreDistinct == NamesAreDistinct
  <1> DEFINE kinds == <<FrontDescs, CallDescs, BackendDescs, HotSpotDescs>>
             names(k, f) == {kinds[k][f][i] : i \in DOMAIN kinds[k][f]}
  <1>1. \A k \in 1 .. 4 : kinds[k] \in FileKinds
    BY DEF FileKinds
  <1>2. \A k, l \in 1 .. 4 : \A f \in DOMAIN kinds[k], g \in DOMAIN kinds[l] :
           f # g => names(k, f) \cap names(l, g) = {}
    <2> SUFFICES ASSUME NEW k \in 1 .. 4, NEW l \in 1 .. 4, NEW f \in DOMAIN kinds[k],
                        NEW g \in DOMAIN kinds[l], names(k, f) \cap names(l, g) # {}
                 PROVE  f = g
      OBVIOUS
    <2>1. MetricsIn(kinds[k], f) = names(k, f) /\ MetricsIn(kinds[l], g) = names(l, g)
      BY DEF MetricsIn
    <2> HIDE DEF kinds, names
    <2> QED  BY <1>1, <2>1, MetricHasOneFile
  <1> QED  BY <1>2 DEF NamesAreDistinct

\* For any number of records, torn or missing ones among them: no sample has the
\* labels of another volume or pod, though all share one fsClientInfo, and no two
\* samples of a scrape have a name and the labels in common.  (Update.)
THEOREM SamplesAreUnambiguous == FuseStatSpec => []SamplesAreExact
  <1>1. FuseInv => SamplesAreExact
    <2> SUFFICES ASSUME FuseInv, NEW s \in posted, NEW t \in posted, s.volume = t.volume,
                        s.file = t.file
                 PROVE  s = t
      BY DescsAreDistinct DEF SamplesAreExact, FuseInv
    <2>1. s.of = t.of /\ s.pod = t.pod /\ s.mountPoint = t.mountPoint
      BY DEF FuseInv, SamplesAreLabelled
    <2> QED  BY <2>1 DEF FuseInv, SamplesAreFiles
  <1> QED  BY <1>1, FuseAlways, PTL

\* The NFS collector and the volumes keep to their types, and what is published
\* of a volume has a figure for each of the nineteen names, whatever moved or
\* failed meanwhile.  (nfsStatCollector.Update, setNfsMetric.)
THEOREM NfsTypeCorrect == NfsStatSpec => [](NfsStatTypeOK /\ AllNamesHaveFigures)
  <1>1. NfsInv => NfsStatTypeOK
    BY DEF NfsInv
  <1>2. NfsStatInit => AllNamesHaveFigures
    BY DEF NfsStatInit, AllNamesHaveFigures
  <1> QED  BY <1>1, <1>2, NfsAlways, NamesStep, PTL DEF NfsStatSpec

\* For any volumes and pods, moves and failures: a scrape that neither met publishes
\* every mounted volume with its claim's labels, the sixteen figures of the kernel
\* under their own names, and the capacity too when one pod alone has the volume.
\* (Update, updateMap, getNfsStat.)
THEOREM CleanScrapesAreExact == NfsStatSpec => []NfsScrapeIsExact
  <1>1. NfsInv => NfsScrapeIsExact
    BY DEF NfsInv, CleanScrape, NfsScrapeIsExact
  <1> QED  BY <1>1, NfsAlways, PTL

\* The daemon, its listeners and its watchdogs keep to their types; a count never
\* passes DeadChecks as it is capped there.  (main, watchDogCheck.)
THEOREM ConnectorTypeCorrect == ConnectorSpec => []ConnectorTypeOK
  <1>1. ConnectorInv => ConnectorTypeOK
    BY DEF ConnectorInv
  <1> QED  BY <1>1, ConnAlways, PTL

\* For any sockets and number of checks, with two watchdogs in one process,
\* crashes and restarts: the daemon ends itself only after one of the watchdogs has
\* found each socket dead DeadChecks times in a row.  (watchDogCheck.)
THEOREM WatchdogsAreRight == ConnectorSpec => ExitsOnlyWhenDead
  <1>1. ConnectorInv /\ [ConnectorNext]_connectorVars =>
            [daemon = "running" /\ daemon' = "exited" =>
               \E l \in Listeners : \A p \in PluginSockets :
                  missed[l][p] = DeadChecks]_connectorVars
    BY ConnStep
  <1> QED  BY <1>1, ConnAlways, PTL DEF ConnectorSpec, ExitsOnlyWhenDead

\* The operation manager and the directories it works on keep to their types.
\* (pkg/om.)
THEOREM OrphansTypeCorrect == OrphansSpec => []OrphansTypeOK
  <1>1. OrphansInv => OrphansTypeOK
    BY DEF OrphansInv
  <1> QED  BY <1>1, OmAlways, PTL

\* For any pods and volumes and any number of failures at any step: what is still
\* mounted keeps its record, and no pod with a volume left is taken for done.
\* (FixOrphanedPodIssue.)
THEOREM RecordsOutliveMounts == OrphansSpec => []MountedKeepsItsRecord
  <1>1. OrphansInv => MountedKeepsItsRecord
    BY DEF OrphansInv
  <1> QED  BY <1>1, OmAlways, PTL
=============================================================================
