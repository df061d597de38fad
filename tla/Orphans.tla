-------------------------------- MODULE Orphans --------------------------------
(***************************************************************************)
(* pkg/om: StorageOM reads the tail of the kubelet's log every ten seconds *)
(* and repairs what two kinds of lines complain of: volumes of pods that   *)
(* are gone (orphaned.go), and links to block volumes that nothing uses    *)
(* any more (blockvolume.go).  Both switches are on; with                  *)
(* ISSUE_BLOCK_REFERENCE off the loop reads nothing, whatever              *)
(* ISSUE_ORPHANED_POD says.  A volume is known by its pod and a number.    *)
(***************************************************************************)
EXTENDS Integers

CONSTANTS OrphanPods,     \* pods that are gone, in the order of their directories
          VolumeNumbers,  \* a pod's CSI volumes
          Links,          \* links to block volumes
          OmMaxFaults     \* bound: system calls that fail

ASSUME OrphanAssumption ==
    OrphanPods \subseteq Nat \ {0} /\ VolumeNumbers \subseteq Nat /\ OmMaxFaults \in Nat

OrphanVolumes == OrphanPods \X VolumeNumbers

VARIABLES
  volumeDirs, \* the volumes whose directory is there
  mountDirs,  \* those with a directory mount in it
  mountedOn,  \* those still mounted on it
  jsonFiles,  \* those with vol_data.json
  links,      \* the links that are there
  linkPod,    \* linkPod[f]: the pod of link f is "unborn", "mapped", "running" or "gone"
  FixedPodList,
  om,         \* the step of the loop
  omTail,     \* the lines left: <<"orphan", pod>> or <<"links", links>>
  omLeft,     \* the volumes, or the links, left of the line it is at
  omAt,       \* the volume or the link it is at
  omFaults    \* still to come
host    == <<volumeDirs, mountDirs, mountedOn, jsonFiles, links, linkPod>>
omLocals == <<om, omTail, omLeft, omAt>>
omVars  == <<host, FixedPodList, omLocals, omFaults>>

NoItem == <<>>
OmFault == omFaults > 0 /\ omFaults' = omFaults - 1
NoOmFault == UNCHANGED omFaults

-----------------------------------------------------------------------------
(* CheckMessageFileIssue. *)

\* The kubelet complains of the first orphaned pod only ("There were a total of
\* 1 errors similar to this", orphaned.go:22), and lines stay for a while.
Orphaned == {p \in OrphanPods : \E v \in volumeDirs : v[1] = p}
FirstOrphan == {p \in Orphaned : \A q \in Orphaned : p <= q}

\* ReadFileLinesFromHost: no lines when tail fails.
ReadFileLines ==
    /\ om = "sleep"
    /\ \/ /\ NoOmFault
          /\ \E old \in SUBSET (OrphanPods \ Orphaned) :
                omTail' = {<<"orphan", p>> : p \in FirstOrphan \cup old}
                          \cup (IF links = {} THEN {} ELSE {<<"links", links>>})
          /\ om' = "loop"
       \/ OmFault /\ UNCHANGED <<om, omTail>>
    /\ UNCHANGED <<host, FixedPodList, omLeft, omAt>>

\* FixOrphanedPodIssue begins: a pod in FixedPodList is passed over, one without
\* volumes is entered there.  ReadDir fails when the kubelet has removed the
\* directory of the volumes, or as any system call may; the line is given up.
OrphanLine ==
    /\ om = "loop"
    /\ \E p \in OrphanPods :
          /\ <<"orphan", p>> \in omTail
          /\ omTail' = omTail \ {<<"orphan", p>>}
          /\ \/ /\ NoOmFault
                /\ omLeft' = IF p \in FixedPodList THEN {} ELSE {v \in volumeDirs : v[1] = p}
                /\ FixedPodList' = IF omLeft' = {} THEN FixedPodList \cup {p} ELSE FixedPodList
             \/ /\ p \notin FixedPodList
                /\ IF p \in Orphaned THEN OmFault ELSE NoOmFault
                /\ omLeft' = {} /\ UNCHANGED FixedPodList
    /\ om' = "volume"
    /\ UNCHANGED <<host, omAt>>

\* FixReferenceMountIssue begins: parseReferenceMount takes the links from the
\* line, and isFileBlockLink those it expects.
LinkLine ==
    /\ om = "loop"
    /\ \E l \in omTail :
          /\ l[1] = "links"
          /\ omTail' = omTail \ {l}
          /\ omLeft' = l[2]
    /\ om' = "link"
    /\ UNCHANGED <<host, FixedPodList, omAt, omFaults>>

\* A line is done, or all are and ten seconds begin.
EndLine ==
    /\ \/ om \in {"volume", "link"} /\ omLeft = {} /\ om' = "loop"
       \/ om = "loop" /\ omTail = {} /\ om' = "sleep"
    /\ omAt' = NoItem
    /\ UNCHANGED <<host, FixedPodList, omTail, omLeft, omFaults>>

-----------------------------------------------------------------------------
(* FixOrphanedPodIssue: the steps for one volume. *)

NextVolume ==
    /\ om = "volume"
    /\ \E v \in omLeft : omAt' = v /\ omLeft' = omLeft \ {v}
    /\ om' = "unmount"
    /\ UNCHANGED <<host, FixedPodList, omTail, omFaults>>

\* Bug: a volume that could not be unmounted is cleaned all the same.
Bug_CleanupFailureIsIgnored ==
    /\ om = "unmount"
    /\ \/ /\ NoOmFault
          /\ mountedOn' = mountedOn \ {omAt}
          /\ mountDirs' = mountDirs \ {omAt}
       \/ OmFault /\ UNCHANGED <<mountedOn, mountDirs>>
    /\ om' = "json"
    /\ UNCHANGED <<volumeDirs, jsonFiles, links, linkPod, FixedPodList, omTail, omLeft, omAt>>

\* CleanupMountPoint unmounts and removes the directory; when it fails, which
\* may be between the two, the volume is passed over.
CleanupMountPoint ==
    /\ om = "unmount"
    /\ \/ /\ NoOmFault
          /\ mountedOn' = mountedOn \ {omAt}
          /\ mountDirs' = mountDirs \ {omAt}
          /\ om' = "json"
       \/ /\ omAt \in mountDirs
          /\ OmFault
          /\ mountedOn' \in {mountedOn, mountedOn \ {omAt}}
          /\ om' = "volume"
          /\ UNCHANGED mountDirs
    /\ UNCHANGED <<volumeDirs, jsonFiles, links, linkPod, FixedPodList, omTail, omLeft, omAt>>

RemoveJson ==
    /\ om = "json"
    /\ \/ NoOmFault /\ jsonFiles' = jsonFiles \ {omAt}
       \/ omAt \in jsonFiles /\ OmFault /\ UNCHANGED jsonFiles
    /\ om' = "rmdir"
    /\ UNCHANGED <<volumeDirs, mountDirs, mountedOn, links, linkPod, FixedPodList, omTail, omLeft, omAt>>

\* os.Remove of a directory that IsDirEmpty found empty.
RemoveVolumePath ==
    /\ om = "rmdir"
    /\ \/ /\ NoOmFault
          /\ volumeDirs' = IF omAt \in mountDirs \cup jsonFiles THEN volumeDirs
                           ELSE volumeDirs \ {omAt}
       \/ OmFault /\ UNCHANGED volumeDirs
    /\ om' = "volume"
    /\ UNCHANGED <<mountDirs, mountedOn, jsonFiles, links, linkPod, FixedPodList, omTail, omLeft, omAt>>

-----------------------------------------------------------------------------
(* FixReferenceMountIssue: the steps for one link. *)

\* Bug: the answer of grep is taken the wrong way round.
Bug_GrepIsInverted ==
    /\ om = "link"
    /\ \E f \in omLeft : omAt' = f /\ omLeft' = omLeft \ {f}
    /\ NoOmFault
    /\ om' = IF omAt' \in links /\ linkPod[omAt'] = "running" THEN "unlink" ELSE "link"
    /\ UNCHANGED <<host, FixedPodList, omTail>>

\* isFileRemovable: a link is kept when /proc/mounts has its name; when grep
\* cannot be run it is not.
NextLink ==
    /\ om = "link"
    /\ \E f \in omLeft : omAt' = f /\ omLeft' = omLeft \ {f}
    /\ \/ NoOmFault /\ om' = IF omAt' \in links /\ linkPod[omAt'] # "running" THEN "unlink" ELSE "link"
       \/ omAt' \in links /\ OmFault /\ om' = "unlink"
    /\ UNCHANGED <<host, FixedPodList, omTail>>

RemoveLink ==
    /\ om = "unlink"
    /\ \/ NoOmFault /\ links' = links \ {omAt}
       \/ OmFault /\ UNCHANGED links
    /\ om' = "link"
    /\ UNCHANGED <<volumeDirs, mountDirs, mountedOn, jsonFiles, linkPod, FixedPodList, omTail, omLeft, omAt>>

StorageOM ==
    \/ ReadFileLines \/ EndLine
    \/ OrphanLine \/ NextVolume \/ CleanupMountPoint \/ RemoveJson \/ RemoveVolumePath
    \/ LinkLine \/ NextLink \/ RemoveLink

-----------------------------------------------------------------------------
(* The kubelet and the pods with block volumes. *)

\* A pod's link is made before its first mount is in /proc/mounts, or after.
PodProceeds(f) ==
    /\ \/ linkPod[f] = "unborn" /\ linkPod' = [linkPod EXCEPT ![f] = "mapped"]
          /\ links' = links \cup {f}
       \/ linkPod[f] = "mapped" /\ linkPod' = [linkPod EXCEPT ![f] = "running"] /\ UNCHANGED links
       \/ linkPod[f] = "running" /\ linkPod' = [linkPod EXCEPT ![f] = "gone"] /\ UNCHANGED links
    /\ UNCHANGED <<volumeDirs, mountDirs, mountedOn, jsonFiles, FixedPodList, omLocals, omFaults>>

OrphansInit ==
    /\ volumeDirs \in SUBSET OrphanVolumes
    /\ mountDirs \in SUBSET volumeDirs
    /\ mountedOn \in SUBSET mountDirs
    /\ jsonFiles = volumeDirs
    /\ links = {}
    /\ linkPod = [f \in Links |-> "unborn"]
    /\ FixedPodList = {}
    /\ om = "sleep" /\ omTail = {} /\ omLeft = {} /\ omAt = NoItem
    /\ omFaults = OmMaxFaults

OrphansNext == StorageOM \/ \E f \in Links : PodProceeds(f)

OrphansSpec == OrphansInit /\ [][OrphansNext]_omVars

-----------------------------------------------------------------------------
(* Properties. *)

OrphansTypeOK ==
    /\ volumeDirs \subseteq OrphanVolumes /\ mountDirs \subseteq OrphanVolumes
    /\ mountedOn \subseteq OrphanVolumes /\ jsonFiles \subseteq OrphanVolumes
    /\ links \subseteq Links
    /\ linkPod \in [Links -> {"unborn", "mapped", "running", "gone"}]
    /\ FixedPodList \subseteq OrphanPods
    /\ om \in {"sleep", "loop", "volume", "unmount", "json", "rmdir", "link", "unlink"}
    /\ \A l \in omTail : l[1] \in {"orphan", "links"}
    /\ omLeft \subseteq OrphanVolumes \cup Links
    /\ omAt \in OrphanVolumes \cup Links \cup {NoItem}
    /\ omFaults \in 0 .. OmMaxFaults

\* A volume that is still mounted keeps its vol_data.json, without which nobody
\* knows what is mounted there, and its directory; and a pod is in FixedPodList,
\* and never looked at again, only when nothing of it is left.
\* (FixOrphanedPodIssue, whatever fails in it and how often it is repeated.)
MountedKeepsItsRecord ==
    /\ mountedOn \subseteq jsonFiles \cap volumeDirs
    /\ \A v \in volumeDirs : v[1] \notin FixedPodList

\* Failures that end are made up for: all orphaned volumes come to be gone for
\* good, one pod after the other, and so do the links of pods that are gone.
OmRepairs ==
    /\ <>[](volumeDirs = {})
    /\ \A f \in Links : [](linkPod[f] = "gone" => <>(f \notin links))
=============================================================================
