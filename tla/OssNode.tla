-------------------------------- MODULE OssNode --------------------------------
(***************************************************************************)
(* NodePublishVolume and NodeUnpublishVolume of pkg/oss/nodeserver.go on   *)
(* one node, with the kubelet that calls them, the connector that mounts   *)
(* on the host for them, and the host's mount table.                       *)
(*                                                                         *)
(* The node server keeps no state and takes no lock per target or volume:  *)
(* every decision reads the mount table, and other calls may change it     *)
(* before the decision is carried out.  A call is a worker that moves from *)
(* one read or effect to the next; a mount is a job the connector runs on  *)
(* the host, which goes on when the call that sent it is gone.             *)
(*                                                                         *)
(* Volumes are mounted with ossfs.  A volume with useSharedPath is mounted *)
(* once per node on its global path and bound to each target from there;   *)
(* the others get an ossfs of their own on each target.                    *)
(***************************************************************************)
EXTENDS Integers, Sequences, FiniteSets

CONSTANTS Targets,       \* target paths; each belongs to a pod of its own,
                         \* used once
          Volumes,
          VolumeOf,      \* VolumeOf[t]: the volume of target t
          Shared,        \* the volumes with useSharedPath
          Workers,       \* bound: calls the plugin serves at once
          None,          \* no target, no path
          LastCode,      \* the number whose rune IsLastSharedVol's caller
                         \* compares with: "1" is the rune of 49
          Faults,        \* the kinds of fault that may happen: FaultKinds
          MaxFaults      \* bound: how many faults a behaviour has

FaultKinds ==
    {"timeout",     \* the kubelet gives up on a call, the call goes on
     "restart",     \* the plugin restarts, its calls vanish
     "nsenter",     \* `nsenter ... mount` fails, the mount table is not read
     "credential",  \* saveOssCredential returns an error
     "createDest",  \* CreateDest returns an error
     "metrics",     \* WriteMetricsInfo cannot make a directory or open a
                    \* record (it ignores that)
     "write",       \* the write of a record fails or is short (ignored too)
     "reply",       \* the connection breaks, the mount job goes on
     "mount",       \* the mount command fails on the host
     "bind",        \* the bind mount fails
     "umount",      \* umount fails
     "remount",     \* the kubelet restarts and publishes again
     "globalDir"}   \* the kubelet creates the old global mount directory

\* The two candidates of GetGlobalMountPath.
GlobalPaths == Volumes \X {"ver1", "ver2"}

Paths == Targets \cup GlobalPaths

ASSUME VolumeAssumption == VolumeOf \in [Targets -> Volumes] /\ Shared \subseteq Volumes
ASSUME PathAssumption == Targets \cap GlobalPaths = {} /\ None \notin Paths
ASSUME WorkersAssumption == IsFiniteSet(Workers)
ASSUME CodeAssumption == LastCode \in Nat
ASSUME FaultAssumption == Faults \subseteq FaultKinds /\ MaxFaults \in Nat

VARIABLES pod,        \* pod[t]: is the pod of t still to come, bound, deleted
          view,       \* view[t]: what the kubelet knows of the mount of t
          globalDir,  \* globalDir[v]: does the ver1 directory of v exist
          mounts,     \* mounts[p]: what is mounted on p, the top last
          metrics,    \* metrics[t][f]: record f of the pod and mount of t
          pc,         \* pc[w]: where the call of worker w stands
          target,     \* target[w]: the target of its call
          waiting,    \* waiting[w]: the kubelet still waits for the answer
          path,       \* path[w]: the mount point it chose
          umount,     \* umount[w]: the umount command it chose
          job,        \* job[w]: the mount command it sent to the connector
          orphans,    \* orphans[p]: mount commands whose sender is gone
          budget      \* faults still to come

kubelet == <<pod, view, globalDir>>
host    == <<mounts, metrics, orphans>>
calls   == <<target, waiting, path, umount>>
vars    == <<kubelet, host, pc, calls, job, budget>>

\* WriteMetricsInfo looks for each record, and opens and writes it.
RecordFiles == {"podInfo", "mountPointInfo"}
LookStep    == [podInfo |-> "podLook", mountPointInfo |-> "mountLook"]
OpenStep    == [podInfo |-> "podOpen", mountPointInfo |-> "mountOpen"]
WriteStep   == [podInfo |-> "podWrite", mountPointInfo |-> "mountWrite"]
AfterRecord == [podInfo |-> "mountLook", mountPointInfo |-> "pubSend"]

PublishSteps == {"pubCheck", "pubSave", "pubShared", "pubCreate", "podLook",
                 "podOpen", "podWrite", "mountLook", "mountOpen", "mountWrite",
                 "pubSend", "pubWait", "pubBind"}
UnpublishSteps == {"unpCheck", "unpShared", "unpCount", "unpRun"}

Records == [Targets -> [RecordFiles -> {"absent", "empty", "torn", "full"}]]

TypeOK ==
    /\ pod \in [Targets -> {"none", "bound", "deleted"}]
    /\ view \in [Targets -> {"never", "unsure", "in", "out"}]
    /\ globalDir \in [Volumes -> BOOLEAN]
    /\ mounts \in [Paths -> Seq({"ossfs", "bare"})]
    /\ metrics \in Records
    /\ pc \in [Workers -> {"idle"} \cup PublishSteps \cup UnpublishSteps]
    /\ target \in [Workers -> Targets \cup {None}]
    /\ waiting \in [Workers -> BOOLEAN]
    /\ path \in [Workers -> Paths \cup {None}]
    /\ umount \in [Workers -> {"plain", "force", "both"}]
    /\ job \in [Workers -> {"none", "sent", "ok", "error"}]
    /\ orphans \in [Paths -> Nat]
    /\ budget \in Nat

-----------------------------------------------------------------------------
(* Helpers. *)

\* A fault of this kind happens here.
Fault(kind) ==
    /\ kind \in Faults
    /\ budget > 0
    /\ budget' = budget - 1

NoFault == UNCHANGED budget

GoTo(w, to) == pc' = [pc EXCEPT ![w] = to]

OnTop(p, layer) == mounts' = [mounts EXCEPT ![p] = Append(@, layer)]

TakeOff(p) == mounts' = [mounts EXCEPT ![p] = SubSeq(@, 1, Len(@) - 1)]

\* The mount table has a line with path p and filesystem type fuse.ossfs.
Listed(p) == \E i \in DOMAIN mounts[p] : mounts[p][i] = "ossfs"

\* IsOssfsMounted: a mount table that could not be read counts as "no".
IsOssfsMounted(p, answer) ==
    \/ answer = Listed(p) /\ NoFault
    \/ answer = FALSE /\ Fault("nsenter")

\* GetGlobalMountPath: the old directory if it exists, else the new one.
GetGlobalMountPath(v) == <<v, IF globalDir[v] THEN "ver1" ELSE "ver2">>

\* The answer goes to the kubelet if it still waits; locals are forgotten.
Return(w, newView) ==
    /\ pc' = [pc EXCEPT ![w] = "idle"]
    /\ target' = [target EXCEPT ![w] = None]
    /\ waiting' = [waiting EXCEPT ![w] = FALSE]
    /\ path' = [path EXCEPT ![w] = None]
    /\ umount' = [umount EXCEPT ![w] = "plain"]
    /\ view' = IF waiting[w] THEN [view EXCEPT ![target[w]] = newView] ELSE view
    /\ UNCHANGED <<pod, globalDir>>

ReturnError(w) == Return(w, "unsure")

-----------------------------------------------------------------------------
(* NodePublishVolume. *)

Bug_PubCheckAlways(w) ==
    /\ pc[w] = "pubCheck"
    /\ NoFault
    /\ GoTo(w, "pubSave")
    /\ UNCHANGED <<kubelet, calls, host, job>>

Bug_PubCheckRefusesMounted(w) ==
    /\ pc[w] = "pubCheck"
    /\ \/ IsOssfsMounted(target[w], TRUE) /\ ReturnError(w)
       \/ IsOssfsMounted(target[w], FALSE) /\ GoTo(w, "pubSave") /\ UNCHANGED <<kubelet, calls>>
    /\ UNCHANGED <<host, job>>

\* An ossfs mounted on the target already: done.
PubCheck(w) ==
    /\ pc[w] = "pubCheck"
    /\ \/ IsOssfsMounted(target[w], TRUE) /\ Return(w, "in")
       \/ IsOssfsMounted(target[w], FALSE) /\ GoTo(w, "pubSave") /\ UNCHANGED <<kubelet, calls>>
    /\ UNCHANGED <<host, job>>

\* saveOssCredential (see Credential), then the branch on UseSharedPath.
PubSave(w) ==
    /\ pc[w] = "pubSave"
    /\ \/ /\ NoFault
          /\ IF VolumeOf[target[w]] \in Shared
               THEN GoTo(w, "pubShared") /\ UNCHANGED path
               ELSE GoTo(w, "pubCreate") /\ path' = [path EXCEPT ![w] = target[w]]
          /\ UNCHANGED <<kubelet, target, waiting, umount>>
       \/ Fault("credential") /\ ReturnError(w)
    /\ UNCHANGED <<host, job>>

Bug_PubSharedTrustsNothing(w) ==
    /\ pc[w] = "pubShared"
    /\ path' = [path EXCEPT ![w] = GetGlobalMountPath(VolumeOf[target[w]])]
    /\ NoFault /\ GoTo(w, "pubCreate")
    /\ UNCHANGED <<kubelet, target, waiting, umount, host, job>>

\* The volume is mounted on its global path, by this call if not before.
PubShared(w) ==
    LET global == GetGlobalMountPath(VolumeOf[target[w]]) IN
    /\ pc[w] = "pubShared"
    /\ path' = [path EXCEPT ![w] = global]
    /\ \/ IsOssfsMounted(global, TRUE) /\ GoTo(w, "pubBind")
       \/ IsOssfsMounted(global, FALSE) /\ GoTo(w, "pubCreate")
    /\ UNCHANGED <<kubelet, target, waiting, umount, host, job>>

\* CreateDest; on a target then the directory of WriteMetricsInfo, without
\* which it can write no record.
PubCreate(w) ==
    /\ pc[w] = "pubCreate"
    /\ \/ /\ NoFault
          /\ GoTo(w, IF path[w] = target[w] THEN "podLook" ELSE "pubSend")
          /\ UNCHANGED <<kubelet, calls>>
       \/ /\ path[w] = target[w]
          /\ Fault("metrics")
          /\ GoTo(w, "pubSend")
          /\ UNCHANGED <<kubelet, calls>>
       \/ Fault("createDest") /\ ReturnError(w)
    /\ UNCHANGED <<host, job>>

Bug_LookAtPodInfo(w, f) ==
    /\ pc[w] = LookStep[f]
    /\ NoFault
    /\ GoTo(w, IF metrics[target[w]]["podInfo"] = "absent" THEN OpenStep[f] ELSE AfterRecord[f])
    /\ UNCHANGED <<kubelet, calls, host, job>>

\* A record that exists is not written again, whatever it holds.
LookForRecord(w, f) ==
    /\ pc[w] = LookStep[f]
    /\ NoFault
    /\ GoTo(w, IF metrics[target[w]][f] = "absent" THEN OpenStep[f] ELSE AfterRecord[f])
    /\ UNCHANGED <<kubelet, calls, host, job>>

\* The open makes the record, or empties one another call has made since.
OpenRecord(w, f) ==
    /\ pc[w] = OpenStep[f]
    /\ \/ /\ NoFault
          /\ metrics' = [metrics EXCEPT ![target[w]][f] = "empty"]
          /\ GoTo(w, WriteStep[f])
       \/ /\ Fault("metrics")
          /\ GoTo(w, AfterRecord[f])
          /\ UNCHANGED metrics
    /\ UNCHANGED <<kubelet, calls, mounts, orphans, job>>

\* A write that fails leaves an empty record without its line, or part of it;
\* over the same line of another call it changes nothing.
WriteRecord(w, f) ==
    /\ pc[w] = WriteStep[f]
    /\ \/ /\ NoFault
          /\ metrics' = [metrics EXCEPT ![target[w]][f] = "full"]
       \/ /\ Fault("write")
          /\ metrics' = [metrics EXCEPT ![target[w]][f] = IF @ = "empty" THEN "torn" ELSE @]
    /\ GoTo(w, AfterRecord[f])
    /\ UNCHANGED <<kubelet, calls, mounts, orphans, job>>

WriteMetricsInfo(w) ==
    \E f \in RecordFiles : LookForRecord(w, f) \/ OpenRecord(w, f) \/ WriteRecord(w, f)

\* ConnectorRun dials the connector and writes the mount command.
PubSend(w) ==
    /\ pc[w] = "pubSend"
    /\ \/ /\ NoFault
          /\ GoTo(w, "pubWait")
          /\ job' = [job EXCEPT ![w] = "sent"]
          /\ UNCHANGED <<kubelet, calls>>
       \/ Fault("mount") /\ ReturnError(w) /\ UNCHANGED job
    /\ UNCHANGED host

Bug_PubAnswerIgnoresError(w) ==
    /\ pc[w] = "pubWait"
    /\ job[w] \in {"ok", "error"}
    /\ NoFault
    /\ IF path[w] = target[w]
         THEN Return(w, "in")
         ELSE GoTo(w, "pubBind") /\ UNCHANGED <<kubelet, calls>>
    /\ job' = [job EXCEPT ![w] = "none"]
    /\ UNCHANGED host

\* ConnectorRun reads the answer: only one that begins with Success counts.
PubAnswer(w) ==
    /\ pc[w] = "pubWait"
    /\ NoFault
    /\ \/ job[w] = "ok" /\ path[w] = target[w] /\ Return(w, "in")
       \/ job[w] = "ok" /\ path[w] # target[w] /\ GoTo(w, "pubBind") /\ UNCHANGED <<kubelet, calls>>
       \/ job[w] = "error" /\ ReturnError(w)
    /\ job' = [job EXCEPT ![w] = "none"]
    /\ UNCHANGED host

\* The connection breaks first; a command that was not answered goes on.
PubAnswerLost(w) ==
    /\ pc[w] = "pubWait"
    /\ Fault("reply")
    /\ ReturnError(w)
    /\ orphans' = IF job[w] = "sent" THEN [orphans EXCEPT ![path[w]] = @ + 1] ELSE orphans
    /\ job' = [job EXCEPT ![w] = "none"]
    /\ UNCHANGED <<mounts, metrics>>

\* The bind mount shows what is on top of the global path now: the ossfs, or
\* the bare directory.  It fails where the kubelet has not made the target's
\* directory: this branch calls no CreateDest for it.
PubBind(w) ==
    /\ pc[w] = "pubBind"
    /\ \/ /\ NoFault
          /\ OnTop(target[w], IF Listed(path[w]) THEN "ossfs" ELSE "bare")
          /\ Return(w, "in")
       \/ Fault("bind") /\ ReturnError(w) /\ UNCHANGED mounts
    /\ UNCHANGED <<metrics, orphans, job>>

-----------------------------------------------------------------------------
(* The connector on the host. *)

\* It runs the command of w, which mounts an ossfs on the path.
JobMount(w) ==
    /\ job[w] = "sent"
    /\ OnTop(path[w], "ossfs")
    /\ job' = [job EXCEPT ![w] = "ok"]
    /\ NoFault
    /\ UNCHANGED <<kubelet, metrics, orphans, pc, calls>>

\* The command fails; ossfs may also refuse a path that is mounted already.
JobFail(w) ==
    /\ job[w] = "sent"
    /\ (Listed(path[w]) /\ NoFault) \/ Fault("mount")
    /\ job' = [job EXCEPT ![w] = "error"]
    /\ UNCHANGED <<kubelet, host, pc, calls>>

OrphanMount(p) ==
    /\ orphans[p] > 0
    /\ orphans' = [orphans EXCEPT ![p] = @ - 1]
    /\ OnTop(p, "ossfs")
    /\ NoFault
    /\ UNCHANGED <<kubelet, metrics, pc, calls, job>>

OrphanFail(p) ==
    /\ orphans[p] > 0
    /\ orphans' = [orphans EXCEPT ![p] = @ - 1]
    /\ (Listed(p) /\ NoFault) \/ Fault("mount")
    /\ UNCHANGED <<kubelet, mounts, metrics, pc, calls, job>>

-----------------------------------------------------------------------------
(* NodeUnpublishVolume. *)

Bug_UnpCheckRefusesUnmounted(w) ==
    /\ pc[w] = "unpCheck"
    /\ \/ IsOssfsMounted(target[w], FALSE) /\ ReturnError(w)
       \/ IsOssfsMounted(target[w], TRUE) /\ GoTo(w, "unpShared") /\ UNCHANGED <<kubelet, calls>>
    /\ UNCHANGED <<host, job>>

\* Nothing listed on the target: done.
UnpCheck(w) ==
    /\ pc[w] = "unpCheck"
    /\ \/ IsOssfsMounted(target[w], FALSE) /\ Return(w, "out")
       \/ IsOssfsMounted(target[w], TRUE) /\ GoTo(w, "unpShared") /\ UNCHANGED <<kubelet, calls>>
    /\ UNCHANGED <<host, job>>

\* The volume counts as shared when its global path is mounted.
UnpShared(w) ==
    LET global == GetGlobalMountPath(VolumeOf[target[w]]) IN
    /\ pc[w] = "unpShared"
    /\ \/ /\ IsOssfsMounted(global, TRUE)
          /\ GoTo(w, "unpCount")
          /\ path' = [path EXCEPT ![w] = global]
          /\ UNCHANGED umount
       \/ /\ IsOssfsMounted(global, FALSE)
          /\ GoTo(w, "unpRun")
          /\ umount' = [umount EXCEPT ![w] = "force"]
          /\ UNCHANGED path
    /\ UNCHANGED <<kubelet, target, waiting, host, job>>

\* IsLastSharedVol: the lines of the mount table that name a target of v.
TargetLines(v) ==
    Cardinality(UNION { {t} \X {i \in DOMAIN mounts[t] : mounts[t][i] = "ossfs"} :
                        t \in {u \in Targets : VolumeOf[u] = v} })

\* The caller takes the count for "last" when its rune is the digit 1.
UnpCount(w) ==
    /\ pc[w] = "unpCount"
    /\ \/ /\ NoFault
          /\ umount' = [umount EXCEPT ![w] =
                          IF TargetLines(VolumeOf[target[w]]) = LastCode
                          THEN "both" ELSE "plain"]
          /\ GoTo(w, "unpRun")
          /\ UNCHANGED <<kubelet, target, waiting, path>>
       \/ Fault("nsenter") /\ ReturnError(w)
    /\ UNCHANGED <<host, job>>

Bug_UnpRunReleasesShared(w) ==
    /\ pc[w] = "unpRun"
    /\ mounts[target[w]] # <<>>
    /\ NoFault
    /\ mounts' =
         [p \in Paths |->
            IF p = target[w] THEN SubSeq(mounts[p], 1, Len(mounts[p]) - 1)
            ELSE IF p = path[w] /\ TargetLines(VolumeOf[target[w]]) = 1 THEN <<>>
            ELSE mounts[p]]
    /\ Return(w, "out")
    /\ UNCHANGED <<metrics, orphans, job>>

Bug_UnpRunDropsError(w) ==
    /\ pc[w] = "unpRun"
    /\ \/ mounts[target[w]] # <<>> /\ NoFault /\ TakeOff(target[w])
       \/ Fault("umount") /\ UNCHANGED mounts
    /\ Return(w, "out")
    /\ UNCHANGED <<metrics, orphans, job>>

\* ValidateRun refuses the && of "both" before anything runs; otherwise
\* umount takes the top mount off the target, if there is one.
UnpRun(w) ==
    /\ pc[w] = "unpRun"
    /\ \/ /\ umount[w] # "both" /\ mounts[target[w]] # <<>>
          /\ NoFault
          /\ TakeOff(target[w])
          /\ Return(w, "out")
       \/ /\ umount[w] = "both" \/ mounts[target[w]] = <<>>
          /\ NoFault
          /\ UNCHANGED mounts
          /\ ReturnError(w)
       \/ /\ Fault("umount")
          /\ UNCHANGED mounts
          /\ ReturnError(w)
    /\ UNCHANGED <<metrics, orphans, job>>

-----------------------------------------------------------------------------
(* The kubelet, and what happens to the plugin. *)

PodBound(t) ==
    /\ pod[t] = "none"
    /\ pod' = [pod EXCEPT ![t] = "bound"]
    /\ UNCHANGED <<view, globalDir, host, pc, calls, job, budget>>

PodDeleted(t) ==
    /\ pod[t] = "bound"
    /\ pod' = [pod EXCEPT ![t] = "deleted"]
    /\ UNCHANGED <<view, globalDir, host, pc, calls, job, budget>>

\* One call per target at a time, as far as the kubelet knows.
Call(w, t, step) ==
    /\ pc[w] = "idle"
    /\ \A x \in Workers : ~(waiting[x] /\ target[x] = t)
    /\ GoTo(w, step)
    /\ target' = [target EXCEPT ![w] = t]
    /\ waiting' = [waiting EXCEPT ![w] = TRUE]
    /\ view' = [view EXCEPT ![t] = "unsure"]
    /\ UNCHANGED <<pod, globalDir, host, path, umount, job, budget>>

\* The pod needs the volume until the kubelet has seen a success.
CallPublish(w, t) ==
    /\ pod[t] = "bound"
    /\ view[t] \in {"never", "unsure"}
    /\ Call(w, t, "pubCheck")

\* The volume of a deleted pod goes, even if it is not sure to be there.
CallUnpublish(w, t) ==
    /\ pod[t] = "deleted"
    /\ view[t] \in {"unsure", "in"}
    /\ Call(w, t, "unpCheck")

\* The deadline of the call passes; the handler looks at no context.
GiveUp(w) ==
    /\ waiting[w]
    /\ Fault("timeout")
    /\ waiting' = [waiting EXCEPT ![w] = FALSE]
    /\ UNCHANGED <<kubelet, host, pc, target, path, umount, job>>

\* A restarted kubelet is no longer sure of a mount it has had reported.
KubeletForgets(t) ==
    /\ view[t] = "in"
    /\ Fault("remount")
    /\ view' = [view EXCEPT ![t] = "unsure"]
    /\ UNCHANGED <<pod, globalDir, host, pc, calls, job>>

\* The plugin restarts: calls are gone, a record that one of them had emptied
\* stays without its line, unanswered mount commands go on.
Restart ==
    /\ Fault("restart")
    /\ pc' = [w \in Workers |-> "idle"]
    /\ target' = [w \in Workers |-> None]
    /\ waiting' = [w \in Workers |-> FALSE]
    /\ path' = [w \in Workers |-> None]
    /\ umount' = [w \in Workers |-> "plain"]
    /\ job' = [w \in Workers |-> "none"]
    /\ orphans' = [p \in Paths |-> orphans[p] +
                     Cardinality({w \in Workers : job[w] = "sent" /\ path[w] = p})]
    /\ metrics' = [t \in Targets |-> [f \in RecordFiles |->
                     IF metrics[t][f] = "empty" THEN "torn" ELSE metrics[t][f]]]
    /\ UNCHANGED <<kubelet, mounts>>

\* A kubelet of an older version stages the volume in the ver1 directory.
GlobalDirAppears(v) ==
    /\ ~globalDir[v]
    /\ Fault("globalDir")
    /\ globalDir' = [globalDir EXCEPT ![v] = TRUE]
    /\ UNCHANGED <<pod, view, host, pc, calls, job>>

-----------------------------------------------------------------------------
Init ==
    /\ pod = [t \in Targets |-> "none"]
    /\ view = [t \in Targets |-> "never"]
    /\ globalDir = [v \in Volumes |-> FALSE]
    /\ mounts = [p \in Paths |-> <<>>]
    /\ metrics = [t \in Targets |-> [f \in RecordFiles |-> "absent"]]
    /\ pc = [w \in Workers |-> "idle"]
    /\ target = [w \in Workers |-> None]
    /\ waiting = [w \in Workers |-> FALSE]
    /\ path = [w \in Workers |-> None]
    /\ umount = [w \in Workers |-> "plain"]
    /\ job = [w \in Workers |-> "none"]
    /\ orphans = [p \in Paths |-> 0]
    /\ budget = MaxFaults

NodePublishVolume(w) ==
    \/ PubCheck(w) \/ PubSave(w) \/ PubShared(w) \/ PubCreate(w) \/ WriteMetricsInfo(w)
    \/ PubSend(w) \/ PubAnswer(w) \/ PubAnswerLost(w) \/ PubBind(w)

NodeUnpublishVolume(w) ==
    UnpCheck(w) \/ UnpShared(w) \/ UnpCount(w) \/ UnpRun(w)

Connector(w) == JobMount(w) \/ JobFail(w)

KubeletCalls(t) == \E w \in Workers : CallPublish(w, t) \/ CallUnpublish(w, t)

Next ==
    \/ \E w \in Workers : NodePublishVolume(w) \/ NodeUnpublishVolume(w)
                            \/ Connector(w) \/ GiveUp(w)
    \/ \E p \in Paths : OrphanMount(p) \/ OrphanFail(p)
    \/ \E t \in Targets : PodBound(t) \/ PodDeleted(t) \/ KubeletCalls(t)
                            \/ KubeletForgets(t)
    \/ Restart
    \/ \E v \in Volumes : GlobalDirAppears(v)

Spec == Init /\ [][Next]_vars

\* Calls and mount commands run to their end, and the kubelet retries.  No
\* fault is fair, and there are MaxFaults of them.
Fairness ==
    /\ \A w \in Workers :
         WF_vars(NodePublishVolume(w) \/ NodeUnpublishVolume(w)) /\ WF_vars(Connector(w))
    /\ \A p \in Paths : WF_vars(OrphanMount(p) \/ OrphanFail(p))
    /\ \A t \in Targets : WF_vars(KubeletCalls(t))

FairSpec == Spec /\ Fairness

-----------------------------------------------------------------------------
(* Properties. *)

\* No pod is ever bound to the bare directory behind a global path: what is
\* bound is an ossfs, although nothing keeps the global mount in place between
\* the look at it and the bind (NodePublishVolume, the shared branch).
NoBareBind ==
    \A p \in Paths : \A i \in DOMAIN mounts[p] : mounts[p][i] = "ossfs"

\* A pod whose volume was published has an ossfs on its target for as long as
\* it lives, whatever calls for it or for its volume are retried, abandoned or
\* under way.
PublishedIsMounted ==
    \A t \in Targets :
        pod[t] = "bound" /\ view[t] = "in" => mounts[t] # <<>>

\* With no answer lost and every mount table read: a target the kubelet has
\* been told is unpublished has no mount and will get none.
UnpublishedStaysClean ==
    \A t \in Targets : view[t] = "out" =>
        mounts[t] = <<>> /\ \A w \in Workers : target[w] # t

\* With no answer lost and every mount table read: retries never put a second
\* mount on a target, one that a single umount would leave there.
OneMountPerTarget == \A t \in Targets : Len(mounts[t]) <= 1

\* With no answer lost and every mount table read: concurrent calls for the
\* targets of a shared volume may each start an ossfs on its global path, but
\* never more of them than were under way together.
GlobalMountsBounded ==
    \A g \in GlobalPaths : Len(mounts[g]) <= Cardinality(Workers)

\* A call is about to write record f of target t, which it has emptied.
Writing(w, t, f) == pc[w] = WriteStep[f] /\ target[w] = t

\* The record has its line, or a call is about to write it, or a fault (the
\* restart of the plugin, a failed write) has left it without, for ever.
Recorded(t, f) ==
    \/ metrics[t][f] = "full"
    \/ metrics[t][f] = "empty" /\ \E w \in Workers : Writing(w, t, f)
    \/ metrics[t][f] = "torn" /\ budget < MaxFaults

\* Where the records can be made, both of a target exist before its ossfs does
\* and lose their lines to no retry, overlapping call or lost answer: only a
\* call that empties one again, a restart before it is written or a failed
\* write leaves the collector a mount without its records (WriteMetricsInfo
\* and DoMountInHost of NodePublishVolume).
MetricsBeforeMount ==
    \A t \in Targets : VolumeOf[t] \notin Shared /\ mounts[t] # <<>> =>
        \A f \in RecordFiles : Recorded(t, f)

\* Every answer reaches the kubelet and every mount table is read.
Reported == Faults \cap {"timeout", "restart", "nsenter", "reply"} = {}

Mounted == {t \in Targets : mounts[t] # <<>>}

\* The node server, by whatever of it was abandoned, lost or retried, mounts on
\* targets it was asked for alone, takes nothing from a pod that is not deleted,
\* and answers success for what is so; when nothing goes unreported, for both calls.
Service == INSTANCE VolumeService WITH mounted <- Mounted, Reliable <- Reported
ServiceSpec == Service!Spec

\* After the last target of a shared volume is unpublished, its global path
\* is not mounted any more (the comment of IsLastSharedVol).
SharedIsReleased ==
    \A v \in Shared :
        /\ \E t \in Targets : VolumeOf[t] = v /\ view[t] = "out"
        /\ \A t \in Targets : VolumeOf[t] = v => pod[t] = "deleted" /\ view[t] = "out"
        => \A g \in {v} \X {"ver1", "ver2"} : mounts[g] = <<>>

\* A pod that stays gets its volume.
EventuallyPublished ==
    \A t \in Targets : (pod[t] = "bound") ~> (view[t] = "in" \/ pod[t] = "deleted")

\* The volume of a deleted pod is let go.
EventuallyUnpublished ==
    \A t \in Targets : (pod[t] = "deleted") ~> (view[t] \in {"never", "out"})
=============================================================================
