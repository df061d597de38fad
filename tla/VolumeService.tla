---------------------------- MODULE VolumeService ----------------------------
(***************************************************************************)
(* What the node server promises the kubelet about the volumes of the pods *)
(* of a node: whether something is mounted on a target, and what may be    *)
(* answered when.  OssNode.tla shows that NodePublishVolume and            *)
(* NodeUnpublishVolume, which decide by mount tables that may have changed *)
(* since, implement it.                                                    *)
(***************************************************************************)
CONSTANTS Targets,   \* target paths; each belongs to one pod, used once
          Reliable   \* every answer arrives and every mount table is read

VARIABLES pod,       \* pod[t]: is the pod of t still to come, bound, deleted
          view,      \* view[t]: what the kubelet knows of the mount of t
          mounted    \* the targets that something is mounted on
serviceVars == <<pod, view, mounted>>

Init ==
    /\ pod = [t \in Targets |-> "none"]
    /\ view = [t \in Targets |-> "never"]
    /\ mounted = {}

Learns(t, v) == view' = [view EXCEPT ![t] = v]

PodBound(t) ==
    /\ pod[t] = "none"
    /\ pod' = [pod EXCEPT ![t] = "bound"]
    /\ UNCHANGED <<view, mounted>>

PodDeleted(t) ==
    /\ pod[t] = "bound"
    /\ pod' = [pod EXCEPT ![t] = "deleted"]
    /\ UNCHANGED <<view, mounted>>

\* The kubelet asks for the volume of a pod, or to let go that of a deleted one.
Ask(t) ==
    /\ \/ pod[t] = "bound" /\ view[t] \in {"never", "unsure"}
       \/ pod[t] = "deleted" /\ view[t] \in {"unsure", "in"}
    /\ Learns(t, "unsure")
    /\ UNCHANGED <<pod, mounted>>

\* The kubelet restarts and is not sure any more.
Forget(t) ==
    /\ view[t] = "in"
    /\ Learns(t, "unsure")
    /\ UNCHANGED <<pod, mounted>>

\* Something is mounted, on targets that the kubelet asked for alone; when the
\* service is reliable, before it answers.
Mount(t) ==
    /\ view[t] # "never"
    /\ Reliable => view[t] = "unsure"
    /\ mounted' = mounted \cup {t}
    /\ UNCHANGED <<pod, view>>

\* A mount goes, of a deleted pod alone, and never while the kubelet has it
\* reported; when the service is reliable, with the answer and not before.
Unmount(t) ==
    /\ ~Reliable
    /\ pod[t] = "deleted" /\ view[t] # "in"
    /\ mounted' = mounted \ {t}
    /\ UNCHANGED <<pod, view>>

\* Success of NodePublishVolume: a pod that is not deleted has its mount now.
Published(t) ==
    /\ view[t] = "unsure"
    /\ mounted' \in {mounted, mounted \cup {t}}
    /\ t \in mounted' \/ pod[t] = "deleted"
    /\ Learns(t, "in")
    /\ UNCHANGED pod

\* Success of NodeUnpublishVolume: when the service is reliable, nothing is left.
Unpublished(t) ==
    /\ view[t] = "unsure" /\ pod[t] = "deleted"
    /\ mounted' \in {mounted, mounted \ {t}}
    /\ Reliable => t \notin mounted'
    /\ Learns(t, "out")
    /\ UNCHANGED pod

Next ==
    \E t \in Targets :
        \/ PodBound(t) \/ PodDeleted(t) \/ Ask(t) \/ Forget(t)
        \/ Mount(t) \/ Unmount(t) \/ Published(t) \/ Unpublished(t)

Spec == Init /\ [][Next]_serviceVars
=============================================================================
