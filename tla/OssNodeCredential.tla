--------------------------- MODULE OssNodeCredential ---------------------------
(***************************************************************************)
(* OssNode and Credential together: a publish saves the AK pair of its     *)
(* volume's bucket before it sends the mount command, and the ossfs that   *)
(* the command starts looks its bucket up in the file that other calls     *)
(* rewrite meanwhile.  OssNode alone takes the save for one step; here it  *)
(* is the save of Credential, system call by system call, and a mount      *)
(* fails because of the file only when the file does not have the pair.    *)
(***************************************************************************)
EXTENDS OssNode

CONSTANTS Buckets, Keys, Pairs, CutsOf, MaxLines,  \* those of Credential
          BucketOf,    \* BucketOf[v]: the bucket of volume v
          KeyOf,       \* KeyOf[b]: the pair of the volumes of bucket b
          FileFaults   \* the faults of the file that may happen

ASSUME BucketAssumption == BucketOf \in [Volumes -> Buckets] /\ KeyOf \in [Buckets -> Keys]
ASSUME CredNoneAssumption == None \notin Workers /\ None \notin Pairs
ASSUME PairsAssumption ==
    /\ Keys \subseteq Pairs
    /\ CutsOf \in [Pairs -> SUBSET Pairs]
    /\ \A p \in Pairs : \A q \in CutsOf[p] : CutsOf[q] \subseteq CutsOf[p]
ASSUME LinesAssumption == MaxLines \in Nat \ {0}
ASSUME FileFaultsAssumption == FileFaults \subseteq {"read", "open", "write"}

VARIABLES file, mutex, savePc, req, buf, acked

cred    == <<file, mutex, savePc, req, buf, acked>>
allVars == <<vars, cred>>

\* saveOssCredential on a disk that works, and on one that may fail.
Cred == INSTANCE Credential WITH Handlers <- Workers, pc <- savePc, Faults <- {"restart"}
FailingCred == INSTANCE Credential WITH Handlers <- Workers, pc <- savePc, Faults <- FileFaults

Bucket(t) == BucketOf[VolumeOf[t]]

\* The volume mounted on path p, a target or a global path.
VolumeAt(p) == IF p \in Targets THEN VolumeOf[p] ELSE p[1]

\* ossfs finds a whole pair for the bucket of the volume of p: with a cut one
\* OSS refuses it.
FindsPair(p) == Cred!KeysIn(file, BucketOf[VolumeAt(p)]) \cap Keys # {}

-----------------------------------------------------------------------------
(* The save within NodePublishVolume. *)

SaveBegins(w) ==
    /\ pc[w] = "pubSave"
    /\ Cred!Publish(w, Bucket(target[w]), KeyOf[Bucket(target[w])])
    /\ UNCHANGED vars

\* A system call of the save, which may fail; the return is below.
SaveStep(w) ==
    /\ savePc[w] \notin {"saved", "failed"}
    /\ \/ Cred!Step(w) /\ NoFault
       \/ /\ FailingCred!Step(w) /\ ~Cred!Step(w)
          /\ budget > 0
          /\ budget' = budget - 1
    /\ UNCHANGED <<kubelet, host, pc, calls, job>>

SaveReturnsNil(w) == Cred!ReturnNil(w) /\ PubSave(w) /\ NoFault

\* Bug: an error of the save is dropped.
Bug_SaveErrorIsDropped(w) == Cred!ReturnError(w) /\ PubSave(w) /\ NoFault

SaveReturnsError(w) ==
    /\ Cred!ReturnError(w)
    /\ ReturnError(w)
    /\ NoFault
    /\ UNCHANGED <<host, job>>

-----------------------------------------------------------------------------
(* The mount command: ossfs starts only with a pair for its bucket. *)

MountWithPair(w) ==
    /\ job[w] = "sent"
    /\ FindsPair(path[w])
    /\ JobMount(w)
    /\ UNCHANGED cred

MountFails(w) ==
    /\ \/ JobFail(w)
       \/ /\ job[w] = "sent"
          /\ ~FindsPair(path[w])
          /\ NoFault
          /\ job' = [job EXCEPT ![w] = "error"]
          /\ UNCHANGED <<kubelet, host, pc, calls>>
    /\ UNCHANGED cred

OrphanMountWithPair(p) == FindsPair(p) /\ OrphanMount(p) /\ UNCHANGED cred

OrphanMountFails(p) ==
    /\ \/ OrphanFail(p)
       \/ /\ orphans[p] > 0
          /\ ~FindsPair(p)
          /\ NoFault
          /\ orphans' = [orphans EXCEPT ![p] = @ - 1]
          /\ UNCHANGED <<kubelet, mounts, metrics, pc, calls, job>>
    /\ UNCHANGED cred

-----------------------------------------------------------------------------

PublishWithCredential(w) ==
    \/ SaveBegins(w) \/ SaveStep(w) \/ SaveReturnsNil(w) \/ SaveReturnsError(w)
    \/ /\ \/ PubCheck(w) \/ PubShared(w) \/ PubCreate(w) \/ WriteMetricsInfo(w)
          \/ PubSend(w) \/ PubAnswer(w) \/ PubAnswerLost(w) \/ PubBind(w)
       /\ UNCHANGED cred

ServeWithCredential(w) ==
    PublishWithCredential(w) \/ (NodeUnpublishVolume(w) /\ UNCHANGED cred)

ConnectorWithCredential(w) == MountWithPair(w) \/ MountFails(w)

RestartAll == Restart /\ Cred!Restart

AllInit == Init /\ Cred!Init

AllNext ==
    \/ \E w \in Workers : ServeWithCredential(w) \/ ConnectorWithCredential(w)
    \/ \E p \in Paths : OrphanMountWithPair(p) \/ OrphanMountFails(p)
    \/ RestartAll
    \/ /\ \/ \E w \in Workers : GiveUp(w)
          \/ \E t \in Targets : PodBound(t) \/ PodDeleted(t) \/ KubeletCalls(t)
                                  \/ KubeletForgets(t)
          \/ \E v \in Volumes : GlobalDirAppears(v)
       /\ UNCHANGED cred

AllSpec == AllInit /\ [][AllNext]_allVars

\* The fairness of OssNode and of Credential.
AllFairness ==
    /\ \A w \in Workers :
         /\ WF_allVars(ServeWithCredential(w))
         /\ SF_allVars(Cred!Lock(w) /\ UNCHANGED vars)
         /\ WF_allVars(ConnectorWithCredential(w))
    /\ \A p \in Paths : WF_allVars(OrphanMountWithPair(p) \/ OrphanMountFails(p))
    /\ \A t \in Targets : WF_allVars(KubeletCalls(t) /\ UNCHANGED cred)

AllFairSpec == AllSpec /\ AllFairness

-----------------------------------------------------------------------------
(* Properties. *)

\* A mount command under way whose sender waits, or is gone.
Mounting(p) == orphans[p] > 0 \/ \E w \in Workers : job[w] = "sent" /\ path[w] = p

\* When no fault occurred, a mount command finds the pair its call has saved,
\* unless another call is rewriting the file at that moment: saves for other
\* buckets, retries and unpublishes in between do not lose it.
\* (NodePublishVolume: saveOssCredential returns before DoMountInHost.)
SavedPairIsThere ==
    budget = MaxFaults =>
        \A p \in Paths : Mounting(p) =>
            FindsPair(p) \/ \E w \in Workers : Cred!Rewriting(w)

\* Whatever fails, is abandoned or restarts, a mount command never finds a pair
\* for its bucket that was in the file before the save of its call: what is
\* there for the bucket is the pair of its volume, or what a write that stopped
\* half-way left of it.  (saveOssCredential, and DoMountInHost after it.)
NeverAnOldPair ==
    \A p \in Paths : Mounting(p) =>
        LET b == BucketOf[VolumeAt(p)]
        IN  Cred!KeysIn(file, b) \subseteq {KeyOf[b]} \cup CutsOf[KeyOf[b]]

\* Nobody else saves: no call for another target is within saveOssCredential.
OthersDoNotSave(t) == \A w \in Workers : savePc[w] # "idle" => target[w] = t

\* It never stays so that a bound pod has no volume while nobody else saves:
\* mount commands fail while the file is truncated and saves fail half-way, but
\* only saves for other targets that go on for ever can keep a pod waiting.
PublishedUnlessOthersSave ==
    \A t \in Targets :
        []<>(pod[t] = "bound" => view[t] = "in" \/ ~OthersDoNotSave(t))
=============================================================================
