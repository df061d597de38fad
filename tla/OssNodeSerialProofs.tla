-------------------------- MODULE OssNodeSerialProofs --------------------------
(***************************************************************************)
(* Proofs about OssNode when every answer reaches the kubelet and every    *)
(* look at the mount table succeeds: the kubelet then knows of every call, *)
(* so that calls for one target are served one after the other.            *)
(***************************************************************************)
EXTENDS OssNodeProofs

\* The kubelet waits for each call, and has at most one for a target.
Serial ==
    /\ \A w \in Workers :
         /\ pc[w] = "idle" => target[w] = None
         /\ pc[w] # "idle" => waiting[w] /\ view[target[w]] = "unsure"
    /\ \A w, x \in Workers : pc[w] # "idle" /\ pc[x] # "idle" /\ target[w] = target[x] => w = x
    /\ \A p \in Paths : orphans[p] = 0

\* From its look at the target to its own mount there, a publish finds the
\* target empty.
Empty(w) ==
    /\ pc[w] \in {"pubSave", "pubShared", "pubCreate", "pubSend", "pubBind"} \cup RecordSteps =>
         mounts[target[w]] = <<>>
    /\ pc[w] = "pubWait" =>
         mounts[target[w]] = <<>> \/ (job[w] = "ok" /\ path[w] = target[w])

OutIsEmpty == \A t \in Targets : view[t] = "out" => mounts[t] = <<>>

\* From the choice of a path to mount on to the answer of the command.
SendSteps == {"pubCreate", "podLook", "podOpen", "podWrite", "mountLook", "mountOpen",
              "mountWrite", "pubSend", "pubWait"}

\* Commands for g that may still mount an ossfs there.
Pending(g) ==
    {w \in Workers : /\ pc[w] \in SendSteps
                     /\ path[w] = g
                     /\ job[w] \notin {"ok", "error"}}

\* Only calls that found g not mounted start an ossfs on it.
PendingBounded ==
    \A g \in GlobalPaths :
        Len(mounts[g]) + Cardinality(Pending(g)) <= Cardinality(Workers)

SInv ==
    /\ PInv
    /\ Serial
    /\ \A w \in Workers : Empty(w)
    /\ OneMountPerTarget
    /\ OutIsEmpty
    /\ PendingBounded

-----------------------------------------------------------------------------
(* The kinds of steps. *)

Begins(w, t) ==
    /\ Call(w, t, "pubCheck") \/ Call(w, t, "unpCheck")
    /\ t \in Targets

Ends(w) ==
    /\ pc[w] # "idle"
    /\ job' = [job EXCEPT ![w] = "none"]
    /\ orphans' = orphans
    /\ \E v \in {"unsure", "in", "out"} :
         /\ Return(w, v)
         /\ \/ mounts' = mounts /\ (v = "out" => mounts[target[w]] = <<>>)
            \/ /\ pc[w] = "pubBind" /\ v = "in"
               /\ \E layer \in {"ossfs", "bare"} : OnTop(target[w], layer)
            \/ mounts[target[w]] # <<>> /\ TakeOff(target[w])

Goes(w) ==
    /\ pc[w] # "idle"
    /\ UNCHANGED <<view, mounts, orphans, target, waiting>>
    /\ \E s \in PublishSteps \cup UnpublishSteps :
         /\ GoTo(w, s)
         /\ s \in PublishSteps \ {"pubCheck"} => mounts[target[w]] = <<>>
         /\ s \in SendSteps /\ path'[w] \in GlobalPaths =>
              \/ /\ pc[w] \in SendSteps
                 /\ path' = path /\ job[w] = "none"
              \/ mounts[path'[w]] = <<>>
    /\ \E p \in Paths \cup {None} : path' = [path EXCEPT ![w] = p]
    /\ \E j \in {"none", "sent"} : job' = [job EXCEPT ![w] = j]

JobStops(w) ==
    /\ job[w] = "sent"
    /\ job' = [job EXCEPT ![w] = "error"]
    /\ UNCHANGED <<view, mounts, orphans, pc, calls>>

Rests ==
    /\ UNCHANGED <<pc, target, waiting, path, job, mounts, orphans>>
    /\ \A t \in Targets : view'[t] = view[t] \/ (view[t] = "in" /\ view'[t] = "unsure")

SerialKinds ==
    \/ \E w \in Workers, t \in Targets : Begins(w, t)
    \/ \E w \in Workers : Ends(w) \/ Goes(w) \/ JobMount(w) \/ JobStops(w)
    \/ Rests

LEMMA LookIsRight ==
    ASSUME Reported, PInv, NEW p \in Paths, NEW answer \in BOOLEAN, IsOssfsMounted(p, answer)
    PROVE  answer = (mounts[p] # <<>>)
  <1>1. answer = Listed(p)
    BY DEF IsOssfsMounted, Fault, Reported
  <1> QED
    BY <1>1, ListedIsMounted DEF PInv, Typed

LEMMA GoesTo ==
    ASSUME NEW w \in Workers, pc[w] # "idle",
           UNCHANGED <<view, mounts, orphans, target, waiting>>,
           NEW s \in PublishSteps \cup UnpublishSteps, GoTo(w, s),
           s \in PublishSteps \ {"pubCheck"} => mounts[target[w]] = <<>>,
           s \in SendSteps /\ path'[w] \in GlobalPaths =>
              \/ /\ pc[w] \in SendSteps
                 /\ path' = path /\ job[w] = "none"
              \/ mounts[path'[w]] = <<>>,
           NEW p \in Paths \cup {None}, path' = [path EXCEPT ![w] = p],
           NEW j \in {"none", "sent"}, job' = [job EXCEPT ![w] = j]
    PROVE  Goes(w)
  BY DEF Goes

LEMMA StepsAreSerial == ASSUME Reported, SInv, NodeStep PROVE SerialKinds
  <1>0. /\ PInv /\ Typed /\ TypeOK /\ LocalsOK
        /\ \A w \in Workers : Empty(w)
        /\ \A p \in Paths : orphans[p] = 0
    BY DEF SInv, PInv, Typed, Serial
  <1> USE DEF kubelet, host, calls, SendSteps
  <1>t. ASSUME NEW w \in Workers, pc[w] # "idle"
        PROVE  target[w] \in Targets /\ target[w] \in Paths
    BY <1>0, <1>t DEF LocalsOK, Paths
  <1>j. ASSUME NEW w \in Workers, pc[w] # "pubWait"
        PROVE  job[w] = "none" /\ job = [job EXCEPT ![w] = "none"]
    BY <1>0, <1>j DEF LocalsOK, TypeOK
  <1>p. \A w \in Workers : path = [path EXCEPT ![w] = path[w]] /\ path[w] \in Paths \cup {None}
    BY <1>0 DEF TypeOK
  <1>1. ASSUME NEW w \in Workers, PubCheck(w) PROVE Ends(w) \/ Goes(w)
    <2>1. CASE IsOssfsMounted(target[w], TRUE) /\ Return(w, "in")
      BY <1>1, <1>j, <2>1 DEF PubCheck, Ends
    <2>2. CASE IsOssfsMounted(target[w], FALSE) /\ GoTo(w, "pubSave") /\ UNCHANGED <<kubelet, calls>>
      <3>1. mounts[target[w]] = <<>>
        BY <1>0, <1>1, <1>t, <2>2, LookIsRight DEF PubCheck
      <3> QED
        BY <1>1, <1>j, <1>p, <2>2, <3>1 DEF PubCheck, Goes, PublishSteps
    <2> QED
      BY <1>1, <2>1, <2>2 DEF PubCheck
  <1>2. ASSUME NEW w \in Workers, PubSave(w) PROVE Ends(w) \/ Goes(w)
    <2>1. CASE ReturnError(w)
      BY <1>2, <1>j, <2>1 DEF PubSave, ReturnError, Ends
    <2>2. CASE /\ UNCHANGED <<kubelet, target, waiting>>
               /\ GoTo(w, "pubShared") /\ UNCHANGED path
      BY <1>0, <1>2, <1>j, <1>p, <2>2 DEF PubSave, Goes, Empty, RecordSteps, PublishSteps
    <2>3. CASE /\ UNCHANGED <<kubelet, target, waiting>>
               /\ GoTo(w, "pubCreate") /\ path' = [path EXCEPT ![w] = target[w]]
      <3>1. path'[w] = target[w] /\ mounts[target[w]] = <<>> /\ target[w] \in Paths
        BY <1>0, <1>2, <1>t, <2>3 DEF PubSave, Empty, RecordSteps, TypeOK
      <3> QED
        BY <1>2, <1>j, <2>3, <3>1 DEF PubSave, Goes, PublishSteps
    <2> QED
      BY <1>2, <2>1, <2>2, <2>3 DEF PubSave
  <1>3. ASSUME NEW w \in Workers, PubShared(w) PROVE Goes(w)
    <2> DEFINE global == GetGlobalMountPath(VolumeOf[target[w]])
    <2>1. global \in GlobalPaths /\ global \in Paths
      BY <1>0, <1>3, <1>t, VolumeAssumption DEF PubShared, GetGlobalMountPath, GlobalPaths, Paths
    <2>2. /\ pc[w] = "pubShared" /\ mounts[target[w]] = <<>>
          /\ path' = [path EXCEPT ![w] = global] /\ path'[w] = global
          /\ UNCHANGED <<view, mounts, orphans, target, waiting, job>>
      BY <1>0, <1>3 DEF PubShared, Empty, RecordSteps, TypeOK
    <2>3. \/ GoTo(w, "pubBind")
          \/ GoTo(w, "pubCreate") /\ mounts[global] = <<>>
      BY <1>0, <1>3, <2>1, LookIsRight DEF PubShared
    <2>4. job' = [job EXCEPT ![w] = "none"]
      BY <1>j, <2>2
    <2> HIDE DEF global
    <2>5. CASE GoTo(w, "pubBind")
      <3>1. "pubBind" \in PublishSteps
        BY DEF PublishSteps
      <3> QED
        BY <2>1, <2>2, <2>4, <2>5, <3>1, GoesTo
    <2>6. CASE GoTo(w, "pubCreate") /\ mounts[global] = <<>>
      <3>1. "pubCreate" \in PublishSteps
        BY DEF PublishSteps
      <3> QED
        BY <2>1, <2>2, <2>4, <2>6, <3>1, GoesTo
    <2> QED
      BY <2>3, <2>5, <2>6
  <1>4. ASSUME NEW w \in Workers, PubCreate(w) PROVE Ends(w) \/ Goes(w)
    <2>1. CASE ReturnError(w)
      BY <1>4, <1>j, <2>1 DEF PubCreate, ReturnError, Ends
    <2>2. ASSUME NEW s \in {"podLook", "pubSend"}, GoTo(w, s), UNCHANGED <<kubelet, calls>>
          PROVE  Goes(w)
      BY <1>0, <1>4, <1>j, <1>p, <2>2 DEF PubCreate, Goes, Empty, RecordSteps, PublishSteps
    <2> QED
      BY <1>4, <2>1, <2>2 DEF PubCreate
  <1>18. ASSUME NEW w \in Workers, WriteMetricsInfo(w) PROVE Goes(w)
    <2>1. PICK s \in RecordSteps \cup {"pubSend"} : GoTo(w, s)
      BY <1>18, RecordMoves
    <2>2. pc[w] \in RecordSteps /\ UNCHANGED <<kubelet, calls, mounts, orphans, job>>
      BY <1>18, RecordMoves
    <2>3. pc[w] \notin {"idle", "pubWait"} /\ mounts[target[w]] = <<>>
      BY <1>0, <2>2 DEF Empty, RecordSteps
    <2>4. s \in PublishSteps \cup UnpublishSteps /\ pc[w] \in SendSteps
      BY <2>1, <2>2 DEF PublishSteps, RecordSteps
    <2>5. job[w] = "none" /\ job' = [job EXCEPT ![w] = "none"]
      BY <1>j, <2>2, <2>3
    <2> QED
      BY <1>p, <2>1, <2>2, <2>3, <2>4, <2>5, GoesTo
  <1>5. ASSUME NEW w \in Workers, PubSend(w) PROVE Ends(w) \/ Goes(w)
    <2>1. CASE ReturnError(w) /\ UNCHANGED job
      BY <1>5, <1>j, <2>1 DEF PubSend, ReturnError, Ends
    <2>2. CASE /\ GoTo(w, "pubWait") /\ job' = [job EXCEPT ![w] = "sent"]
               /\ UNCHANGED <<kubelet, calls>>
      BY <1>0, <1>5, <1>j, <1>p, <2>2 DEF PubSend, Goes, Empty, RecordSteps, PublishSteps
    <2> QED
      BY <1>5, <2>1, <2>2 DEF PubSend
  <1>6. ASSUME NEW w \in Workers, PubAnswer(w) PROVE Ends(w) \/ Goes(w)
    <2>1. CASE ReturnError(w) \/ Return(w, "in")
      BY <1>6, <2>1 DEF PubAnswer, ReturnError, Ends
    <2>2. CASE /\ path[w] # target[w] /\ GoTo(w, "pubBind") /\ UNCHANGED <<kubelet, calls>>
      BY <1>0, <1>6, <1>p, <2>2 DEF PubAnswer, Goes, Empty, RecordSteps, PublishSteps
    <2> QED
      BY <1>6, <2>1, <2>2 DEF PubAnswer
  <1>7. ASSUME NEW w \in Workers, PubBind(w) PROVE Ends(w)
    BY <1>7, <1>j DEF PubBind, ReturnError, Ends
  <1>8. ASSUME NEW w \in Workers, UnpCheck(w) PROVE Ends(w) \/ Goes(w)
    <2>1. CASE IsOssfsMounted(target[w], FALSE) /\ Return(w, "out")
      <3>1. mounts[target[w]] = <<>>
        BY <1>0, <1>8, <1>t, <2>1, LookIsRight DEF UnpCheck
      <3> QED
        BY <1>8, <1>j, <2>1, <3>1 DEF UnpCheck, Ends
    <2>2. CASE GoTo(w, "unpShared") /\ UNCHANGED <<kubelet, calls>>
      BY <1>8, <1>j, <1>p, <2>2 DEF UnpCheck, Goes, PublishSteps, UnpublishSteps
    <2> QED
      BY <1>8, <2>1, <2>2 DEF UnpCheck
  <1>9. ASSUME NEW w \in Workers, UnpShared(w) PROVE Goes(w)
    <2>1. GetGlobalMountPath(VolumeOf[target[w]]) \in Paths
      BY <1>9, <1>t, VolumeAssumption
         DEF UnpShared, GetGlobalMountPath, GlobalPaths, Paths
    <2>2. /\ pc[w] = "unpShared" /\ job' = [job EXCEPT ![w] = "none"]
          /\ UNCHANGED <<view, mounts, orphans, target, waiting>>
      BY <1>9, <1>j DEF UnpShared
    <2>3. PICK s \in {"unpCount", "unpRun"} : GoTo(w, s)
      BY <1>9 DEF UnpShared
    <2>4. PICK p \in Paths \cup {None} : path' = [path EXCEPT ![w] = p]
      BY <1>9, <1>p, <2>1 DEF UnpShared
    <2>5. /\ s \in UnpublishSteps /\ s \notin PublishSteps
          /\ s \notin SendSteps
      BY <2>3 DEF PublishSteps, UnpublishSteps
    <2> QED
      BY <2>2, <2>3, <2>4, <2>5, GoesTo
  <1>10. ASSUME NEW w \in Workers, UnpCount(w) PROVE Ends(w) \/ Goes(w)
    <2>1. CASE ReturnError(w)
      BY <1>10, <1>j, <2>1 DEF UnpCount, ReturnError, Ends
    <2>2. CASE GoTo(w, "unpRun") /\ UNCHANGED <<kubelet, target, waiting, path>>
      BY <1>10, <1>j, <1>p, <2>2 DEF UnpCount, Goes, PublishSteps, UnpublishSteps
    <2> QED
      BY <1>10, <2>1, <2>2 DEF UnpCount
  <1>11. ASSUME NEW w \in Workers, UnpRun(w) PROVE Ends(w)
    BY <1>11, <1>j DEF UnpRun, ReturnError, Ends
  <1>12. ASSUME NEW t \in Targets, KubeletCalls(t)
         PROVE  \E w \in Workers : Begins(w, t)
    BY <1>12 DEF KubeletCalls, CallPublish, CallUnpublish, Begins
  <1>13. ASSUME \/ \E w \in Workers : PubAnswerLost(w) \/ GiveUp(w)
                \/ \E p \in Paths : OrphanMount(p) \/ OrphanFail(p)
                \/ Restart
         PROVE  FALSE
    <2>1. ~Fault("reply") /\ ~Fault("timeout") /\ ~Fault("restart")
      BY DEF Fault, Reported
    <2> QED
      BY <1>0, <1>13, <2>1 DEF PubAnswerLost, GiveUp, OrphanMount, OrphanFail, Restart
  <1>14. ASSUME \/ \E t \in Targets : PodBound(t) \/ PodDeleted(t) \/ KubeletForgets(t)
                \/ \E v \in Volumes : GlobalDirAppears(v)
                \/ UNCHANGED vars
         PROVE  Rests
    <2>1. UNCHANGED <<pc, target, waiting, path, job, mounts, orphans>>
      BY <1>14 DEF PodBound, PodDeleted, KubeletForgets, GlobalDirAppears, vars
    <2>2. view' = view \/ \E t \in Targets : view[t] = "in" /\ view' = [view EXCEPT ![t] = "unsure"]
      BY <1>14 DEF PodBound, PodDeleted, KubeletForgets, GlobalDirAppears, vars
    <2> QED
      BY <1>0, <2>1, <2>2 DEF Rests, TypeOK
  <1>15. ASSUME NEW w \in Workers, JobFail(w) PROVE JobStops(w)
    BY <1>15 DEF JobFail, JobStops
  <1>16. CASE FailsElsewhere
    <2>1. CASE UNCHANGED <<kubelet, host, pc, calls, job>>
      BY <2>1 DEF Rests, SerialKinds
    <2>2. ASSUME NEW w \in Workers, job[w] = "sent", job' = [job EXCEPT ![w] = "error"],
                 UNCHANGED <<kubelet, host, pc, calls>>
          PROVE  SerialKinds
      BY <2>2 DEF JobStops, SerialKinds
    <2>3. ASSUME NEW w \in Workers, pc[w] = "pubSave", ReturnError(w), UNCHANGED <<host, job>>
          PROVE  SerialKinds
      BY <1>j, <2>3 DEF ReturnError, Ends, SerialKinds
    <2> QED
      BY <1>0, <1>16, <2>1, <2>2, <2>3 DEF FailsElsewhere
  <1>17. CASE Next
    BY <1>1, <1>2, <1>3, <1>4, <1>5, <1>6, <1>7, <1>8, <1>9, <1>10, <1>11, <1>12,
       <1>13, <1>14, <1>15, <1>17, <1>18
       DEF Next, NodePublishVolume, NodeUnpublishVolume, Connector, SerialKinds
  <1> QED
    BY <1>14, <1>16, <1>17 DEF NodeStep, SerialKinds

-----------------------------------------------------------------------------
(* What a call that ends leaves behind. *)

LEMMA EndsEffect ==
    ASSUME SInv, NEW w \in Workers, Ends(w)
    PROVE  /\ target[w] \in Targets /\ target[w] \in Paths /\ pc[w] # "idle"
           /\ pc'[w] = "idle" /\ target'[w] = None
           /\ orphans' = orphans
           /\ \A x \in Workers \ {w} :
                /\ pc'[x] = pc[x] /\ target'[x] = target[x] /\ waiting'[x] = waiting[x]
                /\ path'[x] = path[x] /\ job'[x] = job[x]
           /\ \A t \in Targets \ {target[w]} : view'[t] = view[t]
           /\ \A p \in Paths \ {target[w]} : mounts'[p] = mounts[p]
           /\ Len(mounts'[target[w]]) <= 1
           /\ view'[target[w]] = "out" => mounts'[target[w]] = <<>>
  <1>0. Typed /\ TypeOK /\ LocalsOK /\ Serial /\ Empty(w) /\ OneMountPerTarget
    BY DEF SInv, PInv, Typed
  <1>1. /\ target[w] \in Targets /\ target[w] \in Paths /\ pc[w] # "idle" /\ waiting[w]
        /\ mounts \in [Paths -> Seq({"ossfs", "bare"})]
        /\ mounts[target[w]] \in Seq({"ossfs", "bare"})
        /\ Len(mounts[target[w]]) <= 1
    BY <1>0 DEF Ends, LocalsOK, Paths, TypeOK, Serial, OneMountPerTarget
  <1>2. PICK v \in {"unsure", "in", "out"} :
          /\ Return(w, v)
          /\ \/ mounts' = mounts /\ (v = "out" => mounts[target[w]] = <<>>)
             \/ /\ pc[w] = "pubBind" /\ v = "in"
                /\ \E layer \in {"ossfs", "bare"} : OnTop(target[w], layer)
             \/ mounts[target[w]] # <<>> /\ TakeOff(target[w])
    BY DEF Ends
  <1>3. /\ pc'[w] = "idle" /\ target'[w] = None /\ view' = [view EXCEPT ![target[w]] = v]
        /\ \A x \in Workers \ {w} :
             /\ pc'[x] = pc[x] /\ target'[x] = target[x] /\ waiting'[x] = waiting[x]
             /\ path'[x] = path[x]
    BY <1>0, <1>1, <1>2 DEF Return, TypeOK
  <1>4. orphans' = orphans /\ \A x \in Workers \ {w} : job'[x] = job[x]
    BY <1>0 DEF Ends, TypeOK
  <1>5. view'[target[w]] = v /\ \A t \in Targets \ {target[w]} : view'[t] = view[t]
    BY <1>0, <1>1, <1>3 DEF TypeOK
  <1>6. /\ \A p \in Paths \ {target[w]} : mounts'[p] = mounts[p]
        /\ Len(mounts'[target[w]]) <= 1
        /\ v = "out" => mounts'[target[w]] = <<>>
    <2>1. CASE mounts' = mounts /\ (v = "out" => mounts[target[w]] = <<>>)
      BY <1>1, <2>1
    <2>2. ASSUME NEW layer \in {"ossfs", "bare"}, OnTop(target[w], layer),
                 pc[w] = "pubBind", v = "in"
          PROVE  /\ \A p \in Paths \ {target[w]} : mounts'[p] = mounts[p]
                 /\ Len(mounts'[target[w]]) <= 1
      <3>1. mounts[target[w]] = <<>>
        BY <1>0, <2>2 DEF Empty, RecordSteps
      <3>2. mounts'[target[w]] = Append(mounts[target[w]], layer)
        BY <1>1, <2>2, OnTopType
      <3> QED
        BY <1>1, <2>2, <3>1, <3>2, OnTopType
    <2>3. CASE mounts[target[w]] # <<>> /\ TakeOff(target[w])
      <3>1. /\ Len(mounts'[target[w]]) = Len(mounts[target[w]]) - 1
            /\ mounts'[target[w]] \in Seq({"ossfs", "bare"})
            /\ \A p \in Paths \ {target[w]} : mounts'[p] = mounts[p]
        BY <1>1, <2>3, TakeOffType
      <3>2. Len(mounts[target[w]]) \in Nat /\ Len(mounts'[target[w]]) \in Nat
        BY <1>1, <3>1
      <3>3. PICK m \in Nat, n \in Nat : m = Len(mounts[target[w]]) /\ n = Len(mounts'[target[w]])
        BY <3>2
      <3>4. m <= 1 /\ n = m - 1
        BY <1>1, <3>1, <3>3
      <3>5. n = 0
        BY <3>4
      <3>6. mounts'[target[w]] = <<>>
        <4>1. mounts'[target[w]] # <<>> => Len(mounts'[target[w]]) \in Nat \ {0}
          BY <3>1, EmptySeq
        <4> QED
          BY <3>3, <3>5, <4>1
      <3>7. Len(mounts'[target[w]]) <= 1
        BY <3>3, <3>5
      <3> QED
        BY <3>1, <3>6, <3>7
    <2> QED
      BY <1>2, <2>1, <2>2, <2>3
  <1> QED
    BY <1>1, <1>3, <1>4, <1>5, <1>6

\* What the mount command of a call does: nobody else is on its target, which
\* the call has found empty.
LEMMA JobEffect ==
    ASSUME SInv, NEW w \in Workers, JobMount(w) \/ JobStops(w)
    PROVE  /\ UNCHANGED <<pc, target, waiting, path, view, orphans>>
           /\ pc[w] = "pubWait" /\ job[w] = "sent"
           /\ target[w] \in Targets
           /\ path[w] \in GlobalPaths \cup {target[w]} /\ path[w] \in Paths
           /\ \A x \in Workers \ {w} : job'[x] = job[x]
           /\ job'[w] \in {"ok", "error"}
           /\ mounts' # mounts => job'[w] = "ok"
           /\ \A p \in Paths : p # path[w] \/ job'[w] = "error" => mounts'[p] = mounts[p]
           /\ mounts'[path[w]] # mounts[path[w]] =>
                Len(mounts'[path[w]]) = Len(mounts[path[w]]) + 1
           /\ mounts[target[w]] = <<>>
  <1>0. Typed /\ TypeOK /\ LocalsOK /\ Empty(w)
    BY DEF SInv, PInv, Typed
  <1>1. /\ UNCHANGED <<pc, target, waiting, path, view, orphans>>
        /\ pc[w] = "pubWait" /\ job[w] = "sent"
        /\ \A x \in Workers \ {w} : job'[x] = job[x]
        /\ job'[w] = IF JobMount(w) THEN "ok" ELSE "error"
    BY <1>0 DEF JobMount, JobStops, kubelet, host, calls, LocalsOK, TypeOK
  <1>2. /\ target[w] \in Targets
        /\ path[w] \in GlobalPaths \cup {target[w]} /\ path[w] \in Paths
        /\ mounts[target[w]] = <<>>
    BY <1>0, <1>1 DEF LocalsOK, Paths, Empty, RecordSteps
  <1>3. CASE JobMount(w)
    <2>1. /\ mounts'[path[w]] = Append(mounts[path[w]], "ossfs")
          /\ \A p \in Paths \ {path[w]} : mounts'[p] = mounts[p]
      BY <1>0, <1>2, <1>3, OnTopType DEF JobMount, TypeOK
    <2>2. mounts[path[w]] \in Seq({"ossfs", "bare"})
      BY <1>0, <1>2 DEF TypeOK
    <2>3. Len(mounts'[path[w]]) = Len(mounts[path[w]]) + 1
      BY <2>1, <2>2
    <2> QED
      BY <1>1, <1>2, <1>3, <2>1, <2>3
  <1>4. CASE ~JobMount(w)
    <2>1. mounts' = mounts
      BY <1>4 DEF JobStops, host
    <2> QED
      BY <1>1, <1>2, <1>4, <2>1
  <1> QED
    BY <1>3, <1>4

LEMMA GoesEffect ==
    ASSUME SInv, NEW w \in Workers, Goes(w)
    PROVE  /\ UNCHANGED <<view, mounts, orphans, target, waiting>>
           /\ pc[w] # "idle" /\ pc'[w] # "idle"
           /\ \A x \in Workers \ {w} :
                pc'[x] = pc[x] /\ path'[x] = path[x] /\ job'[x] = job[x]
           /\ pc'[w] \in PublishSteps \ {"pubCheck"} => mounts[target[w]] = <<>>
           /\ pc'[w] \in SendSteps /\ path'[w] \in GlobalPaths =>
                \/ pc[w] \in SendSteps /\ path' = path /\ job[w] = "none"
                \/ mounts[path'[w]] = <<>>
  <1>0. TypeOK
    BY DEF SInv, PInv, Typed
  <1>1. PICK s \in PublishSteps \cup UnpublishSteps :
          /\ GoTo(w, s)
          /\ s \in PublishSteps \ {"pubCheck"} => mounts[target[w]] = <<>>
          /\ s \in SendSteps /\ path'[w] \in GlobalPaths =>
               \/ /\ pc[w] \in SendSteps
                  /\ path' = path /\ job[w] = "none"
               \/ mounts[path'[w]] = <<>>
    BY DEF Goes
  <1>2. /\ pc'[w] = s /\ \A x \in Workers \ {w} : pc'[x] = pc[x]
        /\ s # "idle"
    BY <1>0, <1>1 DEF GoTo, TypeOK, PublishSteps, UnpublishSteps
  <1>3. \A x \in Workers \ {w} : path'[x] = path[x] /\ job'[x] = job[x]
    BY <1>0 DEF Goes, TypeOK
  <1> QED
    BY <1>1, <1>2, <1>3 DEF Goes

LEMMA BeginsEffect ==
    ASSUME SInv, NEW w \in Workers, NEW t \in Targets, Begins(w, t)
    PROVE  /\ UNCHANGED <<mounts, orphans, path, job>>
           /\ pc'[w] \in {"pubCheck", "unpCheck"} /\ target'[w] = t /\ waiting'[w]
           /\ \A x \in Workers \ {w} :
                pc'[x] = pc[x] /\ target'[x] = target[x] /\ waiting'[x] = waiting[x]
           /\ \A x \in Workers : pc[x] # "idle" => target[x] # t
           /\ view'[t] = "unsure" /\ \A u \in Targets \ {t} : view'[u] = view[u]
  <1>0. TypeOK /\ Serial
    BY DEF SInv, PInv, Typed
  <1> QED
    BY <1>0 DEF Begins, Call, GoTo, TypeOK, Serial, host

-----------------------------------------------------------------------------
(* The invariant. *)

LEMMA SerialStep ==
    ASSUME Reported, SInv, NodeStep PROVE Serial'
  <1>0. LocalsOK /\ Serial
    BY DEF SInv, PInv, Typed
  <1>1. ASSUME NEW w \in Workers, NEW t \in Targets, Begins(w, t) PROVE Serial'
    BY <1>0, <1>1, BeginsEffect DEF Serial, LocalsOK
  <1>2. ASSUME NEW w \in Workers, Ends(w) PROVE Serial'
    <2>1. ASSUME NEW x \in Workers \ {w}, pc[x] # "idle"
          PROVE  target[x] \in Targets \ {target[w]}
      BY <1>0, <1>2, <2>1, EndsEffect DEF Serial, LocalsOK
    <2> QED
      BY <1>0, <1>2, <2>1, EndsEffect DEF Serial
  <1>3. ASSUME NEW w \in Workers, Goes(w) PROVE Serial'
    BY <1>0, <1>3, GoesEffect DEF Serial
  <1>4. ASSUME NEW w \in Workers, JobMount(w) \/ JobStops(w) PROVE Serial'
    BY <1>0, <1>4, JobEffect DEF Serial
  <1>5. CASE Rests
    BY <1>0, <1>5 DEF Rests, Serial, LocalsOK
  <1> QED
    BY <1>1, <1>2, <1>3, <1>4, <1>5, StepsAreSerial DEF SerialKinds

LEMMA EmptyStep ==
    ASSUME Reported, SInv, NodeStep, NEW x \in Workers PROVE Empty(x)'
  <1>0. LocalsOK /\ Serial /\ Empty(x)
    BY DEF SInv, PInv, Typed
  <1>1. ASSUME NEW w \in Workers, NEW t \in Targets, Begins(w, t) PROVE Empty(x)'
    BY <1>0, <1>1, BeginsEffect DEF Empty, RecordSteps
  <1>2. ASSUME NEW w \in Workers, Ends(w) PROVE Empty(x)'
    <2>1. CASE x = w
      BY <1>2, <2>1, EndsEffect DEF Empty, RecordSteps
    <2>2. CASE x # w /\ pc[x] # "idle"
      <3>1. target[x] \in Paths \ {target[w]}
        BY <1>0, <1>2, <2>2, EndsEffect DEF Serial, LocalsOK, Paths
      <3> QED
        BY <1>0, <1>2, <2>2, <3>1, EndsEffect DEF Empty, RecordSteps
    <2>3. CASE x # w /\ pc[x] = "idle"
      BY <1>2, <2>3, EndsEffect DEF Empty, RecordSteps
    <2> QED
      BY <2>1, <2>2, <2>3
  <1>3. ASSUME NEW w \in Workers, Goes(w) PROVE Empty(x)'
    <2>1. CASE x = w
      BY <1>3, <2>1, GoesEffect DEF Empty, RecordSteps, PublishSteps
    <2>2. CASE x # w
      BY <1>0, <1>3, <2>2, GoesEffect DEF Empty, RecordSteps
    <2> QED
      BY <2>1, <2>2
  <1>4. ASSUME NEW w \in Workers, JobMount(w) \/ JobStops(w) PROVE Empty(x)'
    <2>1. CASE x = w
      <3>1. \/ path[w] = target[w] /\ job'[w] = "ok"
            \/ path[w] = target[w] /\ job'[w] = "error"
            \/ path[w] # target[w]
        BY <1>4, JobEffect
      <3>2. target[w] \in Paths
        BY <1>4, JobEffect DEF Paths
      <3> QED
        BY <1>4, <2>1, <3>1, <3>2, JobEffect DEF Empty, RecordSteps
    <2>2. CASE x # w /\ pc[x] # "idle"
      <3>1. target[x] # path[w] /\ target[x] \in Paths
        BY <1>0, <1>4, <2>2, JobEffect, PathAssumption DEF Serial, LocalsOK, Paths
      <3> QED
        BY <1>0, <1>4, <2>2, <3>1, JobEffect DEF Empty, RecordSteps
    <2>3. CASE pc[x] = "idle"
      BY <1>4, <2>3, JobEffect DEF Empty, RecordSteps
    <2> QED
      BY <2>1, <2>2, <2>3
  <1>5. CASE Rests
    BY <1>0, <1>5 DEF Rests, Empty, RecordSteps
  <1> QED
    BY <1>1, <1>2, <1>3, <1>4, <1>5, StepsAreSerial DEF SerialKinds

LEMMA TargetStep ==
    ASSUME Reported, SInv, NodeStep, NEW t \in Targets
    PROVE  Len(mounts'[t]) <= 1 /\ (view'[t] = "out" => mounts'[t] = <<>>)
  <1>0. /\ Serial /\ Len(mounts[t]) <= 1 /\ (view[t] = "out" => mounts[t] = <<>>)
        /\ t \in Paths
    BY DEF SInv, OneMountPerTarget, OutIsEmpty, Paths
  <1>1. ASSUME NEW w \in Workers, NEW u \in Targets, Begins(w, u)
        PROVE  Len(mounts'[t]) <= 1 /\ (view'[t] = "out" => mounts'[t] = <<>>)
    BY <1>0, <1>1, BeginsEffect
  <1>2. ASSUME NEW w \in Workers, Ends(w)
        PROVE  Len(mounts'[t]) <= 1 /\ (view'[t] = "out" => mounts'[t] = <<>>)
    <2>1. CASE t = target[w]
      BY <1>2, <2>1, EndsEffect
    <2>2. CASE t # target[w]
      <3>1. mounts'[t] = mounts[t] /\ view'[t] = view[t]
        BY <1>0, <1>2, <2>2, EndsEffect
      <3> QED
        BY <1>0, <3>1
    <2> QED
      BY <2>1, <2>2
  <1>3. ASSUME NEW w \in Workers, Goes(w)
        PROVE  Len(mounts'[t]) <= 1 /\ (view'[t] = "out" => mounts'[t] = <<>>)
    BY <1>0, <1>3, GoesEffect
  <1>4. ASSUME NEW w \in Workers, JobMount(w) \/ JobStops(w)
        PROVE  Len(mounts'[t]) <= 1 /\ (view'[t] = "out" => mounts'[t] = <<>>)
    <2>1. CASE mounts'[t] = mounts[t]
      BY <1>0, <1>4, <2>1, JobEffect
    <2>2. CASE mounts'[t] # mounts[t]
      <3>1. t = path[w] /\ t = target[w]
        BY <1>0, <1>4, <2>2, JobEffect, PathAssumption
      <3>2. Len(mounts'[t]) = Len(mounts[t]) + 1 /\ mounts[t] = <<>>
        BY <1>4, <2>2, <3>1, JobEffect
      <3>3. view'[t] = "unsure"
        BY <1>0, <1>4, <3>1, JobEffect DEF Serial
      <3> QED
        BY <3>2, <3>3
    <2> QED
      BY <2>1, <2>2
  <1>5. CASE Rests
    BY <1>0, <1>5 DEF Rests
  <1> QED
    BY <1>1, <1>2, <1>3, <1>4, <1>5, StepsAreSerial DEF SerialKinds

LEMMA WorkerSets ==
    /\ Cardinality(Workers) \in Nat
    /\ \A A \in SUBSET Workers :
         /\ IsFiniteSet(A)
         /\ Cardinality(A) \in Nat /\ Cardinality(A) <= Cardinality(Workers)
         /\ \A B \in SUBSET A : Cardinality(B) \in Nat /\ Cardinality(B) <= Cardinality(A)
         /\ \A a \in A : Cardinality(A \ {a}) = Cardinality(A) - 1
  <1>1. Cardinality(Workers) \in Nat
    BY WorkersAssumption, FS_CardinalityType
  <1>2. ASSUME NEW A \in SUBSET Workers
        PROVE  /\ IsFiniteSet(A)
               /\ Cardinality(A) \in Nat /\ Cardinality(A) <= Cardinality(Workers)
    BY WorkersAssumption, FS_Subset, FS_CardinalityType
  <1>3. ASSUME NEW A \in SUBSET Workers, NEW B \in SUBSET A
        PROVE  Cardinality(B) \in Nat /\ Cardinality(B) <= Cardinality(A)
    BY <1>2, FS_Subset, FS_CardinalityType
  <1>4. ASSUME NEW A \in SUBSET Workers, NEW a \in A
        PROVE  Cardinality(A \ {a}) = Cardinality(A) - 1
    BY <1>2, FS_RemoveElement
  <1> QED
    BY <1>1, <1>2, <1>3, <1>4

LEMMA PendingStep ==
    ASSUME Reported, SInv, NodeStep, Typed', NEW g \in GlobalPaths
    PROVE  Len(mounts'[g]) + Cardinality(Pending(g))' <= Cardinality(Workers)
  <1> DEFINE before == Pending(g)
             after  == Pending(g)'
  <1>0. /\ mounts[g] \in Seq({"ossfs", "bare"}) /\ Len(mounts[g]) \in Nat
        /\ g \in Paths /\ g \notin Targets
        /\ before \in SUBSET Workers /\ after \in SUBSET Workers
        /\ Len(mounts[g]) + Cardinality(before) <= Cardinality(Workers)
    BY PathAssumption DEF SInv, PInv, Typed, TypeOK, Paths, Pending, PendingBounded
  <1>1. /\ Cardinality(before) \in Nat /\ Cardinality(after) \in Nat
        /\ Cardinality(Workers) \in Nat
        /\ Cardinality(after) <= Cardinality(Workers)
        /\ after \subseteq before => Cardinality(after) <= Cardinality(before)
    BY <1>0, WorkerSets
  <1>2. SUFFICES Len(mounts'[g]) + Cardinality(after) <= Cardinality(Workers)
    OBVIOUS
  <1>3. ASSUME mounts'[g] = mounts[g], after \subseteq before
        PROVE  Len(mounts'[g]) + Cardinality(after) <= Cardinality(Workers)
    BY <1>0, <1>1, <1>3
  <1>4. ASSUME NEW w \in Workers, NEW t \in Targets, Begins(w, t)
        PROVE  mounts'[g] = mounts[g] /\ after \subseteq before
    BY <1>4, BeginsEffect DEF Pending, SendSteps
  <1>5. ASSUME NEW w \in Workers, Ends(w)
        PROVE  mounts'[g] = mounts[g] /\ after \subseteq before
    BY <1>0, <1>5, EndsEffect DEF Pending, SendSteps
  <1>6. ASSUME NEW w \in Workers, Goes(w)
        PROVE  Len(mounts'[g]) + Cardinality(after) <= Cardinality(Workers)
    <2>1. mounts' = mounts
      BY <1>6, GoesEffect
    <2>2. CASE mounts[g] = <<>>
      BY <1>1, <2>1, <2>2
    <2>3. CASE mounts[g] # <<>>
      <3>1. ASSUME NEW x \in after PROVE x \in before
        <4>1. CASE x = w
          BY <1>6, <2>3, <3>1, <4>1, GoesEffect DEF Pending, SendSteps
        <4>2. CASE x # w
          BY <1>6, <3>1, <4>2, GoesEffect DEF Pending, SendSteps
        <4> QED
          BY <4>1, <4>2
      <3> QED
        BY <1>3, <2>1, <3>1
    <2> QED
      BY <2>2, <2>3
  <1>7. ASSUME NEW w \in Workers, JobMount(w) \/ JobStops(w)
        PROVE  Len(mounts'[g]) + Cardinality(after) <= Cardinality(Workers)
    <2>1. after \subseteq before \ {w}
      BY <1>7, JobEffect DEF Pending, SendSteps
    <2>2. CASE mounts'[g] = mounts[g]
      BY <1>3, <2>1, <2>2
    <2>3. CASE mounts'[g] # mounts[g]
      <3>1. path[w] = g
        BY <1>0, <1>7, <2>3, JobEffect
      <3>2. w \in before /\ Len(mounts'[g]) = Len(mounts[g]) + 1
        BY <1>7, <2>3, <3>1, JobEffect DEF Pending, SendSteps
      <3>3. /\ Cardinality(before \ {w}) = Cardinality(before) - 1
            /\ Cardinality(after) <= Cardinality(before \ {w})
        <4>1. before \ {w} \in SUBSET Workers /\ after \in SUBSET (before \ {w})
          BY <1>0, <2>1
        <4> HIDE DEF before, after
        <4> QED
          BY <1>0, <3>2, <4>1, WorkerSets
      <3> HIDE DEF before, after
      <3> QED
        BY <1>0, <1>1, <3>2, <3>3
    <2> QED
      BY <2>2, <2>3
  <1>8. CASE Rests
    <2>1. mounts'[g] = mounts[g] /\ after \subseteq before
      BY <1>8 DEF Rests, Pending, SendSteps
    <2> QED
      BY <1>3, <2>1
  <1> QED
    BY <1>3, <1>4, <1>5, <1>6, <1>7, <1>8, StepsAreSerial DEF SerialKinds

LEMMA SInvInit == Init => SInv
  <1> SUFFICES ASSUME Init PROVE SInv
    OBVIOUS
  <1>1. PInv
    BY PInvInit
  <1>2. \A p \in Paths : mounts[p] = <<>> /\ Len(mounts[p]) = 0
    BY DEF Init
  <1>3. PendingBounded
    <2>1. ASSUME NEW g \in GlobalPaths PROVE Pending(g) \in SUBSET Workers /\ Len(mounts[g]) = 0
      BY <1>2 DEF Pending, Paths
    <2> QED
      BY <2>1, WorkerSets DEF PendingBounded
  <1> QED
    BY <1>1, <1>2, <1>3
       DEF Init, SInv, Serial, Empty, RecordSteps, OneMountPerTarget, OutIsEmpty, Paths

LEMMA SInvStep == ASSUME Reported, SInv, NodeStep PROVE SInv'
  <1>1. PInv' /\ Typed'
    BY PInvNode DEF SInv, PInv
  <1>2. Serial' /\ \A x \in Workers : Empty(x)'
    BY SerialStep, EmptyStep
  <1>3. OneMountPerTarget' /\ OutIsEmpty'
    BY TargetStep DEF OneMountPerTarget, OutIsEmpty
  <1>4. PendingBounded'
    BY <1>1, PendingStep DEF PendingBounded
  <1> QED
    BY <1>1, <1>2, <1>3, <1>4 DEF SInv

LEMMA SerialGuarantees ==
    SInv => UnpublishedStaysClean /\ OneMountPerTarget /\ GlobalMountsBounded
  <1> SUFFICES ASSUME SInv
               PROVE  UnpublishedStaysClean /\ OneMountPerTarget /\ GlobalMountsBounded
    OBVIOUS
  <1>1. ASSUME NEW t \in Targets, view[t] = "out"
        PROVE  mounts[t] = <<>> /\ \A w \in Workers : target[w] # t
    <2>1. ASSUME NEW w \in Workers PROVE target[w] # t
      <3>1. None \notin Targets
        BY PathAssumption DEF Paths
      <3> QED
        BY <1>1, <3>1 DEF SInv, Serial
    <2> QED
      BY <1>1, <2>1 DEF SInv, OutIsEmpty
  <1>2. ASSUME NEW g \in GlobalPaths
        PROVE  Len(mounts[g]) <= Cardinality(Workers)
    <2>1. mounts[g] \in Seq({"ossfs", "bare"}) /\ Len(mounts[g]) \in Nat
      BY DEF SInv, PInv, Typed, TypeOK, Paths
    <2>2. Pending(g) \in SUBSET Workers
      BY DEF Pending, SendSteps
    <2>3. Cardinality(Pending(g)) \in Nat /\ Cardinality(Workers) \in Nat
      BY <2>2, WorkerSets
    <2>4. Len(mounts[g]) + Cardinality(Pending(g)) <= Cardinality(Workers)
      BY DEF SInv, PendingBounded
    <2> QED
      BY <2>1, <2>3, <2>4
  <1>3. OneMountPerTarget
    BY DEF SInv
  <1> QED
    BY <1>1, <1>2, <1>3 DEF UnpublishedStaysClean, GlobalMountsBounded

\* While every answer reaches the kubelet and every mount table is read: a
\* target that NodeUnpublishVolume has reported as done is empty for good, for
\* any number of targets and calls and whatever commands fail.
THEOREM UnpublishedIsClean == ASSUME Reported PROVE Spec => []UnpublishedStaysClean
  <1>1. SInv /\ [Next]_vars => SInv'
    BY SInvStep DEF NodeStep
  <1> QED
    BY <1>1, SInvInit, SerialGuarantees, PTL DEF Spec

\* While every answer reaches the kubelet and every mount table is read: the
\* retries of NodePublishVolume never stack two mounts on a target.
THEOREM TargetsMountedOnce == ASSUME Reported PROVE Spec => []OneMountPerTarget
  <1>1. SInv /\ [Next]_vars => SInv'
    BY SInvStep DEF NodeStep
  <1> QED
    BY <1>1, SInvInit, SerialGuarantees, PTL DEF Spec

\* While every answer reaches the kubelet and every mount table is read: the
\* check of the global path in NodePublishVolume, though it takes no lock,
\* lets at most as many ossfs start there as calls run at once.
THEOREM GlobalMountsAreFew == ASSUME Reported PROVE Spec => []GlobalMountsBounded
  <1>1. SInv /\ [Next]_vars => SInv'
    BY SInvStep DEF NodeStep
  <1> QED
    BY <1>1, SInvInit, SerialGuarantees, PTL DEF Spec

-----------------------------------------------------------------------------
(* The node server implements the service of VolumeService.                *)
(*                                                                         *)
(* What it promises under every fault follows from PInv and AskOK; what it *)
(* promises when nothing goes unreported needs SInv, which only holds then.*)

ServiceInv == PInv /\ AskOK /\ (Reported => SInv)

LEMMA ServiceInvInit == Init => ServiceInv
  BY PInvInit, AskInit, SInvInit DEF ServiceInv

LEMMA ServiceInvStep == ServiceInv /\ NodeStep => ServiceInv'
  <1>1. Reported' = Reported
    BY DEF Reported
  <1> QED
    BY <1>1, PInvNode, AskStep, SInvStep DEF ServiceInv

LEMMA MountedAfter ==
    ASSUME TypeOK
    PROVE  /\ mounts' = mounts => Mounted' = Mounted
           /\ \A p \in Paths, layer \in {"ossfs", "bare"} : OnTop(p, layer) =>
                Mounted' = IF p \in Targets THEN Mounted \cup {p} ELSE Mounted
           /\ \A t \in Targets : mounts[t] # <<>> /\ TakeOff(t) =>
                Mounted' = Mounted \/ Mounted' = Mounted \ {t}
  <1>0. mounts \in [Paths -> Seq({"ossfs", "bare"})] /\ Targets \subseteq Paths
    BY DEF TypeOK, Paths
  <1>1. mounts' = mounts => Mounted' = Mounted
    BY DEF Mounted
  <1>2. ASSUME NEW p \in Paths, NEW layer \in {"ossfs", "bare"}, OnTop(p, layer)
        PROVE  Mounted' = IF p \in Targets THEN Mounted \cup {p} ELSE Mounted
    <2>1. /\ mounts'[p] = Append(mounts[p], layer)
          /\ \A q \in Paths \ {p} : mounts'[q] = mounts[q]
      BY <1>0, <1>2, OnTopType
    <2>2. mounts[p] \in Seq({"ossfs", "bare"})
      BY <1>0
    <2>3. mounts'[p] # <<>>
      BY <2>1, <2>2
    <2> QED
      BY <1>0, <2>1, <2>3 DEF Mounted
  <1>3. ASSUME NEW t \in Targets, mounts[t] # <<>>, TakeOff(t)
        PROVE  Mounted' = Mounted \/ Mounted' = Mounted \ {t}
    <2>1. \A q \in Paths \ {t} : mounts'[q] = mounts[q]
      BY <1>0, <1>3, TakeOffType
    <2> QED
      BY <1>0, <1>3, <2>1 DEF Mounted
  <1> QED
    BY <1>1, <1>2, <1>3

\* An answer to a call is Published, Unpublished or, if it is an error or nobody
\* waits for it, nothing but the mount or umount that came with it.
LEMMA AnswerIsServed ==
    ASSUME ServiceInv, ServiceInv', NEW w \in Workers, Answers(w)
    PROVE  [Service!Next]_(Service!serviceVars)
  <1> DEFINE t == target[w]
  <1>0. /\ PInv /\ Typed /\ TypeOK /\ LocalsOK /\ CallOK /\ AskOK
        /\ Reported => Serial /\ OutIsEmpty'
    BY DEF ServiceInv, PInv, Typed, SInv
  <1>1. /\ pc[w] # "idle" /\ t \in Targets /\ t \in Paths
        /\ view[t] # "never"
        /\ waiting[w] => view[t] = "unsure"
        /\ pc[w] \in UnpublishSteps => pod[t] = "deleted" /\ view[t] # "in"
        /\ Reported => waiting[w]
    BY <1>0 DEF Answers, LocalsOK, CallOK, AskOK, Serial, Paths
  <1>2. PICK v \in {"unsure", "in", "out"} :
          /\ Return(w, v)
          /\ \/ /\ mounts' = mounts
                /\ v = "in" => mounts[t] # <<>> \/ pod[t] = "deleted"
                /\ v = "out" => pc[w] \in UnpublishSteps
             \/ /\ pc[w] = "pubBind" /\ v = "in"
                /\ \E layer \in {"ossfs", "bare"} : OnTop(t, layer)
             \/ /\ pc[w] = "unpRun" /\ v = "out"
                /\ mounts[t] # <<>> /\ TakeOff(t)
    BY DEF Answers
  <1>3. pod' = pod /\ view' = IF waiting[w] THEN [view EXCEPT ![t] = v] ELSE view
    BY <1>0, <1>1, <1>2, ReturnType
  <1>4. view \in [Targets -> {"never", "unsure", "in", "out"}]
    BY <1>0 DEF TypeOK
  <1> HIDE DEF t
  <1>5. \/ /\ Mounted' = Mounted
           /\ v = "in" => t \in Mounted \/ pod[t] = "deleted"
           /\ v = "out" => pod[t] = "deleted"
        \/ v = "in" /\ Mounted' = Mounted \cup {t}
        \/ /\ v = "out" /\ pod[t] = "deleted" /\ view[t] # "in"
           /\ Mounted' = Mounted \/ Mounted' = Mounted \ {t}
    <2>1. CASE /\ mounts' = mounts
               /\ v = "in" => mounts[t] # <<>> \/ pod[t] = "deleted"
               /\ v = "out" => pc[w] \in UnpublishSteps
      BY <1>0, <1>1, <2>1, MountedAfter DEF Mounted
    <2>2. CASE v = "in" /\ \E layer \in {"ossfs", "bare"} : OnTop(t, layer)
      BY <1>0, <1>1, <2>2, MountedAfter
    <2>3. CASE pc[w] = "unpRun" /\ v = "out" /\ mounts[t] # <<>> /\ TakeOff(t)
      BY <1>0, <1>1, <2>3, MountedAfter DEF UnpublishSteps
    <2> QED
      BY <1>2, <2>1, <2>2, <2>3
  <1>6. CASE waiting[w] /\ v = "unsure"
    BY <1>1, <1>3, <1>4, <1>5, <1>6 DEF Service!serviceVars
  <1>7. CASE waiting[w] /\ v = "in"
    <2>1. Service!Published(t)
      BY <1>1, <1>3, <1>5, <1>7 DEF Service!Published, Service!Learns
    <2> QED
      BY <1>1, <2>1 DEF Service!Next
  <1>8. CASE waiting[w] /\ v = "out"
    <2>1. view'[t] = "out"
      BY <1>1, <1>3, <1>4, <1>8
    <2>2. Reported => t \notin Mounted'
      BY <1>0, <1>1, <2>1 DEF OutIsEmpty, Mounted
    <2>3. Service!Unpublished(t)
      BY <1>1, <1>3, <1>5, <1>8, <2>2 DEF Service!Unpublished, Service!Learns
    <2> QED
      BY <1>1, <2>3 DEF Service!Next
  <1>9. CASE ~waiting[w]
    <2>1. CASE Mounted' = Mounted
      BY <1>3, <1>9, <2>1 DEF Service!serviceVars
    <2>2. CASE v = "in" /\ Mounted' = Mounted \cup {t}
      <3>1. Service!Mount(t)
        BY <1>1, <1>3, <1>9, <2>2 DEF Service!Mount
      <3> QED
        BY <1>1, <3>1 DEF Service!Next
    <2>3. CASE pod[t] = "deleted" /\ view[t] # "in" /\ Mounted' = Mounted \ {t}
      <3>1. Service!Unmount(t)
        BY <1>1, <1>3, <1>9, <2>3 DEF Service!Unmount
      <3> QED
        BY <1>1, <3>1 DEF Service!Next
    <2> QED
      BY <1>5, <2>1, <2>2, <2>3
  <1> QED
    BY <1>6, <1>7, <1>8, <1>9

\* A mount command mounts for a target that was asked for; when nothing goes
\* unreported, for one whose call is still waited for.
LEMMA CommandIsServed ==
    ASSUME ServiceInv, Commands
    PROVE  [Service!Next]_(Service!serviceVars)
  <1>0. /\ TypeOK /\ LocalsOK /\ AskOK
        /\ Reported => Serial
    BY DEF ServiceInv, PInv, Typed, SInv
  <1>1. CASE mounts' = mounts
    BY <1>0, <1>1, MountedAfter DEF Commands, Service!serviceVars
  <1>2. ASSUME NEW p \in Paths, Commanded(p), OnTop(p, "ossfs")
        PROVE  [Service!Next]_(Service!serviceVars)
    <2>1. Mounted' = IF p \in Targets THEN Mounted \cup {p} ELSE Mounted
      BY <1>0, <1>2, MountedAfter
    <2>2. CASE p \in Targets
      <3>1. orphans[p] > 0 \/ \E x \in Workers : pc[x] # "idle" /\ target[x] = p
        BY <1>0, <1>2, <2>2, PathAssumption DEF Commanded, LocalsOK
      <3>2. view[p] # "never"
        BY <1>0, <2>2, <3>1 DEF AskOK
      <3>3. Reported => view[p] = "unsure"
        BY <1>0, <1>2, <3>1 DEF Serial
      <3>4. Service!Mount(p)
        BY <2>1, <2>2, <3>2, <3>3 DEF Commands, Service!Mount
      <3> QED
        BY <2>2, <3>4 DEF Service!Next
    <2>3. CASE p \notin Targets
      BY <2>1, <2>3 DEF Commands, Service!serviceVars
    <2> QED
      BY <2>2, <2>3
  <1> QED
    BY <1>1, <1>2 DEF Commands

LEMMA StepIsServed ==
    ASSUME ServiceInv, NodeStep
    PROVE  [Service!Next]_(Service!serviceVars)
  <1>0. PInv /\ TypeOK /\ ServiceInv'
    BY ServiceInvStep DEF ServiceInv, PInv, Typed
  <1>1. ASSUME NEW w \in Workers, NEW t \in Targets, Asks(w, t)
        PROVE  [Service!Next]_(Service!serviceVars)
    <2>1. Mounted' = Mounted
      BY <1>0, <1>1, MountedAfter DEF Asks, Call, host
    <2>2. Service!Ask(t)
      BY <1>1, <2>1 DEF Asks, Call, Service!Ask, Service!Learns
    <2> QED
      BY <2>2 DEF Service!Next
  <1>2. ASSUME UNCHANGED <<pod, view, mounts>>
        PROVE  [Service!Next]_(Service!serviceVars)
    BY <1>0, <1>2, MountedAfter DEF Service!serviceVars
  <1>3. ASSUME NEW t \in Targets, mounts' = mounts,
               \/ pod[t] = "none" /\ pod' = [pod EXCEPT ![t] = "bound"] /\ view' = view
               \/ pod[t] = "bound" /\ pod' = [pod EXCEPT ![t] = "deleted"] /\ view' = view
               \/ view[t] = "in" /\ view' = [view EXCEPT ![t] = "unsure"] /\ pod' = pod
        PROVE  [Service!Next]_(Service!serviceVars)
    <2>1. Mounted' = Mounted
      BY <1>0, <1>3, MountedAfter
    <2>2. Service!PodBound(t) \/ Service!PodDeleted(t) \/ Service!Forget(t)
      BY <1>3, <2>1
         DEF Service!PodBound, Service!PodDeleted, Service!Forget, Service!Learns
    <2> QED
      BY <2>2 DEF Service!Next
  <1> QED
    BY <1>0, <1>1, <1>2, <1>3, StepsHaveKinds, AnswerIsServed, CommandIsServed
       DEF Kinds, Moves, Abandons, PodsChange

LEMMA InitIsServed == Init => Service!Init
  BY DEF Init, Service!Init, Mounted, Paths

\* For any number of targets and calls, NodePublishVolume and
\* NodeUnpublishVolume implement the service of VolumeService: under every
\* fault, what is mounted, taken away and answered is what it allows, and
\* when every answer arrives and every mount table is read, also what only
\* its reliable form promises.
THEOREM ImplementsService == Spec => ServiceSpec
  <1>1. ServiceInv /\ [Next]_vars => ServiceInv'
    BY ServiceInvStep DEF NodeStep
  <1>2. ServiceInv /\ [Next]_vars => [Service!Next]_(Service!serviceVars)
    BY StepIsServed DEF NodeStep
  <1> QED
    BY <1>1, <1>2, ServiceInvInit, InitIsServed, PTL DEF Spec, ServiceSpec, Service!Spec
=============================================================================
