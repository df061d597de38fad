----------------------------- MODULE OssNodeProofs -----------------------------
(***************************************************************************)
(* Proofs about OssNode, for any number of targets, volumes and calls.     *)
(***************************************************************************)
EXTENDS OssNode, SequenceTheorems, FiniteSetTheorems, TLAPS

RecordSteps == {"podLook", "podOpen", "podWrite", "mountLook", "mountOpen", "mountWrite"}

\* The locals of a call are set when the step that uses them is reached.
LocalsOK ==
    /\ \A w \in Workers :
         /\ pc[w] # "idle" => target[w] \in Targets
         /\ waiting[w] => pc[w] # "idle"
         /\ pc[w] \in {"pubCreate", "podLook", "podOpen", "podWrite", "mountLook",
                      "mountOpen", "mountWrite", "pubSend", "pubWait"} =>
              path[w] \in GlobalPaths \cup {target[w]}
         /\ pc[w] = "pubBind" => path[w] \in GlobalPaths
         /\ job[w] # "none" => pc[w] = "pubWait"

Typed == TypeOK /\ LocalsOK

-----------------------------------------------------------------------------
LEMMA OnTopType ==
    ASSUME mounts \in [Paths -> Seq({"ossfs", "bare"})],
           NEW p \in Paths, NEW layer \in {"ossfs", "bare"}, OnTop(p, layer)
    PROVE  /\ mounts' \in [Paths -> Seq({"ossfs", "bare"})]
           /\ mounts'[p] = Append(mounts[p], layer)
           /\ \A q \in Paths \ {p} : mounts'[q] = mounts[q]
  BY DEF OnTop

\* umount takes the last element off.
LEMMA ButLast ==
    ASSUME NEW S, NEW s \in Seq(S), s # <<>>
    PROVE  /\ SubSeq(s, 1, Len(s) - 1) \in Seq(S)
           /\ Len(SubSeq(s, 1, Len(s) - 1)) = Len(s) - 1
           /\ \A i \in 1 .. Len(s) - 1 : SubSeq(s, 1, Len(s) - 1)[i] = s[i]
  <1>1. Len(s) \in Nat /\ Len(s) > 0
    OBVIOUS
  <1>2. PICK n \in Nat : Len(s) = n + 1
    BY <1>1
  <1>3. \A i \in 1 .. n : s[i] \in S
    BY <1>2, ElementOfSeq
  <1>4. /\ SubSeq(s, 1, n) \in Seq(S)
        /\ Len(SubSeq(s, 1, n)) = IF 1 <= n THEN n - 1 + 1 ELSE 0
        /\ \A i \in 1 .. n - 1 + 1 : SubSeq(s, 1, n)[i] = s[1 + i - 1]
    BY <1>3, SubSeqProperties
  <1>5. Len(SubSeq(s, 1, n)) = n
    BY <1>2, <1>4
  <1>6. ASSUME NEW i \in 1 .. n PROVE SubSeq(s, 1, n)[i] = s[i]
    <2>1. i \in 1 .. n - 1 + 1 /\ 1 + i - 1 = i
      BY <1>2, <1>6
    <2> QED
      BY <1>4, <2>1
  <1>7. Len(s) - 1 = n
    BY <1>2
  <1> QED
    BY <1>4, <1>5, <1>6, <1>7

LEMMA TakeOffType ==
    ASSUME mounts \in [Paths -> Seq({"ossfs", "bare"})],
           NEW p \in Paths, mounts[p] # <<>>, TakeOff(p)
    PROVE  /\ mounts' \in [Paths -> Seq({"ossfs", "bare"})]
           /\ Len(mounts'[p]) = Len(mounts[p]) - 1
           /\ \A i \in 1 .. Len(mounts[p]) - 1 : mounts'[p][i] = mounts[p][i]
           /\ \A q \in Paths \ {p} : mounts'[q] = mounts[q]
  <1>1. mounts' = [mounts EXCEPT ![p] = SubSeq(mounts[p], 1, Len(mounts[p]) - 1)]
    BY DEF TakeOff
  <1>2. mounts[p] \in Seq({"ossfs", "bare"})
    OBVIOUS
  <1> QED
    BY <1>1, <1>2, ButLast

\* A call that ends leaves its worker idle, and at most one view changed.
LEMMA ReturnType ==
    ASSUME Typed, NEW w \in Workers, pc[w] # "idle",
           NEW v \in {"unsure", "in", "out"}, Return(w, v)
    PROVE  /\ pod' = pod /\ globalDir' = globalDir
           /\ view' \in [Targets -> {"never", "unsure", "in", "out"}]
           /\ target' \in [Workers -> Targets \cup {None}]
           /\ waiting' \in [Workers -> BOOLEAN]
           /\ path' \in [Workers -> Paths \cup {None}]
           /\ umount' \in [Workers -> {"plain", "force", "both"}]
           /\ pc' \in [Workers -> {"idle"} \cup PublishSteps \cup UnpublishSteps]
           /\ pc'[w] = "idle" /\ ~waiting'[w]
           /\ \A x \in Workers \ {w} :
                /\ pc'[x] = pc[x] /\ target'[x] = target[x]
                /\ waiting'[x] = waiting[x] /\ path'[x] = path[x]
           /\ view' = IF waiting[w] THEN [view EXCEPT ![target[w]] = v] ELSE view
  BY DEF Return, Typed, TypeOK

LEMMA BudgetType ==
    ASSUME budget \in Nat, NEW kind, Fault(kind) \/ NoFault
    PROVE  budget' \in Nat
  BY DEF Fault, NoFault

-----------------------------------------------------------------------------
(* Types. *)

LEMMA TypedInit == Init => Typed
  BY FaultAssumption
     DEF Init, Typed, TypeOK, LocalsOK, Records, PublishSteps, UnpublishSteps

LEMMA IsOssfsMountedBudget ==
    ASSUME budget \in Nat, NEW p, NEW answer, IsOssfsMounted(p, answer)
    PROVE  budget' \in Nat
  BY DEF IsOssfsMounted, Fault, NoFault

\* A call that ends, with nothing else changed but what is named here, keeps
\* the types.
LEMMA ReturnTyped ==
    ASSUME Typed, NEW w \in Workers, pc[w] # "idle",
           NEW v \in {"unsure", "in", "out"}, Return(w, v),
           mounts' \in [Paths -> Seq({"ossfs", "bare"})],
           metrics' \in Records,
           orphans' \in [Paths -> Nat],
           budget' \in Nat,
           job' = [job EXCEPT ![w] = "none"]
    PROVE  Typed'
  <1>1. /\ pod' = pod /\ globalDir' = globalDir
        /\ view' \in [Targets -> {"never", "unsure", "in", "out"}]
        /\ target' \in [Workers -> Targets \cup {None}]
        /\ waiting' \in [Workers -> BOOLEAN]
        /\ path' \in [Workers -> Paths \cup {None}]
        /\ umount' \in [Workers -> {"plain", "force", "both"}]
        /\ pc' \in [Workers -> {"idle"} \cup PublishSteps \cup UnpublishSteps]
    BY ReturnType
  <1>2. /\ pc'[w] = "idle" /\ ~waiting'[w]
        /\ \A x \in Workers \ {w} :
             /\ pc'[x] = pc[x] /\ target'[x] = target[x]
             /\ waiting'[x] = waiting[x] /\ path'[x] = path[x]
    BY ReturnType
  <1>3. TypeOK'
    BY <1>1 DEF Typed, TypeOK
  <1>4. LocalsOK'
    BY <1>2 DEF Typed, TypeOK, LocalsOK
  <1> QED
    BY <1>3, <1>4 DEF Typed

\* A call that moves on, with a new choice of path and umount command at
\* most, keeps the types.
LEMMA MoveTyped ==
    ASSUME Typed, NEW w \in Workers, pc[w] # "idle", job[w] = "none",
           NEW s \in (PublishSteps \cup UnpublishSteps) \ {"pubWait"},
           NEW p \in Paths \cup {None},
           s \in {"pubCreate", "pubSend"} \cup RecordSteps => p \in GlobalPaths \cup {target[w]},
           s = "pubBind" => p \in GlobalPaths,
           GoTo(w, s),
           path' = [path EXCEPT ![w] = p],
           umount' \in [Workers -> {"plain", "force", "both"}],
           metrics' \in Records,
           budget' \in Nat,
           UNCHANGED <<kubelet, mounts, orphans, target, waiting, job>>
    PROVE  Typed'
  <1> USE DEF kubelet, host, GoTo
  <1>1. pc' \in [Workers -> {"idle"} \cup PublishSteps \cup UnpublishSteps]
    BY DEF Typed, TypeOK
  <1>2. TypeOK'
    BY <1>1 DEF Typed, TypeOK
  <1>3. /\ pc'[w] = s /\ path'[w] = p
        /\ \A x \in Workers \ {w} : pc'[x] = pc[x] /\ path'[x] = path[x]
    BY DEF Typed, TypeOK
  <1>4. LocalsOK'
    BY <1>3 DEF Typed, LocalsOK, RecordSteps, PublishSteps, UnpublishSteps
  <1> QED
    BY <1>2, <1>4 DEF Typed

\* What WriteMetricsInfo leaves alone, whatever it does to its records.
LEMMA RecordMoves ==
    ASSUME NEW w \in Workers, WriteMetricsInfo(w)
    PROVE  /\ pc[w] \in RecordSteps
           /\ \E s \in RecordSteps \cup {"pubSend"} : GoTo(w, s)
           /\ UNCHANGED <<kubelet, calls, mounts, orphans, job>>
  <1>1. PICK f \in RecordFiles : LookForRecord(w, f) \/ OpenRecord(w, f) \/ WriteRecord(w, f)
    BY DEF WriteMetricsInfo
  <1>2. /\ {LookStep[f], OpenStep[f], WriteStep[f]} \subseteq RecordSteps
        /\ AfterRecord[f] \in RecordSteps \cup {"pubSend"}
    BY DEF RecordFiles, RecordSteps, LookStep, OpenStep, WriteStep, AfterRecord
  <1>3. CASE LookForRecord(w, f)
    BY <1>2, <1>3 DEF LookForRecord, host
  <1>4. CASE OpenRecord(w, f)
    BY <1>2, <1>4 DEF OpenRecord
  <1>5. CASE WriteRecord(w, f)
    BY <1>2, <1>5 DEF WriteRecord
  <1> QED
    BY <1>1, <1>3, <1>4, <1>5

LEMMA RecordTypes ==
    ASSUME TypeOK, NEW w \in Workers, target[w] \in Targets, WriteMetricsInfo(w)
    PROVE  /\ budget' \in Nat
           /\ metrics' \in Records
  <1>1. PICK f \in RecordFiles : LookForRecord(w, f) \/ OpenRecord(w, f) \/ WriteRecord(w, f)
    BY DEF WriteMetricsInfo
  <1>3. \A s \in {"absent", "empty", "torn", "full"} :
          [metrics EXCEPT ![target[w]][f] = s] \in Records
    BY DEF TypeOK, Records
  <1>4. metrics[target[w]][f] \in {"absent", "empty", "torn", "full"}
    BY DEF TypeOK, Records
  <1>5. budget' \in Nat
    BY <1>1 DEF LookForRecord, OpenRecord, WriteRecord, Fault, NoFault, TypeOK
  <1>6. metrics' = metrics \/ \E s \in {"absent", "empty", "torn", "full"} :
          metrics' = [metrics EXCEPT ![target[w]][f] = s]
    BY <1>1, <1>4 DEF LookForRecord, OpenRecord, WriteRecord, host
  <1> QED
    BY <1>3, <1>5, <1>6 DEF TypeOK

LEMMA TypedStep == Typed /\ [Next]_vars => Typed'
  <1> SUFFICES ASSUME Typed, [Next]_vars PROVE Typed'
    OBVIOUS
  <1>0. TypeOK /\ LocalsOK
    BY DEF Typed
  <1> USE DEF kubelet, host, calls, GoTo, NoFault
  <1>idle. ASSUME NEW w \in Workers, pc[w] # "pubWait"
           PROVE  job[w] = "none" /\ job = [job EXCEPT ![w] = "none"]
    BY <1>0, <1>idle DEF LocalsOK, TypeOK
  <1>1. ASSUME NEW w \in Workers, PubCheck(w) PROVE Typed'
    <2>1. budget' \in Nat
      BY <1>0, <1>1, IsOssfsMountedBudget DEF PubCheck, TypeOK
    <2>2. CASE Return(w, "in")
      BY <1>0, <1>1, <1>idle, <2>1, <2>2, ReturnTyped DEF PubCheck, TypeOK
    <2>3. CASE GoTo(w, "pubSave") /\ UNCHANGED <<kubelet, calls>>
      BY <1>0, <1>1, <2>1, <2>3
         DEF PubCheck, Typed, TypeOK, LocalsOK, PublishSteps
    <2> QED
      BY <1>1, <2>2, <2>3 DEF PubCheck
  <1>2. ASSUME NEW w \in Workers, PubSave(w) PROVE Typed'
    <2> DEFINE PubSaveShared ==
                 /\ GoTo(w, "pubShared") /\ path' = path
                 /\ NoFault /\ UNCHANGED <<kubelet, target, waiting, umount>>
               PubSaveSingle ==
                 /\ GoTo(w, "pubCreate") /\ path' = [path EXCEPT ![w] = target[w]]
                 /\ NoFault /\ UNCHANGED <<kubelet, target, waiting, umount>>
    <2>1. CASE Fault("credential") /\ ReturnError(w)
      <3>1. budget' \in Nat
        BY <1>0, <2>1 DEF Fault, TypeOK
      <3> QED
        BY <1>0, <1>2, <1>idle, <2>1, <3>1, ReturnTyped
           DEF PubSave, ReturnError, TypeOK
    <2>2. target[w] \in Targets
      BY <1>0, <1>2 DEF PubSave, LocalsOK
    <2>3. CASE PubSaveShared
      <3>1. path' = [path EXCEPT ![w] = path[w]] /\ path[w] \in Paths \cup {None}
        BY <1>0, <2>3 DEF TypeOK
      <3>2. budget' \in Nat /\ umount' \in [Workers -> {"plain", "force", "both"}]
        BY <1>0, <2>3 DEF TypeOK
      <3>3. metrics' \in Records
        BY <1>0, <1>2 DEF PubSave, TypeOK
      <3> QED
        BY <1>2, <1>idle, <2>3, <3>1, <3>2, <3>3, MoveTyped
           DEF PubSave, PublishSteps, RecordSteps
    <2>4. CASE PubSaveSingle
      <3>1. budget' \in Nat /\ umount' \in [Workers -> {"plain", "force", "both"}]
        BY <1>0, <2>4 DEF TypeOK
      <3>2. metrics' \in Records
        BY <1>0, <1>2 DEF PubSave, TypeOK
      <3> QED
        BY <1>2, <1>idle, <2>2, <2>4, <3>1, <3>2, MoveTyped
           DEF PubSave, PublishSteps, Paths
    <2> QED
      BY <1>2, <2>1, <2>3, <2>4 DEF PubSave
  <1>3. ASSUME NEW w \in Workers, PubShared(w) PROVE Typed'
    <2>1. GetGlobalMountPath(VolumeOf[target[w]]) \in GlobalPaths
      BY <1>0, <1>3, VolumeAssumption
         DEF PubShared, LocalsOK, GetGlobalMountPath, GlobalPaths
    <2>2. budget' \in Nat
      BY <1>0, <1>3, IsOssfsMountedBudget DEF PubShared, TypeOK
    <2> QED
      <3>1. umount' \in [Workers -> {"plain", "force", "both"}]
        BY <1>0, <1>3 DEF PubShared, TypeOK
      <3>2. metrics' \in Records
        BY <1>0, <1>3 DEF PubShared, TypeOK
      <3> QED
        BY <1>3, <1>idle, <2>1, <2>2, <3>1, <3>2, MoveTyped
           DEF PubShared, PublishSteps, Paths
  <1>4. ASSUME NEW w \in Workers, PubCreate(w) PROVE Typed'
    <2>1. budget' \in Nat
      BY <1>0, <1>4 DEF PubCreate, Fault, TypeOK
    <2>2. target[w] \in Targets
      BY <1>0, <1>4 DEF PubCreate, LocalsOK
    <2>3. CASE ReturnError(w)
      BY <1>0, <1>4, <1>idle, <2>1, <2>3, ReturnTyped
         DEF PubCreate, ReturnError, TypeOK
    <2>4. ASSUME NEW s \in {"podLook", "pubSend"}, GoTo(w, s), UNCHANGED <<kubelet, calls>>
          PROVE  Typed'
      <3>1. path[w] \in GlobalPaths \cup {target[w]} /\ path' = [path EXCEPT ![w] = path[w]]
        BY <1>0, <1>4, <2>4 DEF PubCreate, LocalsOK, TypeOK
      <3>2. /\ umount' \in [Workers -> {"plain", "force", "both"}]
            /\ metrics' \in Records
        BY <1>0, <1>4, <2>4 DEF PubCreate, TypeOK
      <3> QED
        BY <1>4, <1>idle, <2>1, <2>2, <2>4, <3>1, <3>2, MoveTyped
           DEF PubCreate, PublishSteps, Paths
    <2> QED
      BY <1>4, <2>3, <2>4 DEF PubCreate
  <1>23. ASSUME NEW w \in Workers, WriteMetricsInfo(w) PROVE Typed'
    <2>1. PICK s \in RecordSteps \cup {"pubSend"} : GoTo(w, s)
      BY <1>23, RecordMoves
    <2>2. /\ pc[w] \in RecordSteps
          /\ UNCHANGED <<kubelet, calls, mounts, orphans, job>>
      BY <1>23, RecordMoves
    <2>3. target[w] \in Targets /\ path[w] \in GlobalPaths \cup {target[w]}
      BY <1>0, <2>2 DEF LocalsOK, RecordSteps
    <2>4. /\ budget' \in Nat
          /\ metrics' \in Records
      BY <1>0, <1>23, <2>3, RecordTypes
    <2>5. /\ path' = [path EXCEPT ![w] = path[w]]
          /\ umount' \in [Workers -> {"plain", "force", "both"}]
      BY <1>0, <2>2 DEF TypeOK
    <2>6. pc[w] # "idle" /\ pc[w] # "pubWait"
      BY <2>2 DEF RecordSteps
    <2> QED
      BY <1>idle, <2>1, <2>2, <2>3, <2>4, <2>5, <2>6, MoveTyped
         DEF PublishSteps, RecordSteps, Paths
  <1>5. ASSUME NEW w \in Workers, PubSend(w) PROVE Typed'
    <2>1. budget' \in Nat
      BY <1>0, <1>5 DEF PubSend, Fault, TypeOK
    <2>2. CASE ReturnError(w) /\ UNCHANGED job
      BY <1>0, <1>5, <1>idle, <2>1, <2>2, ReturnTyped
         DEF PubSend, ReturnError, TypeOK
    <2>3. CASE /\ GoTo(w, "pubWait") /\ job' = [job EXCEPT ![w] = "sent"]
               /\ UNCHANGED <<kubelet, calls>>
      BY <1>0, <1>5, <2>1, <2>3
         DEF PubSend, Typed, TypeOK, LocalsOK, PublishSteps
    <2> QED
      BY <1>5, <2>2, <2>3 DEF PubSend
  <1>6. ASSUME NEW w \in Workers, PubAnswer(w) PROVE Typed'
    <2>1. CASE Return(w, "in") \/ Return(w, "unsure")
      BY <1>0, <1>6, <2>1, ReturnTyped DEF PubAnswer, TypeOK
    <2>2. CASE path[w] # target[w] /\ GoTo(w, "pubBind") /\ UNCHANGED <<kubelet, calls>>
      BY <1>0, <1>6, <2>2
         DEF PubAnswer, Typed, TypeOK, LocalsOK, PublishSteps
    <2> QED
      BY <1>6, <2>1, <2>2 DEF PubAnswer, ReturnError
  <1>7. ASSUME NEW w \in Workers, PubAnswerLost(w) PROVE Typed'
    <2>1. budget' \in Nat
      BY <1>0, <1>7 DEF PubAnswerLost, Fault, TypeOK
    <2>2. orphans' \in [Paths -> Nat]
      <3>1. path[w] \in Paths /\ orphans[path[w]] + 1 \in Nat
        BY <1>0, <1>7 DEF PubAnswerLost, LocalsOK, TypeOK, Paths
      <3> QED
        BY <1>0, <1>7, <3>1 DEF PubAnswerLost, TypeOK
    <2> QED
      BY <1>0, <1>7, <2>1, <2>2, ReturnTyped
         DEF PubAnswerLost, ReturnError, TypeOK
  <1>8. ASSUME NEW w \in Workers, PubBind(w) PROVE Typed'
    <2>1. budget' \in Nat
      BY <1>0, <1>8 DEF PubBind, Fault, TypeOK
    <2>2. target[w] \in Paths
      BY <1>0, <1>8 DEF PubBind, LocalsOK, Paths
    <2>3. mounts' \in [Paths -> Seq({"ossfs", "bare"})]
      BY <1>0, <1>8, <2>2, OnTopType DEF PubBind, TypeOK
    <2> QED
      BY <1>0, <1>8, <1>idle, <2>1, <2>3, ReturnTyped
         DEF PubBind, ReturnError, TypeOK
  <1>9. ASSUME NEW w \in Workers, JobMount(w) PROVE Typed'
    <2>1. path[w] \in Paths
      BY <1>0, <1>9 DEF JobMount, LocalsOK, Paths
    <2>2. mounts' \in [Paths -> Seq({"ossfs", "bare"})]
      BY <1>0, <1>9, <2>1, OnTopType DEF JobMount, TypeOK
    <2> QED
      BY <1>0, <1>9, <2>2 DEF JobMount, Typed, TypeOK, LocalsOK
  <1>10. ASSUME NEW w \in Workers, JobFail(w) PROVE Typed'
    <2>1. budget' \in Nat
      BY <1>0, <1>10 DEF JobFail, Fault, TypeOK
    <2> QED
      BY <1>0, <1>10, <2>1 DEF JobFail, Typed, TypeOK, LocalsOK
  <1>11. ASSUME NEW p \in Paths, OrphanMount(p) \/ OrphanFail(p) PROVE Typed'
    <2>1. budget' \in Nat
      BY <1>0, <1>11 DEF OrphanMount, OrphanFail, Fault, TypeOK
    <2>2. mounts' \in [Paths -> Seq({"ossfs", "bare"})]
      BY <1>0, <1>11, OnTopType DEF OrphanMount, OrphanFail, TypeOK
    <2>3. orphans' \in [Paths -> Nat]
      <3>1. orphans[p] - 1 \in Nat
        BY <1>0, <1>11 DEF OrphanMount, OrphanFail, TypeOK
      <3>2. orphans' = [orphans EXCEPT ![p] = orphans[p] - 1]
        BY <1>11 DEF OrphanMount, OrphanFail
      <3> QED
        BY <1>0, <3>1, <3>2 DEF TypeOK
    <2> QED
      BY <1>0, <1>11, <2>1, <2>2, <2>3
         DEF OrphanMount, OrphanFail, Typed, TypeOK, LocalsOK
  <1>12. ASSUME NEW w \in Workers, UnpCheck(w) PROVE Typed'
    <2>1. budget' \in Nat
      BY <1>0, <1>12, IsOssfsMountedBudget DEF UnpCheck, TypeOK
    <2>2. CASE Return(w, "out")
      BY <1>0, <1>12, <1>idle, <2>1, <2>2, ReturnTyped DEF UnpCheck, TypeOK
    <2>3. CASE GoTo(w, "unpShared") /\ UNCHANGED <<kubelet, calls>>
      BY <1>0, <1>12, <2>1, <2>3
         DEF UnpCheck, Typed, TypeOK, LocalsOK, UnpublishSteps
    <2> QED
      BY <1>12, <2>2, <2>3 DEF UnpCheck
  <1>13. ASSUME NEW w \in Workers, UnpShared(w) PROVE Typed'
    <2>1. GetGlobalMountPath(VolumeOf[target[w]]) \in Paths
      BY <1>0, <1>13, VolumeAssumption
         DEF UnpShared, LocalsOK, GetGlobalMountPath, GlobalPaths, Paths
    <2>2. budget' \in Nat
      BY <1>0, <1>13, IsOssfsMountedBudget DEF UnpShared, TypeOK
    <2>3. /\ pc[w] = "unpShared"
          /\ UNCHANGED <<kubelet, target, waiting, host, job>>
          /\ \/ /\ GoTo(w, "unpCount") /\ UNCHANGED umount
                /\ path' = [path EXCEPT ![w] = GetGlobalMountPath(VolumeOf[target[w]])]
             \/ /\ GoTo(w, "unpRun") /\ UNCHANGED path
                /\ umount' = [umount EXCEPT ![w] = "force"]
      BY <1>13 DEF UnpShared
    <2>4. TypeOK'
      BY <1>0, <2>1, <2>2, <2>3 DEF TypeOK, UnpublishSteps
    <2>5. LocalsOK'
      BY <1>0, <2>3 DEF TypeOK, LocalsOK
    <2> QED
      BY <2>4, <2>5 DEF Typed
  <1>14. ASSUME NEW w \in Workers, UnpCount(w) PROVE Typed'
    <2>1. budget' \in Nat
      BY <1>0, <1>14 DEF UnpCount, Fault, TypeOK
    <2>2. CASE ReturnError(w)
      BY <1>0, <1>14, <1>idle, <2>1, <2>2, ReturnTyped
         DEF UnpCount, ReturnError, TypeOK
    <2>3. CASE GoTo(w, "unpRun") /\ UNCHANGED <<kubelet, target, waiting, path>>
      <3>1. umount' \in [Workers -> {"plain", "force", "both"}]
        BY <1>0, <1>14, <2>3 DEF UnpCount, TypeOK, ReturnError, Return
      <3> QED
        BY <1>0, <1>14, <2>1, <2>3, <3>1
           DEF UnpCount, Typed, TypeOK, LocalsOK, UnpublishSteps
    <2> QED
      BY <1>14, <2>2, <2>3 DEF UnpCount
  <1>15. ASSUME NEW w \in Workers, UnpRun(w) PROVE Typed'
    <2>1. budget' \in Nat
      BY <1>0, <1>15 DEF UnpRun, Fault, TypeOK
    <2>2. target[w] \in Paths
      BY <1>0, <1>15 DEF UnpRun, LocalsOK, Paths
    <2>3. mounts' \in [Paths -> Seq({"ossfs", "bare"})]
      BY <1>0, <1>15, <2>2, TakeOffType DEF UnpRun, TypeOK
    <2> QED
      BY <1>0, <1>15, <1>idle, <2>1, <2>3, ReturnTyped
         DEF UnpRun, ReturnError, TypeOK
  <1>16. ASSUME NEW t \in Targets, PodBound(t) \/ PodDeleted(t) PROVE Typed'
    <2>1. pod' \in [Targets -> {"none", "bound", "deleted"}]
      BY <1>0, <1>16 DEF PodBound, PodDeleted, TypeOK
    <2>2. UNCHANGED <<view, globalDir, host, pc, calls, job, budget>>
      BY <1>16 DEF PodBound, PodDeleted
    <2> QED
      BY <1>0, <2>1, <2>2 DEF Typed, TypeOK, LocalsOK
  <1>17. ASSUME NEW t \in Targets, KubeletCalls(t) PROVE Typed'
    <2>1. PICK w \in Workers, s \in {"pubCheck", "unpCheck"} : Call(w, t, s)
      BY <1>17 DEF KubeletCalls, CallPublish, CallUnpublish
    <2>2. job[w] = "none"
      BY <1>idle, <2>1 DEF Call
    <2> QED
      BY <1>0, <2>1, <2>2
         DEF Call, Typed, TypeOK, LocalsOK, PublishSteps, UnpublishSteps
  <1>18. ASSUME NEW w \in Workers, GiveUp(w) PROVE Typed'
    BY <1>0, <1>18 DEF GiveUp, Fault, Typed, TypeOK, LocalsOK
  <1>19. ASSUME NEW t \in Targets, KubeletForgets(t) PROVE Typed'
    BY <1>0, <1>19 DEF KubeletForgets, Fault, Typed, TypeOK, LocalsOK
  <1>20. CASE Restart
    <2>1. \A p \in Paths :
            Cardinality({w \in Workers : job[w] = "sent" /\ path[w] = p}) \in Nat
      BY WorkersAssumption, FS_Subset, FS_CardinalityType
    <2> DEFINE sent(p) == Cardinality({w \in Workers : job[w] = "sent" /\ path[w] = p})
    <2>2. orphans' \in [Paths -> Nat]
      <3>1. orphans' = [p \in Paths |-> orphans[p] + sent(p)]
        BY <1>20 DEF Restart
      <3>2. \A p \in Paths : sent(p) \in Nat /\ orphans[p] \in Nat
        BY <1>0, <2>1 DEF TypeOK
      <3> HIDE DEF sent
      <3> QED
        BY <3>1, <3>2
    <2> QED
      <3>1. metrics' \in Records
        BY <1>0, <1>20 DEF Restart, TypeOK, Records
      <3> QED
        BY <1>0, <1>20, <2>2, <3>1 DEF Restart, Fault, Typed, TypeOK, LocalsOK
  <1>21. ASSUME NEW v \in Volumes, GlobalDirAppears(v) PROVE Typed'
    BY <1>0, <1>21 DEF GlobalDirAppears, Fault, Typed, TypeOK, LocalsOK
  <1>22. CASE UNCHANGED vars
    BY <1>0, <1>22 DEF vars, Typed, TypeOK, LocalsOK
  <1> QED
    BY <1>1, <1>2, <1>3, <1>4, <1>5, <1>6, <1>7, <1>8, <1>9, <1>10, <1>11,
       <1>12, <1>13, <1>14, <1>15, <1>16, <1>17, <1>18, <1>19, <1>20,
       <1>21, <1>22, <1>23
       DEF Next, NodePublishVolume, NodeUnpublishVolume, Connector

\* The variables keep their types under every fault; a call's target and path
\* are set before a step uses them (NodePublishVolume, NodeUnpublishVolume).
THEOREM TypeCorrect == Spec => []TypeOK
  <1>1. Typed => TypeOK
    BY DEF Typed
  <1> QED
    BY <1>1, TypedInit, TypedStep, PTL DEF Spec

-----------------------------------------------------------------------------
(* What a published pod sees, under every fault.                           *)
(*                                                                         *)
(* Only umount takes a mount away, and it runs for targets of deleted pods *)
(* alone (CallOK); so a global path that was mounted once stays mounted,   *)
(* and with it what a call has seen of it (SeenOK).                        *)

CallOK ==
    /\ \A w \in Workers :
         /\ pc[w] # "idle" => pod[target[w]] # "none"
         /\ pc[w] \in UnpublishSteps => pod[target[w]] = "deleted"
    /\ \A t \in Targets : pod[t] = "none" => view[t] = "never"

SeenOK ==
    \A w \in Workers :
      /\ pc[w] = "pubBind" => mounts[path[w]] # <<>>
      /\ job[w] = "ok" =>
           \/ mounts[path[w]] # <<>>
           \/ path[w] \in Targets /\ pod[path[w]] = "deleted"

PInv == Typed /\ CallOK /\ SeenOK /\ NoBareBind /\ PublishedIsMounted

LEMMA ListedIsMounted ==
    ASSUME TypeOK, NEW p \in Paths
    PROVE  /\ Listed(p) => mounts[p] # <<>>
           /\ NoBareBind /\ mounts[p] # <<>> => Listed(p)
  <1>1. mounts[p] \in Seq({"ossfs", "bare"})
    BY DEF TypeOK
  <1>2. mounts[p] # <<>> => 1 \in DOMAIN mounts[p]
    BY <1>1
  <1>3. Listed(p) => mounts[p] # <<>>
    BY DEF Listed
  <1> QED
    BY <1>2, <1>3 DEF Listed, NoBareBind

\* The four steps that change the mount table.
LEMMA MountSteps ==
    ASSUME [Next]_vars
    PROVE  \/ mounts' = mounts
           \/ \E w \in Workers : job[w] = "sent" /\ OnTop(path[w], "ossfs")
           \/ \E p \in Paths : orphans[p] > 0 /\ OnTop(p, "ossfs")
           \/ \E w \in Workers :
                /\ pc[w] = "pubBind"
                /\ OnTop(target[w], IF Listed(path[w]) THEN "ossfs" ELSE "bare")
           \/ \E w \in Workers :
                pc[w] = "unpRun" /\ mounts[target[w]] # <<>> /\ TakeOff(target[w])
  <1> USE DEF host, kubelet
  <1>1. ASSUME NEW w \in Workers,
               NodePublishVolume(w) \/ NodeUnpublishVolume(w) \/ Connector(w)
        PROVE  \/ mounts' = mounts
               \/ job[w] = "sent" /\ OnTop(path[w], "ossfs")
               \/ /\ pc[w] = "pubBind"
                  /\ OnTop(target[w], IF Listed(path[w]) THEN "ossfs" ELSE "bare")
               \/ pc[w] = "unpRun" /\ mounts[target[w]] # <<>> /\ TakeOff(target[w])
    <2>1. CASE NodePublishVolume(w)
      BY <2>1, RecordMoves
         DEF NodePublishVolume, PubCheck, PubSave, PubShared, PubCreate,
             PubSend, PubAnswer, PubAnswerLost, PubBind
    <2>2. CASE NodeUnpublishVolume(w)
      BY <2>2 DEF NodeUnpublishVolume, UnpCheck, UnpShared, UnpCount, UnpRun
    <2>3. CASE Connector(w)
      BY <2>3 DEF Connector, JobMount, JobFail
    <2> QED
      BY <1>1, <2>1, <2>2, <2>3
  <1>2. ASSUME NEW p \in Paths, OrphanMount(p) \/ OrphanFail(p)
        PROVE  mounts' = mounts \/ (orphans[p] > 0 /\ OnTop(p, "ossfs"))
    BY <1>2 DEF OrphanMount, OrphanFail
  <1>3. ASSUME NEW t \in Targets,
               PodBound(t) \/ PodDeleted(t) \/ KubeletCalls(t) \/ KubeletForgets(t)
        PROVE  mounts' = mounts
    BY <1>3 DEF PodBound, PodDeleted, KubeletCalls, CallPublish, CallUnpublish,
                Call, KubeletForgets
  <1>4. ASSUME NEW w \in Workers, GiveUp(w) PROVE mounts' = mounts
    BY <1>4 DEF GiveUp
  <1>5. ASSUME NEW v \in Volumes, GlobalDirAppears(v) PROVE mounts' = mounts
    BY <1>5 DEF GlobalDirAppears
  <1>6. CASE Restart \/ UNCHANGED vars
    BY <1>6 DEF Restart, vars
  <1> QED
    BY <1>1, <1>2, <1>3, <1>4, <1>5, <1>6 DEF Next

\* No step puts a bare directory on a path, and a mounted path stays mounted
\* unless it is the target of a deleted pod.
LEMMA MountsKept ==
    ASSUME PInv, [Next]_vars
    PROVE  /\ NoBareBind'
           /\ \A p \in Paths : mounts[p] # <<>> =>
                mounts'[p] # <<>> \/ (p \in Targets /\ pod[p] = "deleted")
  <1>1. /\ TypeOK /\ LocalsOK /\ NoBareBind
        /\ mounts \in [Paths -> Seq({"ossfs", "bare"})]
    BY DEF PInv, Typed, TypeOK
  <1>2. ASSUME NEW p \in Paths, OnTop(p, "ossfs")
        PROVE  NoBareBind' /\ \A q \in Paths : mounts[q] # <<>> => mounts'[q] # <<>>
    <2>1. /\ mounts'[p] = Append(mounts[p], "ossfs")
          /\ \A q \in Paths \ {p} : mounts'[q] = mounts[q]
      BY <1>1, <1>2, OnTopType
    <2>2. mounts[p] \in Seq({"ossfs", "bare"})
      BY <1>1
    <2>3. mounts'[p] # <<>> /\ \A i \in DOMAIN mounts'[p] : mounts'[p][i] = "ossfs"
      BY <1>1, <2>1, <2>2 DEF NoBareBind
    <2> QED
      BY <1>1, <2>1, <2>3 DEF NoBareBind
  <1>3. ASSUME NEW w \in Workers, pc[w] = "unpRun", mounts[target[w]] # <<>>,
               TakeOff(target[w])
        PROVE  /\ NoBareBind'
               /\ \A q \in Paths : mounts[q] # <<>> =>
                    mounts'[q] # <<>> \/ (q \in Targets /\ pod[q] = "deleted")
    <2> DEFINE t == target[w]
    <2>1. t \in Targets /\ t \in Paths /\ pod[t] = "deleted"
      BY <1>1, <1>3 DEF LocalsOK, PInv, CallOK, UnpublishSteps, Paths
    <2>2. /\ mounts' \in [Paths -> Seq({"ossfs", "bare"})]
          /\ Len(mounts'[t]) = Len(mounts[t]) - 1
          /\ \A i \in 1 .. Len(mounts[t]) - 1 : mounts'[t][i] = mounts[t][i]
          /\ \A q \in Paths \ {t} : mounts'[q] = mounts[q]
      BY <1>1, <1>3, <2>1, TakeOffType
    <2>3. /\ mounts[t] \in Seq({"ossfs", "bare"})
          /\ mounts'[t] \in Seq({"ossfs", "bare"})
      BY <1>1, <2>1, <2>2
    <2>4. ASSUME NEW i \in DOMAIN mounts'[t] PROVE mounts'[t][i] = "ossfs"
      <3>1. i \in 1 .. Len(mounts[t]) - 1 /\ i \in DOMAIN mounts[t]
        BY <2>2, <2>3
      <3> QED
        BY <1>1, <2>1, <2>2, <3>1 DEF NoBareBind
    <2> QED
      BY <1>1, <2>1, <2>2, <2>4 DEF NoBareBind
  <1>4. ASSUME NEW w \in Workers, pc[w] = "pubBind"
        PROVE  target[w] \in Paths /\ Listed(path[w])
    <2>1. target[w] \in Paths /\ path[w] \in Paths
      BY <1>1, <1>4 DEF LocalsOK, Paths
    <2>2. mounts[path[w]] # <<>>
      BY <1>4 DEF PInv, SeenOK
    <2> QED
      BY <1>1, <2>1, <2>2, ListedIsMounted
  <1>5. ASSUME NEW w \in Workers, job[w] = "sent" PROVE path[w] \in Paths
    BY <1>1, <1>5 DEF LocalsOK, Paths
  <1>6. CASE mounts' = mounts
    BY <1>1, <1>6 DEF NoBareBind
  <1> QED
    BY <1>2, <1>3, <1>4, <1>5, <1>6, MountSteps

\* How a call gets to hold what SeenOK speaks of.
LEMMA SeenSteps ==
    ASSUME Typed, [Next]_vars, NEW x \in Workers
    PROVE  /\ pc'[x] = "pubBind" =>
                /\ path'[x] \in GlobalPaths
                /\ \/ path'[x] = path[x] /\ (pc[x] = "pubBind" \/ job[x] = "ok")
                   \/ Listed(path'[x])
           /\ job'[x] = "ok" =>
                /\ path'[x] = path[x]
                /\ job[x] = "ok" \/ (job[x] = "sent" /\ OnTop(path[x], "ossfs"))
  <1>0. /\ TypeOK /\ LocalsOK
        /\ (Typed)'
    BY TypedStep DEF Typed
  <1>1. pc'[x] = "pubBind" => path'[x] \in GlobalPaths
    BY <1>0 DEF Typed, LocalsOK
  <1> SUFFICES ASSUME TRUE
               PROVE  /\ pc'[x] = "pubBind" =>
                           \/ path'[x] = path[x] /\ (pc[x] = "pubBind" \/ job[x] = "ok")
                           \/ Listed(path'[x])
                      /\ job'[x] = "ok" =>
                           /\ path'[x] = path[x]
                           /\ job[x] = "ok" \/ (job[x] = "sent" /\ OnTop(path[x], "ossfs"))
    BY <1>1
  <1> USE DEF kubelet, host, calls, GoTo
  <1>2. ASSUME NEW w \in Workers,
               PubCheck(w) \/ PubSave(w) \/ PubCreate(w) \/ WriteMetricsInfo(w) \/ PubSend(w)
        PROVE  /\ pc'[x] = "pubBind" => path'[x] = path[x] /\ pc[x] = "pubBind"
               /\ job'[x] = "ok" => path'[x] = path[x] /\ job[x] = "ok"
    <2>1. job[w] = "none"
      BY <1>0, <1>2, RecordMoves
         DEF PubCheck, PubSave, PubCreate, PubSend, LocalsOK, TypeOK, RecordSteps
    <2>2. CASE PubCheck(w)
      BY <1>0, <2>1, <2>2 DEF PubCheck, Return, TypeOK
    <2>3. CASE PubSave(w)
      BY <1>0, <2>1, <2>3 DEF PubSave, ReturnError, Return, TypeOK
    <2>4. CASE PubCreate(w)
      BY <1>0, <2>1, <2>4 DEF PubCreate, ReturnError, Return, TypeOK
    <2>5. CASE PubSend(w)
      BY <1>0, <2>1, <2>5 DEF PubSend, ReturnError, Return, TypeOK
    <2>6. CASE WriteMetricsInfo(w)
      BY <1>0, <2>1, <2>6, RecordMoves DEF RecordSteps, TypeOK
    <2> QED
      BY <1>2, <2>2, <2>3, <2>4, <2>5, <2>6
  <1>3. ASSUME NEW w \in Workers, PubShared(w)
        PROVE  /\ pc'[x] = "pubBind" =>
                    (path'[x] = path[x] /\ pc[x] = "pubBind") \/ Listed(path'[x])
               /\ job'[x] = "ok" => path'[x] = path[x] /\ job[x] = "ok"
    <2>1. job[w] = "none"
      BY <1>0, <1>3 DEF PubShared, LocalsOK, TypeOK
    <2>2. x # w => pc'[x] = pc[x] /\ path'[x] = path[x]
      BY <1>0, <1>3 DEF PubShared, TypeOK
    <2>3. pc'[w] = "pubBind" => Listed(path'[w])
      BY <1>0, <1>3 DEF PubShared, IsOssfsMounted, TypeOK
    <2> QED
      BY <1>3, <2>1, <2>2, <2>3 DEF PubShared
  <1>4. ASSUME NEW w \in Workers, PubAnswer(w) \/ PubAnswerLost(w) \/ PubBind(w)
        PROVE  /\ pc'[x] = "pubBind" =>
                    path'[x] = path[x] /\ (pc[x] = "pubBind" \/ job[x] = "ok")
               /\ job'[x] = "ok" => path'[x] = path[x] /\ job[x] = "ok"
    <2>1. CASE PubAnswer(w)
      BY <1>0, <2>1 DEF PubAnswer, ReturnError, Return, TypeOK
    <2>2. CASE PubAnswerLost(w)
      BY <1>0, <2>2 DEF PubAnswerLost, ReturnError, Return, TypeOK
    <2>3. CASE PubBind(w)
      <3>1. job[w] = "none"
        BY <1>0, <2>3 DEF PubBind, LocalsOK, TypeOK
      <3> QED
        BY <1>0, <2>3, <3>1 DEF PubBind, ReturnError, Return, TypeOK
    <2> QED
      BY <1>4, <2>1, <2>2, <2>3
  <1>5. ASSUME NEW w \in Workers, Connector(w)
        PROVE  /\ pc'[x] = pc[x] /\ path'[x] = path[x]
               /\ job'[x] = "ok" =>
                    job[x] = "ok" \/ (job[x] = "sent" /\ OnTop(path[x], "ossfs"))
    BY <1>0, <1>5 DEF Connector, JobMount, JobFail, TypeOK
  <1>6. ASSUME NEW w \in Workers, NodeUnpublishVolume(w)
        PROVE  /\ pc'[x] = "pubBind" => path'[x] = path[x] /\ pc[x] = "pubBind"
               /\ job'[x] = "ok" => path'[x] = path[x] /\ job[x] = "ok"
    <2>1. job[w] = "none"
      BY <1>0, <1>6 DEF NodeUnpublishVolume, UnpCheck, UnpShared, UnpCount,
                        UnpRun, LocalsOK, TypeOK
    <2>2. CASE UnpCheck(w)
      BY <1>0, <2>1, <2>2 DEF UnpCheck, Return, TypeOK
    <2>3. CASE UnpShared(w)
      BY <1>0, <2>1, <2>3 DEF UnpShared, TypeOK
    <2>4. CASE UnpCount(w)
      BY <1>0, <2>1, <2>4 DEF UnpCount, ReturnError, Return, TypeOK
    <2>5. CASE UnpRun(w)
      BY <1>0, <2>1, <2>5 DEF UnpRun, ReturnError, Return, TypeOK
    <2> QED
      BY <1>6, <2>2, <2>3, <2>4, <2>5 DEF NodeUnpublishVolume
  <1>7. ASSUME NEW t \in Targets, KubeletCalls(t)
        PROVE  /\ pc'[x] = "pubBind" => path'[x] = path[x] /\ pc[x] = "pubBind"
               /\ job'[x] = "ok" => path'[x] = path[x] /\ job[x] = "ok"
    BY <1>0, <1>7 DEF KubeletCalls, CallPublish, CallUnpublish, Call, TypeOK
  <1>8. CASE Restart
    BY <1>8 DEF Restart
  <1>9. ASSUME \/ \E w \in Workers : GiveUp(w)
               \/ \E p \in Paths : OrphanMount(p) \/ OrphanFail(p)
               \/ \E t \in Targets : PodBound(t) \/ PodDeleted(t) \/ KubeletForgets(t)
               \/ \E v \in Volumes : GlobalDirAppears(v)
               \/ UNCHANGED vars
        PROVE  pc' = pc /\ path' = path /\ job' = job
    BY <1>9 DEF GiveUp, OrphanMount, OrphanFail, PodBound, PodDeleted,
                KubeletForgets, GlobalDirAppears, vars
  <1> QED
    BY <1>2, <1>3, <1>4, <1>5, <1>6, <1>7, <1>8, <1>9
       DEF Next, NodePublishVolume

LEMMA SeenStep ==
    ASSUME PInv, [Next]_vars, \A t \in Targets : pod[t] = "deleted" => pod'[t] = "deleted"
    PROVE  SeenOK'
  <1>1. Typed /\ TypeOK /\ LocalsOK /\ SeenOK
    BY DEF PInv, Typed
  <1>2. \A p \in Paths : mounts[p] # <<>> =>
          mounts'[p] # <<>> \/ (p \in Targets /\ pod[p] = "deleted")
    BY MountsKept
  <1>3. ASSUME NEW g \in GlobalPaths, mounts[g] # <<>> PROVE mounts'[g] # <<>>
    BY <1>2, <1>3, PathAssumption DEF Paths
  <1>4. ASSUME NEW x \in Workers, pc'[x] = "pubBind"
        PROVE  mounts'[path'[x]] # <<>>
    <2>1. /\ path'[x] \in GlobalPaths
          /\ \/ path'[x] = path[x] /\ (pc[x] = "pubBind" \/ job[x] = "ok")
             \/ Listed(path'[x])
      BY <1>1, <1>4, SeenSteps
    <2>2. mounts[path'[x]] # <<>>
      <3>1. CASE Listed(path'[x])
        BY <1>1, <2>1, <3>1, ListedIsMounted DEF Paths
      <3>2. CASE path'[x] = path[x] /\ (pc[x] = "pubBind" \/ job[x] = "ok")
        BY <1>1, <2>1, <3>2, PathAssumption DEF SeenOK
      <3> QED
        BY <2>1, <3>1, <3>2
    <2> QED
      BY <1>3, <2>1, <2>2
  <1>5. ASSUME NEW x \in Workers, job'[x] = "ok"
        PROVE  \/ mounts'[path'[x]] # <<>>
               \/ path'[x] \in Targets /\ pod'[path'[x]] = "deleted"
    <2>1. /\ path'[x] = path[x]
          /\ job[x] = "ok" \/ (job[x] = "sent" /\ OnTop(path[x], "ossfs"))
      BY <1>1, <1>5, SeenSteps
    <2>2. path[x] \in Paths
      BY <1>1, <2>1 DEF LocalsOK, Paths
    <2>3. CASE job[x] = "ok"
      BY <1>1, <1>2, <2>1, <2>2, <2>3 DEF SeenOK
    <2>4. CASE OnTop(path[x], "ossfs")
      <3>1. mounts[path[x]] \in Seq({"ossfs", "bare"})
        BY <1>1, <2>2 DEF TypeOK
      <3>2. mounts'[path[x]] = Append(mounts[path[x]], "ossfs")
        BY <1>1, <2>2, <2>4, OnTopType DEF TypeOK
      <3> QED
        BY <2>1, <3>1, <3>2
    <2> QED
      BY <2>1, <2>3, <2>4
  <1> QED
    BY <1>4, <1>5 DEF SeenOK

\* A pod only goes forward.
LEMMA PodSteps ==
    ASSUME TypeOK, [Next]_vars, NEW t \in Targets
    PROVE  /\ pod[t] = "deleted" => pod'[t] = "deleted"
           /\ pod[t] # "none" => pod'[t] # "none"
           /\ pod'[t] # pod[t] => view' = view
  <1> USE DEF kubelet
  <1>1. ASSUME NEW u \in Targets, PodBound(u) \/ PodDeleted(u)
        PROVE  /\ pod[t] = "deleted" => pod'[t] = "deleted"
               /\ pod[t] # "none" => pod'[t] # "none"
               /\ view' = view
    BY <1>1 DEF PodBound, PodDeleted, TypeOK
  <1>2. ASSUME NEW w \in Workers, NodePublishVolume(w)
        PROVE  pod' = pod
    BY <1>2, RecordMoves
       DEF NodePublishVolume, PubCheck, PubSave, PubShared, PubCreate,
           PubSend, PubAnswer, PubAnswerLost, PubBind, ReturnError, Return
  <1>3. ASSUME NEW w \in Workers, NodeUnpublishVolume(w) \/ Connector(w) \/ GiveUp(w)
        PROVE  pod' = pod
    BY <1>3 DEF NodeUnpublishVolume, UnpCheck, UnpShared, UnpCount, UnpRun,
                ReturnError, Return, Connector, JobMount, JobFail, GiveUp
  <1>4. ASSUME NEW p \in Paths, OrphanMount(p) \/ OrphanFail(p) PROVE pod' = pod
    BY <1>4 DEF OrphanMount, OrphanFail
  <1>5. ASSUME NEW u \in Targets, KubeletCalls(u) \/ KubeletForgets(u)
        PROVE  pod' = pod
    BY <1>5 DEF KubeletCalls, CallPublish, CallUnpublish, Call, KubeletForgets
  <1>6. ASSUME Restart \/ UNCHANGED vars \/ \E v \in Volumes : GlobalDirAppears(v)
        PROVE  pod' = pod
    BY <1>6 DEF Restart, vars, GlobalDirAppears
  <1> QED
    BY <1>1, <1>2, <1>3, <1>4, <1>5, <1>6 DEF Next

\* A call ends, moves on within its kind, or begins for a pod that is there.
LEMMA CallSteps ==
    ASSUME Typed, [Next]_vars, NEW x \in Workers, pc'[x] # "idle"
    PROVE  \/ /\ pc[x] # "idle" /\ target'[x] = target[x]
              /\ pc'[x] \in UnpublishSteps => pc[x] \in UnpublishSteps
           \/ /\ pod' = pod /\ pod[target'[x]] # "none"
              /\ pc'[x] \in UnpublishSteps => pod[target'[x]] = "deleted"
  <1>0. TypeOK
    BY DEF Typed
  <1> USE DEF kubelet, host, calls, GoTo, PublishSteps, UnpublishSteps
  <1>1. ASSUME NEW w \in Workers,
               PubCheck(w) \/ PubSave(w) \/ PubShared(w) \/ PubCreate(w) \/ WriteMetricsInfo(w)
        PROVE  /\ pc[x] # "idle" /\ target'[x] = target[x]
               /\ pc'[x] \in UnpublishSteps => pc[x] \in UnpublishSteps
    <2>1. CASE PubCheck(w)
      BY <1>0, <2>1 DEF PubCheck, ReturnError, Return, TypeOK
    <2>2. CASE PubSave(w)
      <3>1. pc[w] = "pubSave" /\ (pc'[x] = pc[x] \/ x = w)
        BY <1>0, <2>2 DEF PubSave, ReturnError, Return, TypeOK
      <3>2. pc'[w] \in {"pubShared", "pubCreate", "idle"}
        BY <1>0, <2>2 DEF PubSave, ReturnError, Return, TypeOK
      <3>3. target' = target \/ (pc'[w] = "idle" /\ target' = [target EXCEPT ![w] = None])
        BY <1>0, <2>2 DEF PubSave, ReturnError, Return, TypeOK
      <3> QED
        BY <1>0, <3>1, <3>2, <3>3 DEF TypeOK
    <2>3. CASE PubShared(w)
      BY <1>0, <2>3 DEF PubShared, TypeOK
    <2>4. CASE PubCreate(w)
      BY <1>0, <2>4 DEF PubCreate, ReturnError, Return, TypeOK
    <2>5. CASE WriteMetricsInfo(w)
      BY <1>0, <2>5, RecordMoves DEF RecordSteps, TypeOK
    <2> QED
      BY <1>1, <2>1, <2>2, <2>3, <2>4, <2>5
  <1>2. ASSUME NEW w \in Workers, PubSend(w) \/ PubAnswer(w) \/ PubAnswerLost(w) \/ PubBind(w)
        PROVE  /\ pc[x] # "idle" /\ target'[x] = target[x]
               /\ pc'[x] \in UnpublishSteps => pc[x] \in UnpublishSteps
    <2>1. CASE PubSend(w)
      BY <1>0, <2>1 DEF PubSend, ReturnError, Return, TypeOK
    <2>2. CASE PubAnswer(w)
      BY <1>0, <2>2 DEF PubAnswer, ReturnError, Return, TypeOK
    <2>3. CASE PubAnswerLost(w)
      BY <1>0, <2>3 DEF PubAnswerLost, ReturnError, Return, TypeOK
    <2>4. CASE PubBind(w)
      BY <1>0, <2>4 DEF PubBind, ReturnError, Return, TypeOK
    <2> QED
      BY <1>2, <2>1, <2>2, <2>3, <2>4
  <1>3. ASSUME NEW w \in Workers, NodeUnpublishVolume(w)
        PROVE  /\ pc[x] # "idle" /\ target'[x] = target[x]
               /\ pc'[x] \in UnpublishSteps => pc[x] \in UnpublishSteps
    <2>1. CASE UnpCheck(w)
      BY <1>0, <2>1 DEF UnpCheck, Return, TypeOK
    <2>2. CASE UnpShared(w)
      BY <1>0, <2>2 DEF UnpShared, TypeOK
    <2>3. CASE UnpCount(w)
      BY <1>0, <2>3 DEF UnpCount, ReturnError, Return, TypeOK
    <2>4. CASE UnpRun(w)
      BY <1>0, <2>4 DEF UnpRun, ReturnError, Return, TypeOK
    <2> QED
      BY <1>3, <2>1, <2>2, <2>3, <2>4 DEF NodeUnpublishVolume
  <1>4. ASSUME NEW t \in Targets, KubeletCalls(t), target'[x] = t
        PROVE  \/ pc'[x] = pc[x] /\ target'[x] = target[x]
               \/ /\ pod' = pod /\ pod[t] # "none"
                  /\ pc'[x] \in UnpublishSteps => pod[t] = "deleted"
    BY <1>0, <1>4 DEF KubeletCalls, CallPublish, CallUnpublish, Call, TypeOK
  <1>5. ASSUME NEW t \in Targets, KubeletCalls(t), target'[x] # t
        PROVE  pc'[x] = pc[x] /\ target'[x] = target[x]
    BY <1>0, <1>5 DEF KubeletCalls, CallPublish, CallUnpublish, Call, TypeOK
  <1>6. CASE Restart
    BY <1>6 DEF Restart
  <1>7. ASSUME \/ \E w \in Workers : GiveUp(w) \/ Connector(w)
               \/ \E p \in Paths : OrphanMount(p) \/ OrphanFail(p)
               \/ \E t \in Targets : PodBound(t) \/ PodDeleted(t) \/ KubeletForgets(t)
               \/ \E v \in Volumes : GlobalDirAppears(v)
               \/ UNCHANGED vars
        PROVE  pc' = pc /\ target' = target
    BY <1>7 DEF GiveUp, Connector, JobMount, JobFail, OrphanMount, OrphanFail,
                PodBound, PodDeleted, KubeletForgets, GlobalDirAppears, vars
  <1> QED
    BY <1>1, <1>2, <1>3, <1>4, <1>5, <1>6, <1>7
       DEF Next, NodePublishVolume

\* What the kubelet learns: of a pod that is there, and "in" of a mount.
LEMMA ViewSteps ==
    ASSUME PInv, [Next]_vars, NEW t \in Targets, view'[t] # view[t]
    PROVE  /\ pod[t] # "none"
           /\ view'[t] = "in" => mounts'[t] # <<>> \/ pod[t] = "deleted"
  <1>0. Typed /\ TypeOK /\ LocalsOK /\ CallOK /\ SeenOK
    BY DEF PInv, Typed
  <1> USE DEF kubelet, host, calls
  <1>1. ASSUME NEW w \in Workers, NEW v \in {"unsure", "in", "out"},
               pc[w] # "idle", Return(w, v)
        PROVE  t = target[w] /\ pod[t] # "none" /\ view'[t] = v
    BY <1>0, <1>1 DEF Return, CallOK, LocalsOK, TypeOK
  <1>2. ASSUME NEW w \in Workers, NodePublishVolume(w)
        PROVE  /\ pod[t] # "none"
               /\ view'[t] = "in" => mounts'[t] # <<>> \/ pod[t] = "deleted"
    <2>1. CASE PubCheck(w)
      <3>1. IsOssfsMounted(target[w], TRUE) /\ Return(w, "in") /\ mounts' = mounts
        BY <2>1 DEF PubCheck
      <3>2. t = target[w] /\ pod[t] # "none" /\ Listed(t) /\ t \in Paths
        BY <1>1, <2>1, <3>1 DEF PubCheck, IsOssfsMounted, Paths
      <3> QED
        BY <1>0, <3>1, <3>2, ListedIsMounted
    <2>2. CASE PubSave(w) \/ PubCreate(w) \/ WriteMetricsInfo(w) \/ PubSend(w) \/ PubAnswerLost(w)
      BY <1>1, <2>2, RecordMoves DEF PubSave, PubCreate, PubSend, PubAnswerLost, ReturnError
    <2>3. CASE PubAnswer(w)
      <3>1. CASE job[w] = "ok" /\ path[w] = target[w] /\ Return(w, "in")
        <4>1. t = target[w] /\ pod[t] # "none" /\ mounts' = mounts
          BY <1>1, <2>3, <3>1 DEF PubAnswer
        <4> QED
          BY <1>0, <3>1, <4>1 DEF SeenOK
      <3>2. CASE ReturnError(w)
        BY <1>1, <2>3, <3>2 DEF PubAnswer, ReturnError
      <3> QED
        BY <2>3, <3>1, <3>2 DEF PubAnswer
    <2>4. CASE PubBind(w)
      <3>1. t = target[w] /\ pod[t] # "none"
        BY <1>1, <2>4 DEF PubBind, ReturnError
      <3>2. CASE ReturnError(w)
        BY <1>1, <2>4, <3>2 DEF PubBind, ReturnError
      <3>3. CASE OnTop(target[w], IF Listed(path[w]) THEN "ossfs" ELSE "bare")
        <4>1. t \in Paths /\ mounts[t] \in Seq({"ossfs", "bare"})
          BY <1>0 DEF Paths, TypeOK
        <4>2. \E layer \in {"ossfs", "bare"} : mounts'[t] = Append(mounts[t], layer)
          BY <1>0, <3>1, <3>3, <4>1, OnTopType DEF TypeOK
        <4> QED
          BY <3>1, <4>1, <4>2
      <3> QED
        BY <2>4, <3>2, <3>3 DEF PubBind
    <2>5. CASE PubShared(w)
      BY <2>5 DEF PubShared
    <2> QED
      BY <1>2, <2>1, <2>2, <2>3, <2>4, <2>5 DEF NodePublishVolume
  <1>3. ASSUME NEW w \in Workers, NodeUnpublishVolume(w)
        PROVE  pod[t] # "none" /\ view'[t] # "in"
    BY <1>1, <1>3 DEF NodeUnpublishVolume, UnpCheck, UnpShared, UnpCount, UnpRun,
                      ReturnError
  <1>4. ASSUME NEW u \in Targets, KubeletCalls(u) \/ KubeletForgets(u)
        PROVE  pod[t] # "none" /\ view'[t] # "in"
    BY <1>0, <1>4 DEF KubeletCalls, CallPublish, CallUnpublish, Call,
                      KubeletForgets, CallOK, TypeOK
  <1>5. ASSUME \/ \E w \in Workers : GiveUp(w) \/ Connector(w)
               \/ \E p \in Paths : OrphanMount(p) \/ OrphanFail(p)
               \/ \E u \in Targets : PodBound(u) \/ PodDeleted(u)
               \/ \E v \in Volumes : GlobalDirAppears(v)
               \/ Restart
               \/ UNCHANGED vars
        PROVE  view' = view
    BY <1>5 DEF GiveUp, Connector, JobMount, JobFail, OrphanMount, OrphanFail,
                PodBound, PodDeleted, GlobalDirAppears, Restart, vars
  <1> QED
    BY <1>2, <1>3, <1>4, <1>5 DEF Next

LEMMA PInvInit == Init => PInv
  <1> SUFFICES ASSUME Init PROVE PInv
    OBVIOUS
  <1>1. Typed
    BY TypedInit
  <1> QED
    BY <1>1 DEF Init, PInv, CallOK, SeenOK, NoBareBind, PublishedIsMounted,
                UnpublishSteps

LEMMA PInvStep == PInv /\ [Next]_vars => PInv'
  <1> SUFFICES ASSUME PInv, [Next]_vars PROVE PInv'
    OBVIOUS
  <1>1. Typed /\ TypeOK /\ CallOK /\ PublishedIsMounted
    BY DEF PInv, Typed
  <1>2. Typed' /\ TypeOK' /\ LocalsOK'
    BY <1>1, TypedStep DEF Typed
  <1>3. \A t \in Targets :
          /\ pod[t] = "deleted" => pod'[t] = "deleted"
          /\ pod[t] # "none" => pod'[t] # "none"
          /\ pod'[t] # pod[t] => view' = view
    BY <1>1, PodSteps
  <1>4. NoBareBind' /\ SeenOK'
    BY <1>3, MountsKept, SeenStep
  <1>5. CallOK'
    <2>1. ASSUME NEW x \in Workers, pc'[x] # "idle"
          PROVE  /\ pod'[target'[x]] # "none"
                 /\ pc'[x] \in UnpublishSteps => pod'[target'[x]] = "deleted"
      <3>1. target'[x] \in Targets
        BY <1>2, <2>1 DEF LocalsOK
      <3> QED
        BY <1>1, <1>3, <2>1, <3>1, CallSteps DEF CallOK
    <2>2. ASSUME NEW t \in Targets, pod'[t] = "none"
          PROVE  view'[t] = "never"
      BY <1>1, <1>3, <2>2, ViewSteps DEF CallOK
    <2>3. ASSUME NEW x \in Workers, pc'[x] \in UnpublishSteps PROVE pc'[x] # "idle"
      BY <2>3 DEF UnpublishSteps
    <2> QED
      BY <2>1, <2>2, <2>3 DEF CallOK
  <1>6. ASSUME NEW t \in Targets, pod'[t] = "bound", view'[t] = "in"
        PROVE  mounts'[t] # <<>>
    <2>1. pod[t] # "deleted"
      BY <1>3, <1>6
    <2>2. CASE view'[t] = view[t]
      <3>1. pod[t] = "bound"
        BY <1>1, <1>6, <2>1, <2>2 DEF CallOK, TypeOK
      <3>2. mounts[t] # <<>> /\ t \in Paths
        BY <1>1, <1>6, <2>2, <3>1 DEF PublishedIsMounted, Paths
      <3> QED
        BY <2>1, <3>2, MountsKept
    <2>3. CASE view'[t] # view[t]
      BY <1>6, <2>1, <2>3, ViewSteps
    <2> QED
      BY <2>2, <2>3
  <1> QED
    BY <1>2, <1>4, <1>5, <1>6 DEF PInv, PublishedIsMounted

\* Under every fault: a pod is never bound to the directory behind a global
\* path, because no umount of the plugin ever takes a global path away
\* between the look at it and the bind.
THEOREM NeverBareBind == Spec => []NoBareBind
  <1>1. PInv => NoBareBind
    BY DEF PInv
  <1> QED
    BY <1>1, PInvInit, PInvStep, PTL DEF Spec

\* Under every fault: a pod whose NodePublishVolume was answered with success
\* has a mount on its target until it is deleted.
THEOREM PublishedStaysMounted == Spec => []PublishedIsMounted
  <1>1. PInv => PublishedIsMounted
    BY DEF PInv
  <1> QED
    BY <1>1, PInvInit, PInvStep, PTL DEF Spec

-----------------------------------------------------------------------------
(* What the kubelet knows, and what it has asked for, under every fault.   *)

\* A call, its mount command or a command whose sender is gone is for a target
\* that the kubelet asked for.  It has at most one question open for a target,
\* and a deleted pod's volume is not asked for once more while it is let go.
AskOK ==
    /\ \A w \in Workers : pc[w] # "idle" => view[target[w]] # "never"
    /\ \A t \in Targets : orphans[t] > 0 => view[t] # "never"
    /\ \A w \in Workers : waiting[w] => view[target[w]] = "unsure"
    /\ \A w, x \in Workers : waiting[w] /\ waiting[x] /\ target[w] = target[x] => w = x
    /\ \A w \in Workers : pc[w] \in UnpublishSteps =>
         /\ view[target[w]] # "in"
         /\ \A x \in Workers : waiting[x] /\ target[x] = target[w] => pc[x] \in UnpublishSteps

\* A step of a system that has more in it than OssNode: a fault is spent
\* elsewhere, a mount command fails or saveOssCredential does.
FailsElsewhere ==
    /\ budget' \in Nat
    /\ \/ UNCHANGED <<kubelet, host, pc, calls, job>>
       \/ \E w \in Workers :
            /\ job[w] = "sent"
            /\ job' = [job EXCEPT ![w] = "error"]
            /\ UNCHANGED <<kubelet, host, pc, calls>>
       \/ \E p \in Paths :
            /\ orphans[p] > 0
            /\ orphans' = [orphans EXCEPT ![p] = orphans[p] - 1]
            /\ UNCHANGED <<kubelet, mounts, metrics, pc, calls, job>>
       \/ \E w \in Workers :
            /\ pc[w] = "pubSave"
            /\ ReturnError(w)
            /\ UNCHANGED <<host, job>>

NodeStep == [Next]_vars \/ FailsElsewhere

\* The kinds of steps, by what the kubelet and the mount table see of them.
Asks(w, t) ==
    /\ \/ pod[t] = "bound" /\ view[t] \in {"never", "unsure"} /\ Call(w, t, "pubCheck")
       \/ pod[t] = "deleted" /\ view[t] \in {"unsure", "in"} /\ Call(w, t, "unpCheck")

Answers(w) ==
    /\ pc[w] # "idle"
    /\ \E v \in {"unsure", "in", "out"} :
         /\ Return(w, v)
         /\ \/ /\ mounts' = mounts
               /\ v = "in" => /\ pc[w] \in PublishSteps
                              /\ mounts[target[w]] # <<>> \/ pod[target[w]] = "deleted"
               /\ v = "out" => pc[w] \in UnpublishSteps
            \/ /\ pc[w] = "pubBind" /\ v = "in"
               /\ \E layer \in {"ossfs", "bare"} : OnTop(target[w], layer)
            \/ /\ pc[w] = "unpRun" /\ v = "out"
               /\ mounts[target[w]] # <<>> /\ TakeOff(target[w])
    /\ \A p \in Paths : orphans'[p] > 0 =>
         orphans[p] > 0 \/ (p = path[w] /\ pc[w] = "pubWait")

Moves(w) ==
    /\ pc[w] # "idle"
    /\ \E s \in PublishSteps \cup UnpublishSteps :
         GoTo(w, s) /\ (s \in UnpublishSteps <=> pc[w] \in UnpublishSteps)
    /\ UNCHANGED <<pod, view, mounts, orphans, target, waiting>>

\* A mount command of a call, or of one that is gone, is under way.
Commanded(p) == orphans[p] > 0 \/ \E w \in Workers : job[w] = "sent" /\ path[w] = p

Commands ==
    /\ UNCHANGED <<pod, view, pc, target, waiting>>
    /\ \A p \in Paths : orphans'[p] > 0 => orphans[p] > 0
    /\ mounts' = mounts \/ \E p \in Paths : Commanded(p) /\ OnTop(p, "ossfs")

Abandons ==
    /\ UNCHANGED <<pod, view, mounts>>
    /\ \A w \in Workers :
         \/ pc'[w] = "idle" /\ ~waiting'[w]
         \/ pc'[w] = pc[w] /\ target'[w] = target[w] /\ (waiting'[w] => waiting[w])
    /\ \A p \in Paths : orphans'[p] > 0 => Commanded(p)

PodsChange ==
    /\ UNCHANGED <<mounts, orphans, pc, target, waiting>>
    /\ \/ UNCHANGED <<pod, view>>
       \/ \E t \in Targets :
            \/ pod[t] = "none" /\ pod' = [pod EXCEPT ![t] = "bound"] /\ view' = view
            \/ pod[t] = "bound" /\ pod' = [pod EXCEPT ![t] = "deleted"] /\ view' = view
            \/ view[t] = "in" /\ view' = [view EXCEPT ![t] = "unsure"] /\ pod' = pod

Kinds ==
    \/ \E w \in Workers, t \in Targets : Asks(w, t)
    \/ \E w \in Workers : Answers(w) \/ Moves(w)
    \/ Commands
    \/ Abandons
    \/ PodsChange

LEMMA KindsOfPublish ==
    ASSUME PInv, NEW w \in Workers, NodePublishVolume(w)
    PROVE  Answers(w) \/ Moves(w)
  <1>0. TypeOK /\ LocalsOK /\ SeenOK /\ orphans \in [Paths -> Nat]
    BY DEF PInv, Typed, TypeOK
  <1> USE DEF kubelet, host, calls
  <1>1. CASE PubCheck(w)
    <2>1. CASE IsOssfsMounted(target[w], TRUE) /\ Return(w, "in")
      <3>1. Listed(target[w]) /\ target[w] \in Paths
        BY <1>0, <1>1, <2>1 DEF PubCheck, IsOssfsMounted, LocalsOK, Paths
      <3>2. mounts[target[w]] # <<>> /\ pc[w] \in PublishSteps
        BY <1>0, <1>1, <3>1, ListedIsMounted DEF PubCheck, PublishSteps
      <3> QED
        BY <1>1, <2>1, <3>2 DEF PubCheck, Answers
    <2>2. CASE GoTo(w, "pubSave") /\ UNCHANGED <<kubelet, calls>>
      BY <1>1, <2>2 DEF PubCheck, Moves, PublishSteps, UnpublishSteps
    <2> QED
      BY <1>1, <2>1, <2>2 DEF PubCheck
  <1>2. CASE PubSave(w)
    <2>1. CASE ReturnError(w)
      BY <1>2, <2>1 DEF PubSave, ReturnError, Answers
    <2>2. CASE /\ GoTo(w, "pubShared") \/ GoTo(w, "pubCreate")
               /\ UNCHANGED <<kubelet, target, waiting>>
      BY <1>2, <2>2 DEF PubSave, Moves, PublishSteps, UnpublishSteps
    <2> QED
      BY <1>2, <2>1, <2>2 DEF PubSave
  <1>3. CASE PubShared(w)
    <2>1. /\ pc[w] = "pubShared"
          /\ GoTo(w, "pubBind") \/ GoTo(w, "pubCreate")
          /\ UNCHANGED <<pod, view, mounts, orphans, target, waiting>>
      BY <1>3 DEF PubShared
    <2> QED
      BY <2>1 DEF Moves, PublishSteps, UnpublishSteps
  <1>4. CASE PubCreate(w)
    <2>1. CASE ReturnError(w)
      BY <1>4, <2>1 DEF PubCreate, ReturnError, Answers
    <2>2. ASSUME NEW s \in {"podLook", "pubSend"}, GoTo(w, s), UNCHANGED <<kubelet, calls>>
          PROVE  Moves(w)
      BY <1>4, <2>2 DEF PubCreate, Moves, PublishSteps, UnpublishSteps
    <2> QED
      BY <1>4, <2>1, <2>2 DEF PubCreate
  <1>5. CASE PubSend(w)
    <2>1. CASE ReturnError(w)
      BY <1>5, <2>1 DEF PubSend, ReturnError, Answers
    <2>2. CASE GoTo(w, "pubWait") /\ UNCHANGED <<kubelet, calls>>
      BY <1>5, <2>2 DEF PubSend, Moves, PublishSteps, UnpublishSteps
    <2> QED
      BY <1>5, <2>1, <2>2 DEF PubSend
  <1>6. CASE PubAnswer(w)
    <2>1. CASE job[w] = "ok" /\ path[w] = target[w] /\ Return(w, "in")
      <3>1. mounts[target[w]] # <<>> \/ pod[target[w]] = "deleted"
        BY <1>0, <2>1 DEF SeenOK
      <3>2. pc[w] \in PublishSteps
        BY <1>6 DEF PubAnswer, PublishSteps
      <3> QED
        BY <1>6, <2>1, <3>1, <3>2 DEF PubAnswer, Answers
    <2>2. CASE GoTo(w, "pubBind") /\ UNCHANGED <<kubelet, calls>>
      BY <1>6, <2>2 DEF PubAnswer, Moves, PublishSteps, UnpublishSteps
    <2>3. CASE ReturnError(w)
      BY <1>6, <2>3 DEF PubAnswer, ReturnError, Answers
    <2> QED
      BY <1>6, <2>1, <2>2, <2>3 DEF PubAnswer
  <1>7. CASE PubAnswerLost(w)
    <2>1. ASSUME NEW p \in Paths, orphans'[p] > 0
          PROVE  orphans[p] > 0 \/ (p = path[w] /\ pc[w] = "pubWait")
      BY <1>0, <1>7, <2>1 DEF PubAnswerLost
    <2> QED
      BY <1>7, <2>1 DEF PubAnswerLost, ReturnError, Answers
  <1>8. CASE PubBind(w)
    BY <1>8 DEF PubBind, ReturnError, Answers
  <1>9. CASE WriteMetricsInfo(w)
    BY <1>9, RecordMoves DEF Moves, RecordSteps, PublishSteps, UnpublishSteps
  <1> QED
    BY <1>1, <1>2, <1>3, <1>4, <1>5, <1>6, <1>7, <1>8, <1>9 DEF NodePublishVolume

LEMMA KindsOfUnpublish ==
    ASSUME PInv, NEW w \in Workers, NodeUnpublishVolume(w)
    PROVE  Answers(w) \/ Moves(w)
  <1> USE DEF kubelet, host, calls
  <1>1. CASE UnpCheck(w)
    <2>1. CASE Return(w, "out")
      BY <1>1, <2>1 DEF UnpCheck, Answers, UnpublishSteps
    <2>2. CASE GoTo(w, "unpShared") /\ UNCHANGED <<kubelet, calls>>
      BY <1>1, <2>2 DEF UnpCheck, Moves, PublishSteps, UnpublishSteps
    <2> QED
      BY <1>1, <2>1, <2>2 DEF UnpCheck
  <1>2. CASE UnpShared(w)
    <2>1. /\ pc[w] = "unpShared"
          /\ GoTo(w, "unpCount") \/ GoTo(w, "unpRun")
          /\ UNCHANGED <<pod, view, mounts, orphans, target, waiting>>
      BY <1>2 DEF UnpShared
    <2> QED
      BY <2>1 DEF Moves, PublishSteps, UnpublishSteps
  <1>3. CASE UnpCount(w)
    <2>1. CASE ReturnError(w)
      BY <1>3, <2>1 DEF UnpCount, ReturnError, Answers
    <2>2. CASE GoTo(w, "unpRun") /\ UNCHANGED <<kubelet, target, waiting>>
      BY <1>3, <2>2 DEF UnpCount, Moves, PublishSteps, UnpublishSteps
    <2> QED
      BY <1>3, <2>1, <2>2 DEF UnpCount
  <1>4. CASE UnpRun(w)
    BY <1>4 DEF UnpRun, ReturnError, Answers
  <1> QED
    BY <1>1, <1>2, <1>3, <1>4 DEF NodeUnpublishVolume

LEMMA StepsHaveKinds == ASSUME PInv, NodeStep PROVE Kinds
  <1>0. TypeOK /\ LocalsOK /\ orphans \in [Paths -> Nat]
    BY DEF PInv, Typed, TypeOK
  <1> USE DEF kubelet, host, calls
  <1>1. ASSUME NEW w \in Workers, NodePublishVolume(w) \/ NodeUnpublishVolume(w)
        PROVE  Kinds
    BY <1>1, KindsOfPublish, KindsOfUnpublish DEF Kinds
  <1>2. ASSUME NEW w \in Workers, JobMount(w) PROVE Kinds
    <2>1. path[w] \in Paths /\ Commanded(path[w])
      BY <1>0, <1>2 DEF JobMount, LocalsOK, Paths, Commanded
    <2> QED
      BY <1>2, <2>1 DEF JobMount, Commands, Kinds
  <1>3. ASSUME NEW p \in Paths, OrphanMount(p) PROVE Kinds
    <2>1. Commanded(p) /\ \A q \in Paths : orphans'[q] > 0 => orphans[q] > 0
      BY <1>0, <1>3 DEF OrphanMount, Commanded
    <2> QED
      BY <1>3, <2>1 DEF OrphanMount, Commands, Kinds
  <1>4. ASSUME UNCHANGED <<pod, view, mounts, pc, target, waiting>>,
               \/ orphans' = orphans
               \/ \E p \in Paths : /\ orphans[p] > 0
                                   /\ orphans' = [orphans EXCEPT ![p] = orphans[p] - 1]
        PROVE  Kinds
    <2>1. \A q \in Paths : orphans'[q] > 0 => orphans[q] > 0
      BY <1>0, <1>4
    <2> QED
      BY <1>4, <2>1 DEF Commands, Kinds
  <1>5. ASSUME \/ \E w \in Workers : JobFail(w)
               \/ \E p \in Paths : OrphanFail(p)
        PROVE  Kinds
    BY <1>4, <1>5 DEF JobFail, OrphanFail
  <1>6. ASSUME NEW w \in Workers, GiveUp(w) PROVE Kinds
    BY <1>0, <1>6 DEF GiveUp, Abandons, Commanded, Kinds, TypeOK
  <1>7. CASE Restart
    <2>1. ASSUME NEW p \in Paths, orphans'[p] > 0 PROVE Commanded(p)
      <3> DEFINE Senders == {w \in Workers : job[w] = "sent" /\ path[w] = p}
      <3>1. orphans'[p] = orphans[p] + Cardinality(Senders)
        BY <1>7 DEF Restart
      <3>2. CASE Senders = {}
        BY <1>0, <2>1, <3>1, <3>2, FS_EmptySet DEF Commanded
      <3>3. CASE Senders # {}
        BY <3>3 DEF Commanded
      <3> QED
        BY <3>2, <3>3
    <2> QED
      BY <1>7, <2>1 DEF Restart, Abandons, Kinds
  <1>8. ASSUME NEW t \in Targets, KubeletCalls(t) PROVE Kinds
    BY <1>8 DEF KubeletCalls, CallPublish, CallUnpublish, Asks, Kinds
  <1>9. ASSUME \/ \E t \in Targets : PodBound(t) \/ PodDeleted(t) \/ KubeletForgets(t)
               \/ \E v \in Volumes : GlobalDirAppears(v)
               \/ UNCHANGED vars
        PROVE  Kinds
    BY <1>9 DEF PodBound, PodDeleted, KubeletForgets, GlobalDirAppears, vars,
                PodsChange, Kinds
  <1>10. CASE FailsElsewhere
    <2>1. ASSUME NEW w \in Workers, pc[w] = "pubSave", ReturnError(w), UNCHANGED <<host, job>>
          PROVE  Kinds
      BY <2>1 DEF ReturnError, Answers, Kinds
    <2> QED
      BY <1>4, <1>10, <2>1 DEF FailsElsewhere
  <1> QED
    BY <1>1, <1>2, <1>3, <1>5, <1>6, <1>7, <1>8, <1>9, <1>10
       DEF NodeStep, Next, Connector

LEMMA PInvElsewhere == PInv /\ FailsElsewhere => PInv'
  <1> SUFFICES ASSUME PInv, FailsElsewhere PROVE PInv'
    OBVIOUS
  <1>0. Typed /\ TypeOK /\ LocalsOK /\ CallOK /\ SeenOK /\ NoBareBind /\ PublishedIsMounted
    BY DEF PInv, Typed
  <1> USE DEF kubelet, host, calls
  <1>1. Typed'
    <2>1. CASE UNCHANGED <<kubelet, host, pc, calls, job>>
      BY <1>0, <2>1 DEF FailsElsewhere, Typed, TypeOK, LocalsOK
    <2>2. ASSUME NEW w \in Workers, job[w] = "sent", job' = [job EXCEPT ![w] = "error"],
                 UNCHANGED <<kubelet, host, pc, calls>>
          PROVE  Typed'
      BY <1>0, <2>2 DEF FailsElsewhere, Typed, TypeOK, LocalsOK
    <2>3. ASSUME NEW p \in Paths, orphans[p] > 0,
                 orphans' = [orphans EXCEPT ![p] = orphans[p] - 1],
                 UNCHANGED <<kubelet, mounts, metrics, pc, calls, job>>
          PROVE  Typed'
      <3>1. orphans \in [Paths -> Nat]
        BY <1>0 DEF TypeOK
      <3>2. orphans' \in [Paths -> Nat]
        BY <2>3, <3>1
      <3> QED
        BY <1>0, <2>3, <3>2 DEF FailsElsewhere, Typed, TypeOK, LocalsOK
    <2>4. ASSUME NEW w \in Workers, pc[w] = "pubSave", ReturnError(w), UNCHANGED <<host, job>>
          PROVE  Typed'
      <3>1. job' = [job EXCEPT ![w] = "none"]
        BY <1>0, <2>4 DEF LocalsOK, TypeOK
      <3>2. /\ mounts' \in [Paths -> Seq({"ossfs", "bare"})]
            /\ metrics' \in Records
            /\ orphans' \in [Paths -> Nat]
            /\ budget' \in Nat
        BY <1>0, <2>4 DEF FailsElsewhere, TypeOK
      <3> QED
        BY <1>0, <2>4, <3>1, <3>2, ReturnTyped DEF ReturnError
    <2> QED
      BY <2>1, <2>2, <2>3, <2>4 DEF FailsElsewhere
  <1>2. mounts' = mounts /\ pod' = pod
    BY DEF FailsElsewhere, ReturnError, Return
  <1>3. \A x \in Workers :
          \/ pc'[x] = "idle"
          \/ pc'[x] = pc[x] /\ target'[x] = target[x] /\ path'[x] = path[x]
    BY <1>0 DEF FailsElsewhere, ReturnError, Return, TypeOK
  <1>4. \A x \in Workers : job'[x] = "ok" => job[x] = "ok" /\ pc'[x] = pc[x]
    BY <1>0 DEF FailsElsewhere, ReturnError, Return, LocalsOK, TypeOK
  <1>5. view' = view \/ \E t \in Targets : pod[t] # "none" /\ view' = [view EXCEPT ![t] = "unsure"]
    BY <1>0 DEF FailsElsewhere, ReturnError, Return, LocalsOK, CallOK
  <1>6. CallOK'
    BY <1>0, <1>2, <1>3, <1>5 DEF CallOK, UnpublishSteps, TypeOK
  <1>7. SeenOK'
    <2>1. \A x \in Workers : job'[x] = "ok" => path'[x] = path[x]
      BY <1>0, <1>3, <1>4 DEF LocalsOK
    <2> QED
      BY <1>0, <1>2, <1>3, <1>4, <2>1 DEF SeenOK
  <1>8. NoBareBind' /\ PublishedIsMounted'
    BY <1>0, <1>2, <1>5 DEF NoBareBind, PublishedIsMounted, TypeOK
  <1> QED
    BY <1>1, <1>6, <1>7, <1>8 DEF PInv

LEMMA PInvNode == PInv /\ NodeStep => PInv'
  BY PInvStep, PInvElsewhere DEF NodeStep

LEMMA AskOfCall ==
    ASSUME PInv, AskOK, NEW w \in Workers, NEW t \in Targets, Asks(w, t)
    PROVE  AskOK'
  <1>0. TypeOK /\ LocalsOK /\ CallOK /\ AskOK
    BY DEF PInv, Typed
  <1>1. PICK s \in {"pubCheck", "unpCheck"} :
          /\ Call(w, t, s)
          /\ s = "pubCheck" => pod[t] = "bound"
    BY DEF Asks
  <1>2. /\ pc'[w] = s /\ target'[w] = t /\ waiting'[w] /\ orphans' = orphans
        /\ view'[t] = "unsure" /\ \A u \in Targets \ {t} : view'[u] = view[u]
        /\ \A x \in Workers \ {w} :
             pc'[x] = pc[x] /\ target'[x] = target[x] /\ waiting'[x] = waiting[x]
        /\ \A x \in Workers : ~(waiting[x] /\ target[x] = t)
    BY <1>0, <1>1 DEF Call, GoTo, TypeOK, host
  <1>3. \A x \in Workers \ {w} : pc[x] # "idle" => target[x] \in Targets
    BY <1>0 DEF LocalsOK
  <1>4. \A x \in Workers \ {w} : waiting[x] => pc[x] # "idle"
    BY <1>0 DEF LocalsOK
  <1>5. \A x \in Workers \ {w} : pc[x] \in UnpublishSteps /\ target[x] = t => pod[t] = "deleted"
    BY <1>0 DEF CallOK
  <1>6. ASSUME NEW x \in Workers, pc'[x] \in UnpublishSteps
        PROVE  /\ view'[target'[x]] # "in"
               /\ \A y \in Workers :
                    waiting'[y] /\ target'[y] = target'[x] => pc'[y] \in UnpublishSteps
    <2>1. CASE target'[x] = t
      <3>1. s = "unpCheck"
        BY <1>1, <1>2, <1>5, <1>6, <2>1 DEF UnpublishSteps
      <3> QED
        BY <1>2, <2>1, <3>1 DEF UnpublishSteps
    <2>2. CASE target'[x] # t
      <3>1. x # w /\ pc[x] \in UnpublishSteps /\ target'[x] = target[x]
        BY <1>2, <1>6, <2>2
      <3>2. target[x] \in Targets \ {t}
        BY <1>3, <2>2, <3>1 DEF UnpublishSteps
      <3> QED
        BY <1>0, <1>2, <3>1, <3>2 DEF AskOK
    <2> QED
      BY <2>1, <2>2
  <1>7. \A x \in Workers : waiting'[x] => view'[target'[x]] = "unsure"
    BY <1>0, <1>2, <1>3, <1>4 DEF AskOK
  <1>8. \A x \in Workers : pc'[x] # "idle" => view'[target'[x]] # "never"
    BY <1>0, <1>2, <1>3 DEF AskOK
  <1>9. \A u \in Targets : orphans'[u] > 0 => view'[u] # "never"
    BY <1>0, <1>2 DEF AskOK
  <1>10. \A x, y \in Workers : waiting'[x] /\ waiting'[y] /\ target'[x] = target'[y] => x = y
    BY <1>0, <1>2 DEF AskOK
  <1> QED
    BY <1>6, <1>7, <1>8, <1>9, <1>10 DEF AskOK

LEMMA AskOfAnswer ==
    ASSUME PInv, AskOK, NEW w \in Workers, Answers(w)
    PROVE  AskOK'
  <1>0. Typed /\ TypeOK /\ LocalsOK /\ AskOK
    BY DEF PInv, Typed
  <1>1. PICK v \in {"unsure", "in", "out"} :
          /\ Return(w, v)
          /\ v = "in" => pc[w] \in PublishSteps
    BY DEF Answers, PublishSteps
  <1>2. /\ pc[w] # "idle" /\ target[w] \in Targets
        /\ pc'[w] = "idle" /\ ~waiting'[w]
        /\ \A x \in Workers \ {w} :
             pc'[x] = pc[x] /\ target'[x] = target[x] /\ waiting'[x] = waiting[x]
        /\ view' = IF waiting[w] THEN [view EXCEPT ![target[w]] = v] ELSE view
    BY <1>0, <1>1, ReturnType DEF Answers, LocalsOK
  <1>3. /\ \A u \in Targets \ {target[w]} : view'[u] = view[u]
        /\ waiting[w] => view'[target[w]] = v
        /\ ~waiting[w] => view' = view
        /\ \A u \in Targets : view[u] # "never" => view'[u] # "never"
    BY <1>0, <1>2 DEF TypeOK
  <1>4. \A x \in Workers : pc[x] # "idle" => target[x] \in Targets
    BY <1>0 DEF LocalsOK
  <1>5. \A x \in Workers : pc'[x] # "idle" => view'[target'[x]] # "never"
    BY <1>0, <1>2, <1>3, <1>4 DEF AskOK
  <1>6. ASSUME NEW u \in Targets, orphans'[u] > 0 PROVE view'[u] # "never"
    <2>1. u \in Paths
      BY DEF Paths
    <2>2. orphans[u] > 0 \/ (u = path[w] /\ pc[w] = "pubWait")
      BY <1>6, <2>1 DEF Answers
    <2>3. pc[w] = "pubWait" => path[w] \in GlobalPaths \cup {target[w]}
      BY <1>0 DEF LocalsOK
    <2>4. view[u] # "never"
      BY <1>0, <1>2, <2>2, <2>3, PathAssumption DEF AskOK
    <2> QED
      BY <1>3, <2>4
  <1>7. \A x \in Workers : waiting'[x] => x # w /\ waiting[x] /\ pc[x] # "idle"
    BY <1>0, <1>2 DEF LocalsOK
  <1>8. ASSUME NEW x \in Workers, waiting'[x] PROVE view'[target'[x]] = "unsure"
    BY <1>0, <1>2, <1>3, <1>4, <1>7, <1>8 DEF AskOK
  <1>9. \A x, y \in Workers : waiting'[x] /\ waiting'[y] /\ target'[x] = target'[y] => x = y
    BY <1>0, <1>2, <1>7 DEF AskOK
  <1>10. ASSUME NEW x \in Workers, pc'[x] \in UnpublishSteps
         PROVE  /\ view'[target'[x]] # "in"
                /\ \A y \in Workers :
                     waiting'[y] /\ target'[y] = target'[x] => pc'[y] \in UnpublishSteps
    <2>1. x # w /\ pc[x] \in UnpublishSteps /\ pc[x] # "idle" /\ target'[x] = target[x]
      BY <1>2, <1>10 DEF UnpublishSteps
    <2>2. view'[target[x]] # "in"
      <3>1. CASE waiting[w] /\ target[w] = target[x]
        <4>1. pc[w] \in UnpublishSteps
          BY <1>0, <2>1, <3>1 DEF AskOK
        <4>2. v # "in"
          BY <1>1, <4>1 DEF PublishSteps, UnpublishSteps
        <4> QED
          BY <1>3, <3>1, <4>2
      <3>2. CASE ~(waiting[w] /\ target[w] = target[x])
        BY <1>0, <1>3, <1>4, <2>1, <3>2 DEF AskOK
      <3> QED
        BY <3>1, <3>2
    <2> QED
      BY <1>0, <1>2, <1>7, <2>1, <2>2 DEF AskOK
  <1> QED
    BY <1>5, <1>6, <1>8, <1>9, <1>10 DEF AskOK

\* A step with which no call begins, no view changes but from "in" to "unsure",
\* and a mount command loses its sender at most.
LEMMA AskElsewhere ==
    ASSUME PInv, AskOK,
           \A x \in Workers :
             \/ pc'[x] = "idle" /\ ~waiting'[x]
             \/ /\ pc'[x] # "idle" => pc[x] # "idle"
                /\ pc'[x] \in UnpublishSteps <=> pc[x] \in UnpublishSteps
                /\ target'[x] = target[x] /\ (waiting'[x] => waiting[x]),
           \A t \in Targets : view'[t] = view[t] \/ (view[t] = "in" /\ view'[t] = "unsure"),
           \A p \in Paths : orphans'[p] > 0 => Commanded(p)
    PROVE  AskOK'
  <1>0. TypeOK /\ LocalsOK /\ AskOK
    BY DEF PInv, Typed
  <1>1. \A x \in Workers : pc[x] # "idle" => target[x] \in Targets
    BY <1>0 DEF LocalsOK
  <1>2. \A x \in Workers : waiting[x] => pc[x] # "idle"
    BY <1>0 DEF LocalsOK
  <1>3. \A x \in Workers : pc'[x] # "idle" => view'[target'[x]] # "never"
    BY <1>0, <1>1 DEF AskOK
  <1>4. ASSUME NEW t \in Targets, orphans'[t] > 0 PROVE view'[t] # "never"
    <2>1. orphans[t] > 0 \/ \E x \in Workers : pc[x] # "idle" /\ target[x] = t
      BY <1>0, <1>4, PathAssumption DEF Commanded, LocalsOK, Paths
    <2>2. view[t] # "never"
      BY <1>0, <2>1 DEF AskOK
    <2> QED
      BY <2>2
  <1>5. ASSUME NEW x \in Workers, waiting'[x] PROVE view'[target'[x]] = "unsure"
    BY <1>0, <1>1, <1>2, <1>5 DEF AskOK
  <1>6. \A x, y \in Workers : waiting'[x] /\ waiting'[y] /\ target'[x] = target'[y] => x = y
    BY <1>0 DEF AskOK
  <1>7. ASSUME NEW x \in Workers, pc'[x] \in UnpublishSteps
        PROVE  /\ view'[target'[x]] # "in"
               /\ \A y \in Workers :
                    waiting'[y] /\ target'[y] = target'[x] => pc'[y] \in UnpublishSteps
    <2>1. pc[x] \in UnpublishSteps /\ pc[x] # "idle" /\ target'[x] = target[x]
      BY <1>7 DEF UnpublishSteps
    <2> QED
      BY <1>0, <1>1, <2>1 DEF AskOK
  <1> QED
    BY <1>3, <1>4, <1>5, <1>6, <1>7 DEF AskOK

LEMMA AskStep ==
    ASSUME PInv, AskOK, NodeStep
    PROVE  AskOK'
  <1>0. TypeOK /\ LocalsOK
    BY DEF PInv, Typed
  <1>1. ASSUME NEW w \in Workers, Moves(w) PROVE AskOK'
    <2>1. PICK s \in PublishSteps \cup UnpublishSteps :
            /\ pc[w] # "idle" /\ GoTo(w, s)
            /\ s \in UnpublishSteps <=> pc[w] \in UnpublishSteps
      BY <1>1 DEF Moves
    <2>2. \A x \in Workers :
             /\ pc'[x] # "idle" => pc[x] # "idle"
             /\ pc'[x] \in UnpublishSteps <=> pc[x] \in UnpublishSteps
      BY <1>0, <2>1 DEF GoTo, TypeOK
    <2> QED
      BY <1>1, <2>2, AskElsewhere DEF Moves, Commanded
  <1>2. CASE Commands
    BY <1>2, AskElsewhere DEF Commands, Commanded
  <1>3. CASE Abandons
    BY <1>3, AskElsewhere DEF Abandons
  <1>4. CASE PodsChange
    <2>1. \A t \in Targets : view'[t] = view[t] \/ (view[t] = "in" /\ view'[t] = "unsure")
      BY <1>0, <1>4 DEF PodsChange, TypeOK
    <2> QED
      BY <1>4, <2>1, AskElsewhere DEF PodsChange, Commanded
  <1> QED
    BY <1>1, <1>2, <1>3, <1>4, StepsHaveKinds, AskOfCall, AskOfAnswer DEF Kinds

LEMMA AskInit == Init => AskOK
  <1> SUFFICES ASSUME Init PROVE AskOK
    OBVIOUS
  <1>1. \A w \in Workers : pc[w] = "idle" /\ ~waiting[w] /\ pc[w] \notin UnpublishSteps
    BY DEF Init, UnpublishSteps
  <1>2. \A t \in Targets : ~(orphans[t] > 0)
    BY DEF Init, Paths
  <1> QED
    BY <1>1, <1>2 DEF AskOK

-----------------------------------------------------------------------------
(* The records of the metrics, when they can be made.                      *)

AllRecorded(t) == \A f \in RecordFiles : metrics[t][f] # "absent"

\* A call is about to mount on the target itself, with its records made, or
\* the volume is shared.
RecordOK(w) ==
    /\ pc[w] \in {"pubShared", "pubBind"} => VolumeOf[target[w]] \in Shared
    /\ pc[w] \in {"pubCreate", "pubSend", "pubWait"} \cup RecordSteps /\ path[w] # target[w] =>
         VolumeOf[target[w]] \in Shared
    /\ pc[w] \in {"podWrite", "mountLook", "mountOpen", "mountWrite"} =>
         metrics[target[w]]["podInfo"] # "absent"
    /\ pc[w] = "mountWrite" => metrics[target[w]]["mountPointInfo"] # "absent"
    /\ pc[w] \in {"pubSend", "pubWait"} /\ path[w] = target[w] => AllRecorded(target[w])

\* A record that has been emptied is about to be written by a call.
EmptyIsWriting ==
    \A t \in Targets, f \in RecordFiles :
        metrics[t][f] = "empty" => \E w \in Workers : Writing(w, t, f)

\* A record without its line has been torn by a fault.
TornByFault ==
    \A t \in Targets, f \in RecordFiles : metrics[t][f] = "torn" => budget < MaxFaults

RInv ==
    /\ Typed
    /\ budget <= MaxFaults
    /\ EmptyIsWriting
    /\ TornByFault
    /\ \A w \in Workers : RecordOK(w)
    /\ \A t \in Targets : orphans[t] > 0 /\ VolumeOf[t] \notin Shared => AllRecorded(t)
    /\ \A t \in Targets : mounts[t] # <<>> /\ VolumeOf[t] \notin Shared => AllRecorded(t)

\* A mount command whose sender is gone was sent by a call that waited.
LEMMA OrphanSteps ==
    ASSUME Typed, Typed', [Next]_vars, NEW p \in Paths, orphans'[p] > 0
    PROVE  orphans[p] > 0 \/ \E x \in Workers : pc[x] = "pubWait" /\ path[x] = p
  <1>0. TypeOK /\ LocalsOK /\ orphans \in [Paths -> Nat]
    BY DEF Typed, TypeOK
  <1> USE DEF host
  <1>1. CASE UNCHANGED orphans
    BY <1>1
  <1>2. ASSUME NEW w \in Workers, PubAnswerLost(w)
        PROVE  orphans[p] > 0 \/ (pc[w] = "pubWait" /\ path[w] = p)
    <2>1. CASE path[w] # p
      BY <1>0, <1>2, <2>1 DEF PubAnswerLost
    <2> QED
      BY <1>2, <2>1 DEF PubAnswerLost
  <1>3. ASSUME NEW q \in Paths, OrphanMount(q) \/ OrphanFail(q)
        PROVE  orphans[p] > 0
    BY <1>0, <1>3 DEF OrphanMount, OrphanFail
  <1>4. CASE Restart
    <2> DEFINE Senders == {w \in Workers : job[w] = "sent" /\ path[w] = p}
    <2>1. orphans'[p] = orphans[p] + Cardinality(Senders)
      BY <1>4 DEF Restart
    <2>2. CASE Senders = {}
      BY <1>0, <2>1, <2>2, FS_EmptySet
    <2>3. CASE Senders # {}
      BY <1>0, <2>3 DEF LocalsOK
    <2> QED
      BY <2>2, <2>3
  <1>5. ASSUME NEW w \in Workers,
               \/ PubCheck(w) \/ PubSave(w) \/ PubShared(w) \/ PubCreate(w)
               \/ WriteMetricsInfo(w) \/ PubSend(w)
               \/ PubAnswer(w) \/ PubBind(w) \/ NodeUnpublishVolume(w)
               \/ Connector(w) \/ GiveUp(w)
        PROVE  UNCHANGED orphans
    BY <1>5, RecordMoves DEF PubCheck, PubSave, PubShared, PubCreate, PubSend, PubAnswer, PubBind,
                NodeUnpublishVolume, UnpCheck, UnpShared, UnpCount, UnpRun,
                Connector, JobMount, JobFail, GiveUp
  <1>6. ASSUME \/ \E t \in Targets : PodBound(t) \/ PodDeleted(t) \/ KubeletCalls(t)
                                       \/ KubeletForgets(t)
               \/ \E v \in Volumes : GlobalDirAppears(v)
               \/ UNCHANGED vars
        PROVE  UNCHANGED orphans
    BY <1>6 DEF PodBound, PodDeleted, KubeletCalls, CallPublish, CallUnpublish, Call,
                KubeletForgets, GlobalDirAppears, vars
  <1> QED
    BY <1>1, <1>2, <1>3, <1>4, <1>5, <1>6 DEF Next, NodePublishVolume

\* A mount appears on a target by a mount command or a bind.
LEMMA FirstMount ==
    ASSUME Typed, [Next]_vars, NEW t \in Targets, mounts[t] = <<>>, mounts'[t] # <<>>
    PROVE  \/ orphans[t] > 0
           \/ \E w \in Workers : job[w] = "sent" /\ path[w] = t
           \/ \E w \in Workers : pc[w] = "pubBind" /\ target[w] = t
  <1>0. TypeOK /\ t \in Paths /\ mounts \in [Paths -> Seq({"ossfs", "bare"})]
    BY DEF Typed, TypeOK, Paths
  <1> USE DEF host
  <1>1. ASSUME NEW w \in Workers, JobMount(w) PROVE job[w] = "sent" /\ path[w] = t
    BY <1>0, <1>1 DEF JobMount, OnTop
  <1>2. ASSUME NEW p \in Paths, OrphanMount(p) PROVE orphans[t] > 0
    BY <1>0, <1>2 DEF OrphanMount, OnTop
  <1>3. ASSUME NEW w \in Workers, PubBind(w) PROVE pc[w] = "pubBind" /\ target[w] = t
    BY <1>0, <1>3 DEF PubBind, OnTop
  <1>4. ASSUME NEW w \in Workers, UnpRun(w) PROVE FALSE
    <2>1. CASE mounts' = mounts
      BY <2>1
    <2>2. CASE mounts[target[w]] # <<>> /\ TakeOff(target[w])
      BY <1>0, <2>2 DEF TakeOff
    <2> QED
      BY <1>4, <2>1, <2>2 DEF UnpRun
  <1>5. ASSUME \/ \E w \in Workers :
                    \/ PubCheck(w) \/ PubSave(w) \/ PubShared(w) \/ PubCreate(w)
                    \/ WriteMetricsInfo(w) \/ PubSend(w)
                    \/ PubAnswer(w) \/ PubAnswerLost(w) \/ UnpCheck(w) \/ UnpShared(w)
                    \/ UnpCount(w) \/ JobFail(w) \/ GiveUp(w)
               \/ \E p \in Paths : OrphanFail(p)
               \/ \E u \in Targets : PodBound(u) \/ PodDeleted(u) \/ KubeletCalls(u)
                                       \/ KubeletForgets(u)
               \/ Restart
               \/ \E v \in Volumes : GlobalDirAppears(v)
               \/ UNCHANGED vars
        PROVE  mounts' = mounts
    BY <1>5, RecordMoves
       DEF PubCheck, PubSave, PubShared, PubCreate, PubSend, PubAnswer,
                PubAnswerLost, UnpCheck, UnpShared, UnpCount, JobFail, GiveUp, OrphanFail,
                PodBound, PodDeleted, KubeletCalls, CallPublish, CallUnpublish, Call,
                KubeletForgets, Restart, GlobalDirAppears, vars
  <1> QED
    BY <1>1, <1>2, <1>3, <1>4, <1>5
       DEF Next, NodePublishVolume, NodeUnpublishVolume, Connector

\* The steps that change a record.
LEMMA RecordChanges ==
    ASSUME [Next]_vars
    PROVE  \/ metrics' = metrics
           \/ Restart
           \/ \E w \in Workers, f \in RecordFiles : OpenRecord(w, f) \/ WriteRecord(w, f)
  <1> USE DEF host
  <1>1. ASSUME NEW w \in Workers, NodePublishVolume(w), ~WriteMetricsInfo(w)
        PROVE  metrics' = metrics
    BY <1>1 DEF NodePublishVolume, PubCheck, PubSave, PubShared, PubCreate, PubSend,
                PubAnswer, PubAnswerLost, PubBind
  <1>2. ASSUME NEW w \in Workers, WriteMetricsInfo(w)
        PROVE  \/ metrics' = metrics
               \/ \E f \in RecordFiles : OpenRecord(w, f) \/ WriteRecord(w, f)
    BY <1>2 DEF WriteMetricsInfo, LookForRecord
  <1>3. ASSUME \/ \E w \in Workers : NodeUnpublishVolume(w) \/ Connector(w) \/ GiveUp(w)
               \/ \E p \in Paths : OrphanMount(p) \/ OrphanFail(p)
               \/ \E u \in Targets : PodBound(u) \/ PodDeleted(u) \/ KubeletCalls(u)
                                       \/ KubeletForgets(u)
               \/ \E v \in Volumes : GlobalDirAppears(v)
               \/ UNCHANGED vars
        PROVE  metrics' = metrics
    BY <1>3 DEF NodeUnpublishVolume, UnpCheck, UnpShared, UnpCount, UnpRun,
                Connector, JobMount, JobFail, GiveUp, OrphanMount, OrphanFail,
                PodBound, PodDeleted, KubeletCalls, CallPublish, CallUnpublish, Call,
                KubeletForgets, GlobalDirAppears, vars
  <1> QED
    BY <1>1, <1>2, <1>3 DEF Next

LEMMA RecordsKept ==
    ASSUME Typed, [Next]_vars, NEW t \in Targets, NEW f \in RecordFiles,
           metrics[t][f] # "absent"
    PROVE  metrics[t][f]' # "absent"
  <1>0. metrics \in [Targets -> [RecordFiles -> {"absent", "empty", "torn", "full"}]]
    BY DEF Typed, TypeOK, Records
  <1>1. CASE Restart
    BY <1>0, <1>1 DEF Restart
  <1>2. ASSUME NEW w \in Workers, NEW g \in RecordFiles, OpenRecord(w, g) \/ WriteRecord(w, g)
        PROVE  metrics[t][f]' # "absent"
    BY <1>0, <1>2 DEF OpenRecord, WriteRecord
  <1> QED
    BY <1>1, <1>2, RecordChanges

\* The budget of faults is only spent.
LEMMA BudgetSteps ==
    ASSUME TypeOK, [Next]_vars
    PROVE  budget' <= budget /\ budget' \in Int
  <1>0. budget \in Nat
    BY DEF TypeOK
  <1>1. budget' = budget \/ budget' = budget - 1
    <2>1. ASSUME NEW w \in Workers, NodePublishVolume(w)
          PROVE  budget' = budget \/ budget' = budget - 1
      BY <2>1 DEF NodePublishVolume, PubCheck, PubSave, PubShared, PubCreate,
                  WriteMetricsInfo, LookForRecord, OpenRecord, WriteRecord, PubSend,
                  PubAnswer, PubAnswerLost, PubBind, IsOssfsMounted, Fault, NoFault
    <2>2. ASSUME NEW w \in Workers, NodeUnpublishVolume(w) \/ Connector(w) \/ GiveUp(w)
          PROVE  budget' = budget \/ budget' = budget - 1
      BY <2>2 DEF NodeUnpublishVolume, UnpCheck, UnpShared, UnpCount, UnpRun, Connector,
                  JobMount, JobFail, GiveUp, IsOssfsMounted, Fault, NoFault
    <2>3. ASSUME \/ \E p \in Paths : OrphanMount(p) \/ OrphanFail(p)
                 \/ \E u \in Targets : PodBound(u) \/ PodDeleted(u) \/ KubeletCalls(u)
                                         \/ KubeletForgets(u)
                 \/ Restart
                 \/ \E v \in Volumes : GlobalDirAppears(v)
                 \/ UNCHANGED vars
          PROVE  budget' = budget \/ budget' = budget - 1
      BY <2>3 DEF OrphanMount, OrphanFail, PodBound, PodDeleted, KubeletCalls, CallPublish,
                  CallUnpublish, Call, KubeletForgets, Restart, GlobalDirAppears, vars,
                  Fault, NoFault
    <2> QED
      BY <2>1, <2>2, <2>3 DEF Next
  <1> QED
    BY <1>0, <1>1

\* A call that is about to write a record writes it, or is killed.
LEMMA WritersStay ==
    ASSUME Typed, [Next]_vars, NEW x \in Workers, NEW f \in RecordFiles,
           pc[x] = WriteStep[f]
    PROVE  \/ pc'[x] = pc[x] /\ target'[x] = target[x]
           \/ WriteRecord(x, f)
           \/ Restart
  <1>0. TypeOK
    BY DEF Typed
  <1>f. /\ pc[x] \in {"podWrite", "mountWrite"}
        /\ \A g \in RecordFiles : /\ pc[x] # LookStep[g] /\ pc[x] # OpenStep[g]
                                  /\ pc[x] = WriteStep[g] => g = f
    BY DEF RecordFiles, LookStep, OpenStep, WriteStep
  <1> USE DEF kubelet, host, calls, GoTo
  <1>1. ASSUME NEW w \in Workers, NodePublishVolume(w), ~WriteMetricsInfo(w)
        PROVE  pc'[x] = pc[x] /\ target'[x] = target[x]
    <2>1. w # x
      BY <1>f, <1>1 DEF NodePublishVolume, PubCheck, PubSave, PubShared, PubCreate, PubSend,
                        PubAnswer, PubAnswerLost, PubBind
    <2> QED
      BY <1>0, <1>1, <2>1
         DEF NodePublishVolume, PubCheck, PubSave, PubShared, PubCreate, PubSend, PubAnswer,
             PubAnswerLost, PubBind, ReturnError, Return, TypeOK
  <1>2. ASSUME NEW w \in Workers, WriteMetricsInfo(w)
        PROVE  (pc'[x] = pc[x] /\ target'[x] = target[x]) \/ WriteRecord(x, f)
    <2>1. CASE w = x
      BY <1>2, <1>f, <2>1 DEF WriteMetricsInfo, LookForRecord, OpenRecord, WriteRecord
    <2>2. CASE w # x
      BY <1>0, <1>2, <2>2, RecordMoves DEF TypeOK
    <2> QED
      BY <2>1, <2>2
  <1>3. ASSUME NEW w \in Workers, NodeUnpublishVolume(w)
        PROVE  pc'[x] = pc[x] /\ target'[x] = target[x]
    <2>1. w # x
      BY <1>f, <1>3 DEF NodeUnpublishVolume, UnpCheck, UnpShared, UnpCount, UnpRun
    <2> QED
      BY <1>0, <1>3, <2>1
         DEF NodeUnpublishVolume, UnpCheck, UnpShared, UnpCount, UnpRun, ReturnError, Return,
             TypeOK
  <1>4. ASSUME NEW t \in Targets, KubeletCalls(t)
        PROVE  pc'[x] = pc[x] /\ target'[x] = target[x]
    BY <1>0, <1>f, <1>4 DEF KubeletCalls, CallPublish, CallUnpublish, Call, TypeOK
  <1>5. ASSUME \/ \E w \in Workers : Connector(w) \/ GiveUp(w)
               \/ \E p \in Paths : OrphanMount(p) \/ OrphanFail(p)
               \/ \E t \in Targets : PodBound(t) \/ PodDeleted(t) \/ KubeletForgets(t)
               \/ \E v \in Volumes : GlobalDirAppears(v)
               \/ UNCHANGED vars
        PROVE  pc' = pc /\ target' = target
    BY <1>5 DEF Connector, JobMount, JobFail, GiveUp, OrphanMount, OrphanFail,
                PodBound, PodDeleted, KubeletForgets, GlobalDirAppears, vars
  <1> QED
    BY <1>1, <1>2, <1>3, <1>4, <1>5 DEF Next

LEMMA EmptyRecordStep ==
    ASSUME Typed, EmptyIsWriting, [Next]_vars PROVE EmptyIsWriting'
  <1>0. /\ LocalsOK /\ pc \in [Workers -> {"idle"} \cup PublishSteps \cup UnpublishSteps]
        /\ metrics \in [Targets -> [RecordFiles -> {"absent", "empty", "torn", "full"}]]
    BY DEF Typed, TypeOK, Records
  <1> SUFFICES ASSUME NEW t \in Targets, NEW f \in RecordFiles, metrics[t][f]' = "empty"
               PROVE  \E w \in Workers : Writing(w, t, f)'
    BY DEF EmptyIsWriting
  <1>1. ~Restart
    BY <1>0 DEF Restart
  <1>2. ASSUME NEW w \in Workers, NEW g \in RecordFiles, OpenRecord(w, g),
               metrics[t][f] # "empty"
        PROVE  \E x \in Workers : Writing(x, t, f)'
    <2>1. metrics' = [metrics EXCEPT ![target[w]][g] = "empty"] /\ GoTo(w, WriteStep[g])
      BY <1>2 DEF OpenRecord
    <2>2. g = f /\ target[w] = t /\ target' = target
      BY <1>0, <1>2, <2>1 DEF OpenRecord, calls
    <2> QED
      BY <1>0, <2>1, <2>2 DEF Writing, GoTo
  <1>3. ASSUME NEW w \in Workers, NEW g \in RecordFiles, WriteRecord(w, g)
        PROVE  /\ metrics[t][f] = "empty"
               /\ ~Writing(w, t, f)
    <2>1. target[w] = t /\ g = f => metrics[t][f]' # "empty"
      BY <1>0, <1>3 DEF WriteRecord
    <2>2. pc[w] = WriteStep[f] => g = f
      BY <1>3 DEF WriteRecord, RecordFiles, WriteStep
    <2>3. ~(target[w] = t /\ g = f) => metrics[t][f]' = metrics[t][f]
      BY <1>0, <1>3 DEF WriteRecord
    <2> QED
      BY <2>1, <2>2, <2>3 DEF Writing
  <1>4. CASE metrics[t][f] = "empty"
    <2>1. PICK x \in Workers : Writing(x, t, f)
      BY <1>4 DEF EmptyIsWriting
    <2>2. pc'[x] = pc[x] /\ target'[x] = target[x]
      BY <1>1, <1>3, <2>1, WritersStay DEF Writing
    <2> QED
      BY <2>1, <2>2 DEF Writing
  <1> QED
    BY <1>1, <1>2, <1>3, <1>4, RecordChanges

LEMMA TornRecordStep ==
    ASSUME Typed, budget <= MaxFaults, TornByFault, [Next]_vars PROVE TornByFault'
  <1>0. /\ metrics \in [Targets -> [RecordFiles -> {"absent", "empty", "torn", "full"}]]
        /\ budget \in Nat /\ budget' \in Int /\ budget' <= budget /\ MaxFaults \in Nat
    BY BudgetSteps, FaultAssumption DEF Typed, TypeOK, Records
  <1> SUFFICES ASSUME NEW t \in Targets, NEW f \in RecordFiles,
                      metrics[t][f]' = "torn", metrics[t][f] # "torn"
               PROVE  budget' < MaxFaults
    BY <1>0 DEF TornByFault
  <1>1. CASE Restart
    BY <1>0, <1>1 DEF Restart, Fault
  <1>2. ASSUME NEW w \in Workers, NEW g \in RecordFiles, OpenRecord(w, g)
        PROVE  FALSE
    BY <1>0, <1>2 DEF OpenRecord
  <1>3. ASSUME NEW w \in Workers, NEW g \in RecordFiles, WriteRecord(w, g)
        PROVE  budget' < MaxFaults
    BY <1>0, <1>3 DEF WriteRecord, Fault
  <1> QED
    BY <1>1, <1>2, <1>3, RecordChanges

LEMMA RecordStep ==
    ASSUME "metrics" \notin Faults, Typed, [Next]_vars,
           NEW x \in Workers, RecordOK(x)
    PROVE  RecordOK(x)'
  <1>0. TypeOK
    BY DEF Typed
  <1>r. \A t \in Targets, f \in RecordFiles :
          metrics[t][f] # "absent" => metrics[t][f]' # "absent"
    BY RecordsKept
  <1>t. pc[x] # "idle" => target[x] \in Targets
    BY DEF Typed, LocalsOK
  <1> USE DEF kubelet, host, calls, GoTo
  <1>2. ASSUME pc'[x] = pc[x], target'[x] = target[x], path'[x] = path[x]
        PROVE  RecordOK(x)'
    BY <1>2, <1>r, <1>t DEF RecordOK, RecordSteps, AllRecorded, RecordFiles
  <1>1. ASSUME NEW w \in Workers, NEW v, Return(w, v) PROVE RecordOK(x)'
    <2>1. CASE x = w
      BY <1>0, <1>1, <2>1 DEF Return, RecordOK, RecordSteps, TypeOK
    <2>2. CASE x # w
      BY <1>0, <1>1, <1>2, <2>2 DEF Return, TypeOK
    <2> QED
      BY <2>1, <2>2
  <1>3. ASSUME pc'[x] \in {"idle", "pubCheck", "pubSave"} \cup UnpublishSteps
        PROVE  RecordOK(x)'
    BY <1>3 DEF RecordOK, RecordSteps, UnpublishSteps
  <1>4. ASSUME NEW w \in Workers, PubCheck(w) \/ NodeUnpublishVolume(w)
        PROVE  RecordOK(x)'
    <2>1. CASE UnpShared(w)
      BY <1>0, <1>2, <1>3, <2>1 DEF UnpShared, UnpublishSteps, TypeOK
    <2>2. CASE (GoTo(w, "pubSave") \/ GoTo(w, "unpShared") \/ GoTo(w, "unpRun"))
                  /\ UNCHANGED <<target, path>>
      BY <1>0, <1>2, <1>3, <2>2 DEF UnpublishSteps, TypeOK
    <2> QED
      BY <1>1, <1>4, <2>1, <2>2
         DEF PubCheck, NodeUnpublishVolume, UnpCheck, UnpCount, UnpRun, ReturnError
  <1>5. ASSUME NEW w \in Workers, PubSave(w) PROVE RecordOK(x)'
    <2>1. CASE VolumeOf[target[w]] \in Shared /\ GoTo(w, "pubShared")
                  /\ UNCHANGED <<path, target>>
      BY <1>0, <1>2, <2>1 DEF RecordOK, RecordSteps, TypeOK
    <2>2. CASE GoTo(w, "pubCreate") /\ path' = [path EXCEPT ![w] = target[w]]
                  /\ UNCHANGED target
      BY <1>0, <1>2, <2>2 DEF RecordOK, RecordSteps, TypeOK
    <2> QED
      BY <1>1, <1>5, <2>1, <2>2 DEF PubSave, ReturnError
  <1>6. ASSUME NEW w \in Workers, PubShared(w) PROVE RecordOK(x)'
    <2>1. CASE x = w
      BY <1>0, <1>6, <2>1 DEF PubShared, RecordOK, RecordSteps, TypeOK
    <2>2. CASE x # w
      BY <1>0, <1>2, <1>6, <2>2 DEF PubShared, TypeOK
    <2> QED
      BY <2>1, <2>2
  <1>7. ASSUME NEW w \in Workers, PubCreate(w) PROVE RecordOK(x)'
    <2>1. CASE /\ pc[w] = "pubCreate" /\ UNCHANGED calls
               /\ GoTo(w, IF path[w] = target[w] THEN "podLook" ELSE "pubSend")
      <3>1. CASE x = w
        BY <1>0, <2>1, <3>1 DEF RecordOK, RecordSteps, TypeOK
      <3>2. CASE x # w
        BY <1>0, <1>2, <2>1, <3>2 DEF TypeOK
      <3> QED
        BY <3>1, <3>2
    <2>2. ~Fault("metrics")
      BY DEF Fault
    <2> QED
      BY <1>1, <1>7, <2>1, <2>2 DEF PubCreate, ReturnError
  <1>13. ASSUME NEW w \in Workers, WriteMetricsInfo(w) PROVE RecordOK(x)'
    <2>1. CASE x # w
      BY <1>0, <1>2, <1>13, <2>1, RecordMoves DEF TypeOK
    <2>2. CASE x = w
      <3>1. PICK f \in RecordFiles : LookForRecord(w, f) \/ OpenRecord(w, f) \/ WriteRecord(w, f)
        BY <1>13 DEF WriteMetricsInfo
      <3>2. ~Fault("metrics") /\ target[w] \in Targets /\ target' = target
        BY <1>13, <1>t, <2>2, RecordMoves DEF Fault, RecordSteps
      <3>3. \/ /\ f = "podInfo" /\ AfterRecord[f] = "mountLook"
               /\ LookStep[f] = "podLook" /\ OpenStep[f] = "podOpen" /\ WriteStep[f] = "podWrite"
            \/ /\ f = "mountPointInfo" /\ AfterRecord[f] = "pubSend"
               /\ LookStep[f] = "mountLook" /\ OpenStep[f] = "mountOpen"
               /\ WriteStep[f] = "mountWrite"
        BY DEF LookStep, OpenStep, WriteStep, AfterRecord, RecordFiles
      <3>k. \A g \in RecordFiles :
              metrics[target[w]][g] # "absent" => metrics'[target[w]][g] # "absent"
        BY <1>r, <3>2
      <3>m. metrics \in [Targets -> [RecordFiles -> {"absent", "empty", "torn", "full"}]]
        BY <1>0 DEF TypeOK, Records
      <3>7. ASSUME pc[w] \in {LookStep[f], OpenStep[f], WriteStep[f]},
                   GoTo(w, AfterRecord[f]), metrics'[target[w]][f] # "absent"
            PROVE  RecordOK(x)'
        <4>1. pc'[w] = AfterRecord[f] /\ path' = path
          BY <1>0, <1>13, <3>7, RecordMoves DEF TypeOK
        <4>2. f = "mountPointInfo" => metrics[target[w]]["podInfo"] # "absent"
          BY <2>2, <3>3, <3>7 DEF RecordOK, RecordSteps
        <4>3. f = "mountPointInfo" => \A g \in RecordFiles : metrics'[target[w]][g] # "absent"
          BY <3>k, <3>7, <4>2 DEF RecordFiles
        <4>4. CASE f = "podInfo"
          BY <2>2, <3>2, <3>3, <3>7, <4>1, <4>4 DEF RecordOK, RecordSteps
        <4>5. CASE f = "mountPointInfo"
          <5>1. AllRecorded(target[w])'
            BY <3>2, <4>3, <4>5 DEF AllRecorded
          <5>2. pc'[x] = "pubSend" /\ path'[x] # target'[x] => VolumeOf[target'[x]] \in Shared
            BY <2>2, <3>2, <3>3, <3>7, <4>1, <4>5 DEF RecordOK, RecordSteps
          <5> QED
            BY <2>2, <3>2, <3>3, <4>1, <4>5, <5>1, <5>2 DEF RecordOK, RecordSteps
        <4> QED
          BY <3>3, <4>4, <4>5
      <3>4. CASE LookForRecord(w, f)
        <4>1. CASE metrics[target[w]][f] = "absent"
          BY <1>0, <2>2, <3>2, <3>3, <3>4, <3>k, <4>1
             DEF LookForRecord, RecordOK, RecordSteps, RecordFiles, TypeOK
        <4>2. CASE metrics[target[w]][f] # "absent"
          BY <3>4, <3>7, <3>k, <4>2 DEF LookForRecord
        <4> QED
          BY <4>1, <4>2
      <3>5. CASE OpenRecord(w, f)
        <4>1. GoTo(w, WriteStep[f]) /\ metrics'[target[w]][f] = "empty"
          BY <3>2, <3>5, <3>m DEF OpenRecord
        <4> QED
          BY <1>0, <2>2, <3>2, <3>3, <3>5, <3>k, <4>1
             DEF OpenRecord, RecordOK, RecordSteps, RecordFiles, TypeOK
      <3>6. CASE WriteRecord(w, f)
        <4>1. metrics[target[w]][f] # "absent"
          BY <2>2, <3>3, <3>6 DEF WriteRecord, RecordOK
        <4> QED
          BY <3>6, <3>7, <3>k, <4>1 DEF WriteRecord
      <3> QED
        BY <3>1, <3>4, <3>5, <3>6
    <2> QED
      BY <2>1, <2>2
  <1>8. ASSUME NEW w \in Workers, PubSend(w) PROVE RecordOK(x)'
    <2>1. CASE pc[w] = "pubSend" /\ GoTo(w, "pubWait") /\ UNCHANGED calls
      <3>1. CASE x = w
        BY <1>0, <1>r, <1>t, <2>1, <3>1 DEF RecordOK, RecordSteps, AllRecorded, TypeOK
      <3>2. CASE x # w
        BY <1>0, <1>2, <2>1, <3>2 DEF TypeOK
      <3> QED
        BY <3>1, <3>2
    <2> QED
      BY <1>1, <1>8, <2>1 DEF PubSend, ReturnError
  <1>9. ASSUME NEW w \in Workers, PubAnswer(w) \/ PubAnswerLost(w) \/ PubBind(w)
        PROVE  RecordOK(x)'
    <2>1. CASE /\ pc[w] = "pubWait" /\ path[w] # target[w]
               /\ GoTo(w, "pubBind") /\ UNCHANGED calls
      BY <1>0, <1>2, <2>1 DEF RecordOK, RecordSteps, TypeOK
    <2> QED
      BY <1>1, <1>9, <2>1 DEF PubAnswer, PubAnswerLost, PubBind, ReturnError
  <1>10. ASSUME NEW t \in Targets, KubeletCalls(t) PROVE RecordOK(x)'
    BY <1>0, <1>2, <1>3, <1>10
       DEF KubeletCalls, CallPublish, CallUnpublish, Call, UnpublishSteps, TypeOK
  <1>11. CASE Restart
    BY <1>3, <1>11 DEF Restart
  <1>12. ASSUME \/ \E w \in Workers : Connector(w) \/ GiveUp(w)
                \/ \E p \in Paths : OrphanMount(p) \/ OrphanFail(p)
                \/ \E t \in Targets : PodBound(t) \/ PodDeleted(t) \/ KubeletForgets(t)
                \/ \E v \in Volumes : GlobalDirAppears(v)
                \/ UNCHANGED vars
         PROVE  RecordOK(x)'
    <2>1. UNCHANGED <<pc, target, path>>
      BY <1>12 DEF Connector, JobMount, JobFail, GiveUp, OrphanMount, OrphanFail,
                   PodBound, PodDeleted, KubeletForgets, GlobalDirAppears, vars
    <2> QED
      BY <1>2, <2>1
  <1> QED
    BY <1>4, <1>5, <1>6, <1>7, <1>8, <1>9, <1>10, <1>11, <1>12, <1>13
       DEF Next, NodePublishVolume

LEMMA RInvStep ==
    ASSUME "metrics" \notin Faults, RInv, [Next]_vars PROVE RInv'
  <1>0. Typed /\ LocalsOK /\ TypeOK /\ Typed'
    BY TypedStep DEF RInv, Typed
  <1>1. ASSUME NEW t \in Targets, AllRecorded(t) PROVE AllRecorded(t)'
    BY <1>0, <1>1, RecordsKept DEF AllRecorded
  <1>2. \A x \in Workers : RecordOK(x)'
    BY <1>0, RecordStep DEF RInv
  <1>3. ASSUME NEW t \in Targets, VolumeOf[t] \notin Shared,
               NEW x \in Workers, pc[x] = "pubWait", path[x] = t
        PROVE  AllRecorded(t)
    <2>1. path[x] = target[x]
      BY <1>0, <1>3, PathAssumption DEF LocalsOK
    <2> QED
      BY <1>3, <2>1 DEF RInv, RecordOK, RecordSteps
  <1>4. ASSUME NEW t \in Targets, orphans'[t] > 0, VolumeOf[t] \notin Shared
        PROVE  AllRecorded(t)'
    <2>1. orphans[t] > 0 \/ \E x \in Workers : pc[x] = "pubWait" /\ path[x] = t
      BY <1>0, <1>4, OrphanSteps DEF Paths
    <2> QED
      BY <1>1, <1>3, <1>4, <2>1 DEF RInv
  <1>5. ASSUME NEW t \in Targets, mounts'[t] # <<>>, VolumeOf[t] \notin Shared
        PROVE  AllRecorded(t)'
    <2>1. CASE mounts[t] # <<>>
      BY <1>1, <1>5, <2>1 DEF RInv
    <2>2. CASE mounts[t] = <<>>
      <3>1. \/ orphans[t] > 0
            \/ \E w \in Workers : job[w] = "sent" /\ path[w] = t
            \/ \E w \in Workers : pc[w] = "pubBind" /\ target[w] = t
        BY <1>0, <1>5, <2>2, FirstMount
      <3>2. \A w \in Workers : job[w] = "sent" => pc[w] = "pubWait"
        BY <1>0 DEF LocalsOK
      <3>3. \A w \in Workers : ~(pc[w] = "pubBind" /\ target[w] = t)
        BY <1>5 DEF RInv, RecordOK, RecordSteps
      <3> QED
        BY <1>1, <1>3, <1>5, <3>1, <3>2, <3>3 DEF RInv
    <2> QED
      BY <2>1, <2>2
  <1>6. budget' <= MaxFaults
    BY <1>0, BudgetSteps, FaultAssumption DEF RInv, TypeOK
  <1>7. EmptyIsWriting' /\ TornByFault'
    BY <1>0, EmptyRecordStep, TornRecordStep DEF RInv
  <1> QED
    BY <1>0, <1>2, <1>4, <1>5, <1>6, <1>7 DEF RInv

\* While the records can be made: under every other fault, an ossfs of a
\* target's own is never mounted before both records of the target exist, lost
\* answers, overlapping calls, restarts and commands whose sender is gone
\* included; and a record of a mounted target is without its line only while a
\* call is about to write it, or when a fault has torn it: a restart between
\* its open and its write, or a write that failed (WriteMetricsInfo, before
\* DoMountInHost in NodePublishVolume).
THEOREM RecordedBeforeMounted ==
    ASSUME "metrics" \notin Faults PROVE Spec => []MetricsBeforeMount
  <1>1. Init => RInv
    <2> SUFFICES ASSUME Init PROVE RInv
      OBVIOUS
    <2>1. EmptyIsWriting /\ TornByFault
      BY DEF Init, EmptyIsWriting, TornByFault
    <2>2. \A w \in Workers : RecordOK(w)
      BY DEF Init, RecordOK, RecordSteps
    <2> QED
      BY <2>1, <2>2, TypedInit, FaultAssumption DEF Init, RInv, Paths
  <1>2. RInv /\ [Next]_vars => RInv'
    BY RInvStep
  <1>3. RInv => MetricsBeforeMount
    <2> SUFFICES ASSUME RInv, NEW t \in Targets, VolumeOf[t] \notin Shared, mounts[t] # <<>>,
                        NEW f \in RecordFiles
                 PROVE  Recorded(t, f)
      BY DEF MetricsBeforeMount
    <2>1. metrics[t][f] \in {"empty", "torn", "full"}
      BY DEF RInv, AllRecorded, Typed, TypeOK, Records
    <2> QED
      BY <2>1 DEF RInv, EmptyIsWriting, TornByFault, Recorded
  <1> QED
    BY <1>1, <1>2, <1>3, PTL DEF Spec
=============================================================================
