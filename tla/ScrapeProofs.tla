----------------------------- MODULE ScrapeProofs -----------------------------
(***************************************************************************)
(* Proofs about Scrape, for any number of requests, volumes and devices.   *)
(***************************************************************************)
EXTENDS Scrape, TLAPS

\* The locals of a scrape are set when the step that uses them is reached.
LocalsOK ==
    \A s \in Scrapers :
        /\ pc[s] = "newFilter" => query[s] \in Queries
        /\ pc[s] = "load" => sample[s] \in Samples

Typed == TypeOK /\ LocalsOK

\* What is known of a disk's present pod is true.
Agrees(disks) ==
    \A v \in Pvs : disks[v] # None /\ host[v] # None /\ disks[v].pod = host[v].pod
                      => disks[v] = host[v]

\* The map agrees with the disks, and so does what each scrape is about to
\* write into it.
DiskInv == Agrees(infos) /\ \A s \in Scrapers : Agrees(found[s])

-----------------------------------------------------------------------------
(* Type correctness. *)

LEMMA DiskStatsType ==
    DiskStats \in [Devices -> Pvs \cup {None}]
  <1>1. ASSUME NEW d \in Devices
        PROVE (IF \E v \in Pvs : host[v] # None /\ host[v].dev = d
               THEN CHOOSE v \in Pvs : host[v] # None /\ host[v].dev = d
               ELSE None) \in Pvs \cup {None}
    <2>1. CASE \E v \in Pvs : host[v] # None /\ host[v].dev = d
      <3>1. (CHOOSE v \in Pvs : host[v] # None /\ host[v].dev = d) \in Pvs
        BY <2>1
      <3> QED
        BY <2>1, <3>1
    <2>2. CASE ~ \E v \in Pvs : host[v] # None /\ host[v].dev = d
      BY <2>2
    <2> QED
      BY <2>1, <2>2
  <1> QED
    BY <1>1 DEF DiskStats

LEMMA StillThereType ==
    ASSUME NEW disks \in [Pvs -> DiskInfo \cup {None}]
    PROVE  StillThere(disks) \in [Pvs -> DiskInfo \cup {None}]
  BY DEF StillThere

LEMMA InitTyped == Init => Typed
  <1> SUFFICES ASSUME Init PROVE Typed
    OBVIOUS
  <1>0. MaxFaults \in Nat /\ MaxMoves \in Nat
    BY FaultAssumption
  <1>1. /\ stats \in [Scrapers -> [Devices -> Pvs \cup {None}]]
        /\ found \in [Scrapers -> [Pvs -> DiskInfo \cup {None}]]
        /\ infos \in [Pvs -> DiskInfo \cup {None}]
    BY DEF Init, NoDisks, NoStats
  <1>3. TypeOK
    BY <1>0, <1>1 DEF Init, TypeOK, Steps
  <1>2. LocalsOK
    BY DEF Init, LocalsOK
  <1> QED
    BY <1>3, <1>2 DEF Typed

LEMMA RequestTyped ==
    ASSUME Typed, NEW s \in Scrapers, NEW q \in Queries \cup {None}, Request(s, q)
    PROVE  Typed'
  <1>1. TypeOK'
    BY DEF Request, GoTo, Typed, TypeOK, Steps
  <1>2. LocalsOK'
    BY DEF Request, GoTo, Typed, TypeOK, LocalsOK
  <1> QED
    BY <1>1, <1>2 DEF Typed

LEMMA ServeHTTPTyped ==
    ASSUME Typed, NEW s \in Scrapers, ServeHTTP(s)
    PROVE  Typed'
  <1>1. CASE NewFilter(s)
    <2>1. query[s] \in SUBSET Pvs
      BY <1>1, QueryAssumption DEF NewFilter, Typed, LocalsOK
    <2>2. TypeOK'
      BY <1>1, <2>1 DEF NewFilter, GoTo, Typed, TypeOK, Steps
    <2>3. LocalsOK'
      BY <1>1 DEF NewFilter, GoTo, Typed, TypeOK, LocalsOK
    <2> QED
      BY <2>2, <2>3 DEF Typed
  <1>2. CASE StoreClaim(s)
    <2>1. filter' \in (SUBSET Pvs) \cup {None}
      BY <1>2 DEF StoreClaim, Typed, TypeOK
    <2>0. \E A \in SUBSET adding[s] : adding' = [adding EXCEPT ![s] = A]
      BY <1>2 DEF StoreClaim, Typed, TypeOK
    <2>2. adding' \in [Scrapers -> SUBSET Pvs]
      BY <2>0 DEF Typed, TypeOK
    <2>3. pc[s] = "store" /\ (GoTo(s, "stats") \/ GoTo(s, "idle") \/ pc' = pc)
      BY <1>2 DEF StoreClaim
    <2>6. /\ pc' \in [Scrapers -> Steps]
          /\ pc'[s] \in {"stats", "idle", "store"}
          /\ \A t \in Scrapers \ {s} : pc'[t] = pc[t]
      BY <2>3 DEF GoTo, Typed, TypeOK, Steps
    <2>4. TypeOK'
      BY <1>2, <2>1, <2>2, <2>6 DEF StoreClaim, Typed, TypeOK
    <2>5. LocalsOK'
      BY <1>2, <2>6 DEF StoreClaim, Typed, LocalsOK
    <2> QED
      BY <2>4, <2>5 DEF Typed
  <1> QED
    BY <1>1, <1>2 DEF ServeHTTP

LEMMA FaultType ==
    ASSUME TypeOK, NEW s \in Scrapers, NEW kind, Fault(s, kind) \/ NoFault
    PROVE  faults' \in Nat /\ clean' \in [Scrapers -> BOOLEAN]
  <1>1. CASE Fault(s, kind)
    <2>1. faults' \in Nat
      BY <1>1 DEF Fault, TypeOK
    <2>2. clean' \in [Scrapers -> BOOLEAN]
      BY <1>1 DEF Fault, TypeOK
    <2> QED
      BY <2>1, <2>2
  <1>2. CASE NoFault
    BY <1>2 DEF NoFault, TypeOK
  <1> QED
    BY <1>1, <1>2

LEMMA UpdateTyped ==
    ASSUME Typed, NEW s \in Scrapers, Update(s)
    PROVE  Typed'
  <1>0. \A kind : Fault(s, kind) \/ NoFault
                    => faults' \in Nat /\ clean' \in [Scrapers -> BOOLEAN]
    BY FaultType DEF Typed
  <1>1. CASE ReadStats(s)
    <2>1. /\ stats' \in [Scrapers -> [Devices -> Pvs \cup {None}]]
          /\ pc' \in [Scrapers -> Steps]
      <3>1. GoTo(s, "paths") \/ GoTo(s, "reset")
        BY <1>1 DEF ReadStats
      <3>2. stats' = stats \/ stats' = [stats EXCEPT ![s] = DiskStats]
        BY <1>1 DEF ReadStats
      <3>3. pc' \in [Scrapers -> Steps]
        BY <3>1 DEF GoTo, Typed, TypeOK, Steps
      <3>4. stats \in [Scrapers -> [Devices -> Pvs \cup {None}]]
        BY DEF Typed, TypeOK
      <3>5. stats' \in [Scrapers -> [Devices -> Pvs \cup {None}]]
        BY <3>2, <3>4, DiskStatsType
      <3> QED
        BY <3>3, <3>5
    <2>2. TypeOK'
      BY <1>0, <1>1, <2>1 DEF ReadStats, Typed, TypeOK
    <2>3. LocalsOK'
      BY <1>1 DEF ReadStats, GoTo, Typed, TypeOK, LocalsOK
    <2> QED
      BY <2>2, <2>3 DEF Typed
  <1>2. CASE FindVolJSON(s)
    <2>1. /\ found' \in [Scrapers -> [Pvs -> DiskInfo \cup {None}]]
          /\ pc' \in [Scrapers -> Steps]
      <3>1. GoTo(s, "volumes") \/ GoTo(s, "reset")
        BY <1>2 DEF FindVolJSON
      <3>2. found' = found \/ found' = [found EXCEPT ![s] = host]
        BY <1>2 DEF FindVolJSON
      <3>3. pc' \in [Scrapers -> Steps]
        BY <3>1 DEF GoTo, Typed, TypeOK, Steps
      <3> QED
        BY <3>2, <3>3 DEF Typed, TypeOK
    <2>2. TypeOK'
      BY <1>0, <1>2, <2>1 DEF FindVolJSON, Typed, TypeOK
    <2>3. LocalsOK'
      BY <1>2 DEF FindVolJSON, GoTo, Typed, TypeOK, LocalsOK
    <2> QED
      BY <2>2, <2>3 DEF Typed
  <1>3. CASE UpdateMap(s)
    <2>1. \E disks \in [Pvs -> DiskInfo \cup {None}] : found' = [found EXCEPT ![s] = disks]
      BY <1>3, StillThereType DEF UpdateMap, NoDisks, Typed, TypeOK
    <2>2. /\ found' \in [Scrapers -> [Pvs -> DiskInfo \cup {None}]]
          /\ pc' \in [Scrapers -> Steps]
      BY <1>3, <2>1 DEF UpdateMap, GoTo, Typed, TypeOK, Steps
    <2>3. TypeOK'
      BY <1>0, <1>3, <2>2 DEF UpdateMap, Typed, TypeOK
    <2>4. LocalsOK'
      BY <1>3 DEF UpdateMap, GoTo, Typed, TypeOK, LocalsOK
    <2> QED
      BY <2>3, <2>4 DEF Typed
  <1>4. CASE Lock(s)
    <2>1. TypeOK'
      BY <1>4 DEF Lock, GoTo, Changed, Typed, TypeOK, Steps
    <2>2. LocalsOK'
      BY <1>4 DEF Lock, GoTo, Typed, TypeOK, LocalsOK
    <2> QED
      BY <2>1, <2>2 DEF Typed
  <1>5. CASE LookUp(s)
    <2>1. /\ infos' \in [Pvs -> DiskInfo \cup {None}]
          /\ todo' \in [Scrapers -> SUBSET Pvs]
      <3>1. PICK v \in todo[s] : /\ infos' = [infos EXCEPT ![v] = found[s][v]] \/ infos' = infos
                                /\ todo' = [todo EXCEPT ![s] = @ \ {v}]
        BY <1>5 DEF LookUp
      <3>2. found[s][v] \in DiskInfo \cup {None}
        BY <3>1 DEF Typed, TypeOK
      <3>3. todo[s] \ {v} \in SUBSET Pvs
        BY DEF Typed, TypeOK
      <3> QED
        BY <3>1, <3>2, <3>3 DEF Typed, TypeOK
    <2>2. TypeOK'
      BY <1>0, <1>5, <2>1 DEF LookUp, Typed, TypeOK
    <2>3. LocalsOK'
      BY <1>5 DEF LookUp, Typed, LocalsOK
    <2> QED
      BY <2>2, <2>3 DEF Typed
  <1>6. CASE Prune(s)
    <2>1. /\ infos' \in [Pvs -> DiskInfo \cup {None}]
          /\ found' \in [Scrapers -> [Pvs -> DiskInfo \cup {None}]]
          /\ due' \in [Scrapers -> SUBSET Pvs]
          /\ pc' \in [Scrapers -> Steps]
      BY <1>6 DEF Prune, GoTo, NoDisks, Typed, TypeOK, Steps
    <2>2. TypeOK'
      BY <1>6, <2>1 DEF Prune, Typed, TypeOK
    <2>3. LocalsOK'
      BY <1>6 DEF Prune, GoTo, Typed, TypeOK, LocalsOK
    <2> QED
      BY <2>2, <2>3 DEF Typed
  <1>7. CASE Range(s)
    <2>1. PICK v \in Known \ seen[s] :
            LET of == stats[s][infos[v].dev] IN
            /\ seen' = [seen EXCEPT ![s] = @ \cup {v}]
            /\ \/ of = None /\ UNCHANGED <<pc, sample, out>>
               \/ /\ of # None
                  /\ filter = None
                  /\ out' = [out EXCEPT ![s] = @ \cup {[pv |-> v, of |-> of]}]
                  /\ UNCHANGED <<pc, sample>>
               \/ /\ of # None
                  /\ filter # None
                  /\ sample' = [sample EXCEPT ![s] = [pv |-> v, of |-> of]]
                  /\ GoTo(s, "load")
                  /\ UNCHANGED out
      BY <1>7 DEF Range
    <2>2. v \in Pvs /\ infos[v] \in DiskInfo
      BY <2>1 DEF Known, Typed, TypeOK
    <2>3. stats[s][infos[v].dev] \in Pvs \cup {None}
      BY <2>2 DEF DiskInfo, Typed, TypeOK
    <2>4. /\ seen' \in [Scrapers -> SUBSET Pvs]
          /\ out' \in [Scrapers -> SUBSET Samples]
          /\ sample' \in [Scrapers -> Samples \cup {None}]
          /\ pc' \in [Scrapers -> Steps]
      <3> DEFINE of == stats[s][infos[v].dev]
      <3>1. of # None => [pv |-> v, of |-> of] \in Samples
        BY <2>2, <2>3 DEF Samples
      <3>2. seen' \in [Scrapers -> SUBSET Pvs]
        BY <2>1, <2>2 DEF Typed, TypeOK
      <3>3. out' = out \/ (of # None /\ out' = [out EXCEPT ![s] = @ \cup {[pv |-> v, of |-> of]}])
        BY <2>1
      <3>4. sample' = sample \/ (of # None /\ sample' = [sample EXCEPT ![s] = [pv |-> v, of |-> of]])
        BY <2>1
      <3>5. pc' = pc \/ GoTo(s, "load")
        BY <2>1
      <3>6. pc' \in [Scrapers -> Steps]
        BY <3>5 DEF GoTo, Typed, TypeOK, Steps
      <3>7. out' \in [Scrapers -> SUBSET Samples]
        <4>1. \E A \in SUBSET Samples : out' = out \/ out' = [out EXCEPT ![s] = A]
          <5>1. out[s] \in SUBSET Samples
            BY DEF Typed, TypeOK
          <5>2. of # None => out[s] \cup {[pv |-> v, of |-> of]} \in SUBSET Samples
            BY <3>1, <5>1
          <5> QED
            BY <3>3, <5>1, <5>2
        <4> QED
          BY <4>1 DEF Typed, TypeOK
      <3>8. sample' \in [Scrapers -> Samples \cup {None}]
        BY <3>1, <3>4 DEF Typed, TypeOK
      <3> QED
        BY <3>2, <3>6, <3>7, <3>8
    <2>5. TypeOK'
      BY <1>7, <2>4 DEF Range, Typed, TypeOK
    <2>6. LocalsOK'
      BY <1>7, <2>1, <2>2, <2>3 DEF Range, GoTo, Samples, Typed, TypeOK, LocalsOK
    <2> QED
      BY <2>5, <2>6 DEF Typed
  <1>8. CASE Load(s)
    <2>1. sample[s] \in Samples
      BY <1>8 DEF Load, Typed, LocalsOK
    <2>2. /\ out' \in [Scrapers -> SUBSET Samples]
          /\ sample' \in [Scrapers -> Samples \cup {None}]
          /\ pc' \in [Scrapers -> Steps]
          /\ up' \in BOOLEAN
      BY <1>8, <2>1 DEF Load, GoTo, Typed, TypeOK, Steps
    <2>3. TypeOK'
      BY <1>8, <2>2 DEF Load, Typed, TypeOK
    <2>4. LocalsOK'
      BY <1>8 DEF Load, GoTo, Typed, TypeOK, LocalsOK
    <2> QED
      BY <2>3, <2>4 DEF Typed
  <1>9. CASE EndRange(s)
    <2>1. /\ stats' \in [Scrapers -> [Devices -> Pvs \cup {None}]]
          /\ pc' \in [Scrapers -> Steps]
      BY <1>9 DEF EndRange, NoStats, GoTo, Typed, TypeOK, Steps
    <2>2. TypeOK'
      BY <1>9, <2>1 DEF EndRange, Typed, TypeOK
    <2>3. LocalsOK'
      BY <1>9 DEF EndRange, GoTo, Typed, TypeOK, LocalsOK
    <2> QED
      BY <2>2, <2>3 DEF Typed
  <1> QED
    BY <1>1, <1>2, <1>3, <1>4, <1>5, <1>6, <1>7, <1>8, <1>9 DEF Update

LEMMA EndTyped ==
    ASSUME Typed, NEW s \in Scrapers, Reset(s) \/ Answer(s) \/ MapRace(s)
    PROVE  Typed'
  <1>1. CASE Reset(s)
    <2>1. /\ stats' \in [Scrapers -> [Devices -> Pvs \cup {None}]]
          /\ pc' \in [Scrapers -> Steps]
      BY <1>1 DEF Reset, NoStats, GoTo, Typed, TypeOK, Steps
    <2>2. TypeOK'
      BY <1>1, <2>1 DEF Reset, Typed, TypeOK
    <2>3. LocalsOK'
      BY <1>1 DEF Reset, GoTo, Typed, TypeOK, LocalsOK
    <2> QED
      BY <2>2, <2>3 DEF Typed
  <1>2. CASE Answer(s)
    <2>1. TypeOK'
      BY <1>2 DEF Answer, GoTo, Typed, TypeOK, Steps
    <2>2. LocalsOK'
      BY <1>2 DEF Answer, GoTo, Typed, TypeOK, LocalsOK
    <2> QED
      BY <2>1, <2>2 DEF Typed
  <1>3. CASE MapRace(s)
    BY <1>3 DEF MapRace, locals, Typed, TypeOK, LocalsOK
  <1> QED
    BY <1>1, <1>2, <1>3

LEMMA RestartTyped ==
    ASSUME Typed, Restart
    PROVE  Typed'
  <1>1. /\ infos' \in [Pvs -> DiskInfo \cup {None}]
        /\ stats' \in [Scrapers -> [Devices -> Pvs \cup {None}]]
        /\ found' \in [Scrapers -> [Pvs -> DiskInfo \cup {None}]]
    BY DEF Restart, NoDisks, NoStats
  <1>2. TypeOK'
    BY <1>1 DEF Restart, Typed, TypeOK, Steps
  <1>3. LocalsOK'
    BY DEF Restart, LocalsOK
  <1> QED
    BY <1>2, <1>3 DEF Typed

LEMMA DisksTyped ==
    ASSUME Typed, Disks
    PROVE  Typed'
  <1>0. /\ \E v \in Pvs, disk \in DiskInfo \cup {None} : host' = [host EXCEPT ![v] = disk]
        /\ Moved
    <2>1. ASSUME NEW v \in Pvs, NEW p \in Pods, NEW d \in Devices, Attach(v, p, d)
          PROVE  [pod |-> p, dev |-> d] \in DiskInfo
      BY DEF DiskInfo
    <2> QED
      BY <2>1 DEF Disks, Attach, Detach
  <1>1. host' \in [Pvs -> DiskInfo \cup {None}] /\ Moved
    BY <1>0 DEF Typed, TypeOK
  <1>2. moves' \in Nat /\ clean' \in [Scrapers -> BOOLEAN]
    BY <1>1 DEF Moved, Typed, TypeOK
  <1>3. TypeOK'
    BY <1>1, <1>2 DEF Moved, Typed, TypeOK
  <1>4. LocalsOK'
    BY <1>1 DEF Moved, Typed, LocalsOK
  <1> QED
    BY <1>3, <1>4 DEF Typed

LEMMA NextTyped == Typed /\ [Next]_vars => Typed'
  <1> SUFFICES ASSUME Typed, [Next]_vars PROVE Typed'
    OBVIOUS
  <1>1. CASE UNCHANGED vars
    BY <1>1 DEF vars, locals, Typed, TypeOK, LocalsOK
  <1>2. ASSUME NEW s \in Scrapers, NEW q \in Queries \cup {None}, Request(s, q)
        PROVE Typed'
    BY <1>2, RequestTyped
  <1>3. ASSUME NEW s \in Scrapers, ServeHTTP(s) PROVE Typed'
    BY <1>3, ServeHTTPTyped
  <1>4. ASSUME NEW s \in Scrapers, Collect(s) \/ MapRace(s) PROVE Typed'
    BY <1>4, UpdateTyped, EndTyped DEF Collect
  <1>5. CASE Restart
    BY <1>5, RestartTyped
  <1>6. CASE Disks
    BY <1>6, DisksTyped
  <1> QED
    BY <1>1, <1>2, <1>3, <1>4, <1>5, <1>6 DEF Next

\* Every variable of the scrapes keeps its type, whatever races, failures and
\* moves of disks happen.
THEOREM TypeCorrect == Spec => []TypeOK
  <1>1. Spec => []Typed
    BY InitTyped, NextTyped, PTL DEF Spec
  <1>2. Typed => TypeOK
    BY DEF Typed
  <1> QED
    BY <1>1, <1>2, PTL

-----------------------------------------------------------------------------
(* What is known of the disks. *)

LEMMA InitDisks == Init => DiskInv
  BY DEF Init, DiskInv, Agrees, NoDisks

\* The disks stay where they are: what may change is the map and the snapshots.
LEMMA MapKeepsDisks ==
    ASSUME Typed, DiskInv, UNCHANGED host,
           \A v \in Pvs : \/ infos'[v] = None
                          \/ infos'[v] = infos[v]
                          \/ \E t \in Scrapers : infos'[v] = found[t][v],
           \A t \in Scrapers : \A v \in Pvs :
                \/ found'[t][v] = None
                \/ found'[t][v] = found[t][v]
                \/ found'[t][v] = host[v]
    PROVE  DiskInv'
  <1>1. Agrees(infos)'
    BY DEF DiskInv, Agrees
  <1>2. ASSUME NEW t \in Scrapers PROVE Agrees(found[t])'
    BY DEF DiskInv, Agrees
  <1> QED
    BY <1>1, <1>2 DEF DiskInv

LEMMA UpdateKeepsDisks ==
    ASSUME Typed, DiskInv, NEW s \in Scrapers, Update(s)
    PROVE  DiskInv'
  <1>1. CASE FindVolJSON(s)
    BY <1>1, MapKeepsDisks DEF FindVolJSON, Typed, TypeOK
  <1>2. CASE UpdateMap(s)
    <2>1. PICK disks \in {StillThere(found[s]), NoDisks}
                        \cup {[StillThere(found[s]) EXCEPT ![u] = None] : u \in Pvs} :
            found' = [found EXCEPT ![s] = disks]
      BY <1>2 DEF UpdateMap
    <2>2. \A v \in Pvs : disks[v] = None \/ disks[v] = found[s][v]
      BY <2>1 DEF StillThere, NoDisks
    <2>3. \A t \in Scrapers : \A v \in Pvs : found'[t][v] = None \/ found'[t][v] = found[t][v]
      BY <2>1, <2>2 DEF Typed, TypeOK
    <2> QED
      BY <1>2, <2>3, MapKeepsDisks DEF UpdateMap
  <1>3. CASE LookUp(s)
    <2>1. \A v \in Pvs : infos'[v] = infos[v] \/ infos'[v] = found[s][v]
      BY <1>3 DEF LookUp, Typed, TypeOK
    <2> QED
      BY <1>3, <2>1, MapKeepsDisks DEF LookUp
  <1>4. CASE Prune(s)
    <2>1. \A v \in Pvs : infos'[v] = None \/ infos'[v] = infos[v]
      BY <1>4 DEF Prune
    <2>2. \A t \in Scrapers : \A v \in Pvs : found'[t][v] = None \/ found'[t][v] = found[t][v]
      BY <1>4 DEF Prune, NoDisks, Typed, TypeOK
    <2> QED
      BY <1>4, <2>1, <2>2, MapKeepsDisks DEF Prune
  <1>5. CASE ReadStats(s) \/ Lock(s) \/ Range(s) \/ Load(s) \/ EndRange(s)
    <2>1. UNCHANGED <<host, infos, found>>
      BY <1>5 DEF ReadStats, Lock, Range, Load, EndRange
    <2> QED
      BY <2>1, MapKeepsDisks
  <1> QED
    BY <1>1, <1>2, <1>3, <1>4, <1>5 DEF Update

\* A disk that goes is compared with nothing; one that comes is with a pod that
\* no entry and no snapshot names.
LEMMA DisksKeepDisks ==
    ASSUME Typed, DiskInv, Disks
    PROVE  DiskInv'
  <1>1. ASSUME NEW v \in Pvs, Detach(v) PROVE DiskInv'
    <2>1. \A u \in Pvs : host'[u] = None \/ host'[u] = host[u]
      BY <1>1 DEF Detach, Typed, TypeOK
    <2>2. UNCHANGED <<infos, found>>
      BY <1>1 DEF Detach, Moved
    <2> QED
      BY <2>1, <2>2 DEF DiskInv, Agrees
  <1>2. ASSUME NEW v \in Pvs, NEW p \in Pods, NEW d \in Devices, Attach(v, p, d)
        PROVE  DiskInv'
    <2>1. /\ host'[v].pod = p
          /\ \A u \in Pvs \ {v} : host'[u] = host[u]
      BY <1>2 DEF Attach, Typed, TypeOK
    <2>2. UNCHANGED <<infos, found>>
      BY <1>2 DEF Attach, Moved
    <2>3. /\ infos[v] # None => infos[v].pod # p
          /\ \A s \in Scrapers : found[s][v] # None => found[s][v].pod # p
      BY <1>2 DEF Attach
    <2> QED
      BY <2>1, <2>2, <2>3 DEF DiskInv, Agrees
  <1> QED
    BY <1>1, <1>2 DEF Disks

LEMMA NextKeepsDisks == Typed /\ DiskInv /\ [Next]_vars => DiskInv'
  <1> SUFFICES ASSUME Typed, DiskInv, [Next]_vars PROVE DiskInv'
    OBVIOUS
  <1>1. CASE UNCHANGED vars
    BY <1>1 DEF vars, locals, DiskInv, Agrees
  <1>2. ASSUME NEW s \in Scrapers,
               \/ \E q \in Queries \cup {None} : Request(s, q)
               \/ ServeHTTP(s) \/ Reset(s) \/ Answer(s) \/ MapRace(s)
        PROVE DiskInv'
    <2>1. UNCHANGED <<host, infos, found>>
      BY <1>2 DEF Request, ServeHTTP, NewFilter, StoreClaim, Reset, Answer, MapRace, locals
    <2> QED
      BY <2>1, MapKeepsDisks
  <1>3. ASSUME NEW s \in Scrapers, Update(s) PROVE DiskInv'
    BY <1>3, UpdateKeepsDisks
  <1>4. CASE Restart
    BY <1>4 DEF Restart, NoDisks, DiskInv, Agrees
  <1>5. CASE Disks
    BY <1>5, DisksKeepDisks
  <1> QED
    BY <1>1, <1>2, <1>3, <1>4, <1>5 DEF Next, Collect

\* An entry of lastPvDiskInfoMap for the pod that has the disk now names the
\* disk's device, for any number of concurrent scrapes, races and failures.
THEOREM NamesTheDisk == Spec => []EntryNamesTheDisk
  <1>1. Spec => [](Typed /\ DiskInv)
    BY InitTyped, NextTyped, InitDisks, NextKeepsDisks, PTL DEF Spec
  <1>2. Typed /\ DiskInv => EntryNamesTheDisk
    BY DEF DiskInv, Agrees, EntryNamesTheDisk
  <1> QED
    BY <1>1, <1>2, PTL

-----------------------------------------------------------------------------
(* A scrape that runs alone, on disks at rest, without a failure.  What it *)
(* answers depends on what is left by those before it: the filter and the  *)
(* map.  The filter is none of theirs (FilterOwned), and what the map has  *)
(* of the disks that are there agrees with them (DiskInv).                 *)

Serving == {"store", "stats", "paths", "volumes", "lock", "lookup", "range", "load", "reset"}
Filtering == Serving \ {"store", "reset"}

\* Two disks have two devices.
DevicesDiffer ==
    \A u, v \in Pvs : u # v /\ host[u] # None /\ host[v] # None => host[u].dev # host[v].dev

\* A filter that is set is that of a request under way.
FilterOwned == filter # None => \E t \in Scrapers : pc[t] \in Serving

\* The loop and the answer begin with nothing.
BeginsEmpty ==
    \A s \in Scrapers :
        /\ pc[s] \notin {"range", "load"} => seen[s] = {}
        /\ pc[s] \notin {"range", "load", "reset", "answer"} => out[s] = {}

Alone(s) == \A t \in Scrapers \ {s} : pc[t] = "idle"

\* The filter has what the request of s asks for.
FilterOK(s) ==
    /\ query[s] = None => filter = None /\ pc[s] \notin {"newFilter", "store", "load"}
    /\ query[s] # None =>
         /\ pc[s] = "store" => adding[s] \subseteq query[s] /\ filter = query[s] \ adding[s]
         /\ pc[s] \in Filtering => filter = query[s]

OnHost == {v \in Pvs : host[v] # None}

\* What s knows of the disks, and what it has made of the map.
KnowsOK(s) ==
    /\ pc[s] \in {"paths", "volumes", "lock", "lookup", "range", "load"} => stats[s] = DiskStats
    /\ pc[s] \in {"volumes", "lock", "lookup"} => found[s] = host
    /\ pc[s] = "lookup" => \A v \in OnHost : v \in todo[s] \/ infos[v] = host[v]
    /\ pc[s] \in {"range", "load"} => infos = host /\ due[s] = OnHost /\ seen[s] \subseteq OnHost

\* The samples of the disks in the set, as far as they are asked for.
SamplesOf(s, disks) ==
    {[pv |-> v, of |-> v] : v \in {u \in disks : query[s] # None => u \in query[s]}}

ReportOK(s) ==
    /\ pc[s] = "range" => out[s] = SamplesOf(s, seen[s])
    /\ pc[s] = "load" =>
         \E v \in seen[s] : /\ sample[s] = [pv |-> v, of |-> v]
                            /\ out[s] = SamplesOf(s, seen[s] \ {v})
    /\ pc[s] \in {"reset", "answer"} => out[s] = SamplesOf(s, OnHost)

CleanOK ==
    \A s \in Scrapers : clean[s] =>
        pc[s] # "idle" /\ Alone(s) /\ FilterOK(s) /\ KnowsOK(s) /\ ReportOK(s)

EInv == Typed /\ DiskInv /\ DevicesDiffer /\ FilterOwned /\ BeginsEmpty /\ CleanOK

\* The line of a disk's device is the disk's.
LEMMA OwnLine ==
    ASSUME Typed, DevicesDiffer, NEW v \in OnHost
    PROVE  DiskStats[host[v].dev] = v
  <1>1. v \in Pvs /\ host[v] \in DiskInfo /\ host[v] # None
    BY DEF OnHost, Typed, TypeOK
  <1>2. host[v].dev \in Devices
    BY <1>1 DEF DiskInfo
  <1>3. \A u \in Pvs : host[u] # None /\ host[u].dev = host[v].dev <=> u = v
    BY <1>1 DEF DevicesDiffer
  <1>4. (CHOOSE u \in Pvs : host[u] # None /\ host[u].dev = host[v].dev) = v
    BY <1>1, <1>3
  <1> QED
    BY <1>1, <1>2, <1>3, <1>4 DEF DiskStats

-----------------------------------------------------------------------------
(* The parts that hold for every scrape. *)

LEMMA DevicesStep == Typed /\ DevicesDiffer /\ [Next]_vars => DevicesDiffer'
  <1> SUFFICES ASSUME Typed, DevicesDiffer, [Next]_vars PROVE DevicesDiffer'
    OBVIOUS
  <1>1. CASE host' = host
    BY <1>1 DEF DevicesDiffer
  <1>2. ASSUME NEW v \in Pvs, Detach(v) PROVE DevicesDiffer'
    <2>1. \A u \in Pvs : host'[u] = None \/ host'[u] = host[u]
      BY <1>2 DEF Detach, Typed, TypeOK
    <2> QED
      BY <2>1 DEF DevicesDiffer
  <1>3. ASSUME NEW v \in Pvs, NEW p \in Pods, NEW d \in Devices, Attach(v, p, d)
        PROVE  DevicesDiffer'
    <2>1. /\ host'[v].dev = d
          /\ \A u \in Pvs \ {v} : host'[u] = host[u]
          /\ \A u \in Pvs : host[u] # None => host[u].dev # d
      BY <1>3 DEF Attach, Typed, TypeOK
    <2> QED
      BY <2>1 DEF DevicesDiffer
  <1>4. Disks \/ host' = host
    BY DEF Next, Request, ServeHTTP, NewFilter, StoreClaim, Collect, Update, ReadStats,
           FindVolJSON, UpdateMap, Lock, LookUp, Prune, Range, Load, EndRange, Reset,
           Answer, MapRace, Restart, vars
  <1> QED
    BY <1>1, <1>2, <1>3, <1>4 DEF Disks

\* How a step of s goes on.
LEMMA Continues ==
    ASSUME Typed, NEW s \in Scrapers, ServeHTTP(s) \/ Collect(s)
    PROVE  /\ pc[s] # "idle"
           /\ \A t \in Scrapers \ {s} :
                /\ pc'[t] = pc[t] /\ seen'[t] = seen[t] /\ out'[t] = out[t]
                /\ clean'[t] = clean[t]
           /\ \/ /\ filter' = None /\ pc[s] = "reset" /\ pc'[s] = "answer"
              \/ filter' = filter /\ filter = None
              \/ pc'[s] \in Serving
              \/ filter' = filter /\ pc[s] \notin Serving
  <1>0. TypeOK
    BY DEF Typed
  <1> USE DEF GoTo, Serving, Fault, NoFault
  <1>1. CASE NewFilter(s) \/ StoreClaim(s)
    BY <1>0, <1>1 DEF NewFilter, StoreClaim, TypeOK
  <1>2. CASE ReadStats(s) \/ FindVolJSON(s) \/ UpdateMap(s)
    BY <1>0, <1>2 DEF ReadStats, FindVolJSON, UpdateMap, TypeOK
  <1>3. CASE Lock(s) \/ LookUp(s) \/ Prune(s)
    BY <1>0, <1>3 DEF Lock, LookUp, Prune, TypeOK
  <1>4. CASE Range(s)
    BY <1>0, <1>4 DEF Range, TypeOK
  <1>5. CASE Load(s) \/ EndRange(s)
    BY <1>0, <1>5 DEF Load, EndRange, TypeOK
  <1>6. CASE Reset(s) \/ Answer(s)
    BY <1>0, <1>6 DEF Reset, Answer, TypeOK
  <1> QED
    BY <1>1, <1>2, <1>3, <1>4, <1>5, <1>6 DEF ServeHTTP, Collect, Update

LEMMA EmptyContinues ==
    ASSUME Typed, BeginsEmpty, NEW s \in Scrapers, ServeHTTP(s) \/ Collect(s)
    PROVE  /\ pc'[s] \notin {"range", "load"} => seen'[s] = {}
           /\ pc'[s] \notin {"range", "load", "reset", "answer"} => out'[s] = {}
  <1>0. TypeOK
    BY DEF Typed
  <1> USE DEF GoTo, BeginsEmpty
  <1>1. CASE NewFilter(s) \/ StoreClaim(s)
    BY <1>0, <1>1 DEF NewFilter, StoreClaim, TypeOK
  <1>2. CASE ReadStats(s) \/ FindVolJSON(s) \/ UpdateMap(s)
    BY <1>0, <1>2 DEF ReadStats, FindVolJSON, UpdateMap, TypeOK
  <1>3. CASE Lock(s) \/ LookUp(s) \/ Prune(s)
    BY <1>0, <1>3 DEF Lock, LookUp, Prune, TypeOK
  <1>4. CASE Range(s)
    BY <1>0, <1>4 DEF Range, TypeOK
  <1>5. CASE Load(s) \/ EndRange(s)
    BY <1>0, <1>5 DEF Load, EndRange, TypeOK
  <1>6. CASE Reset(s) \/ Answer(s)
    BY <1>0, <1>6 DEF Reset, Answer, TypeOK
  <1> QED
    BY <1>1, <1>2, <1>3, <1>4, <1>5, <1>6 DEF ServeHTTP, Collect, Update

LEMMA SharedParts ==
    ASSUME Typed, FilterOwned, BeginsEmpty, [Next]_vars
    PROVE  FilterOwned' /\ BeginsEmpty'
  <1>1. ASSUME NEW s \in Scrapers, ServeHTTP(s) \/ Collect(s)
        PROVE  FilterOwned' /\ BeginsEmpty'
    <2>1. BeginsEmpty'
      BY <1>1, Continues, EmptyContinues DEF BeginsEmpty
    <2>2. FilterOwned'
      BY <1>1, Continues DEF FilterOwned, Serving
    <2> QED
      BY <2>1, <2>2
  <1>2. ASSUME NEW s \in Scrapers, NEW q \in Queries \cup {None}, Request(s, q)
        PROVE  FilterOwned' /\ BeginsEmpty'
    BY <1>2 DEF Request, GoTo, FilterOwned, BeginsEmpty, Serving, Typed, TypeOK
  <1>3. CASE UNCHANGED <<filter, pc, seen, out>>
    BY <1>3 DEF FilterOwned, BeginsEmpty
  <1>4. CASE Restart
    BY <1>4 DEF Restart, FilterOwned, BeginsEmpty
  <1>5. \/ UNCHANGED <<filter, pc, seen, out>> \/ Restart
        \/ \E s \in Scrapers : \/ ServeHTTP(s) \/ Collect(s)
                               \/ \E q \in Queries \cup {None} : Request(s, q)
    BY DEF Next, MapRace, Disks, Detach, Attach, Moved, vars, locals
  <1> QED
    BY <1>1, <1>2, <1>3, <1>4, <1>5

-----------------------------------------------------------------------------
(* The steps of a scrape that is clean before and after. *)

\* Nothing strikes a scrape that stays clean.
LEMMA StaysClean ==
    ASSUME Typed, NEW s \in Scrapers, ServeHTTP(s) \/ Collect(s), clean'[s]
    PROVE  clean[s] /\ UNCHANGED <<faults, clean>>
  <1> USE DEF Fault, NoFault, Typed, TypeOK
  <1>1. CASE NewFilter(s) \/ StoreClaim(s) \/ Reset(s) \/ Answer(s)
    BY <1>1 DEF NewFilter, StoreClaim, Reset, Answer
  <1>2. CASE ReadStats(s) \/ FindVolJSON(s) \/ UpdateMap(s)
    BY <1>2 DEF ReadStats, FindVolJSON, UpdateMap
  <1>3. CASE Lock(s) \/ LookUp(s) \/ Prune(s) \/ Range(s) \/ Load(s) \/ EndRange(s)
    BY <1>3 DEF Lock, LookUp, Prune, Range, Load, EndRange
  <1> QED
    BY <1>1, <1>2, <1>3 DEF ServeHTTP, Collect, Update

LEMMA FilterStep ==
    ASSUME Typed, NEW s \in Scrapers, ServeHTTP(s) \/ Collect(s), clean'[s],
           pc[s] # "idle", FilterOK(s)
    PROVE  pc'[s] # "idle" /\ FilterOK(s)'
  <1>0. TypeOK /\ UNCHANGED <<faults, clean>>
    BY StaysClean DEF Typed
  <1>n. None \notin SUBSET Pvs /\ (query[s] # None => query[s] \in SUBSET Pvs)
    BY <1>0, NoneAssumption, QueryAssumption DEF TypeOK
  <1> USE DEF GoTo, Filtering, Serving
  <1>1. CASE NewFilter(s)
    BY <1>0, <1>n, <1>1 DEF NewFilter, TypeOK, FilterOK
  <1>2. CASE StoreClaim(s)
    <2>1. /\ query[s] # None /\ pc[s] = "store" /\ query' = query
          /\ adding[s] \subseteq query[s] /\ filter = query[s] \ adding[s]
      BY <1>2 DEF StoreClaim, FilterOK
    <2>2. filter # None
      BY <1>n, <2>1
    <2>3. CASE adding[s] = {} /\ GoTo(s, "stats") /\ UNCHANGED <<filter, adding>>
      BY <1>0, <2>1, <2>3 DEF TypeOK, FilterOK
    <2>4. ASSUME NEW v \in adding[s], UNCHANGED pc, filter' = filter \cup {v},
                 adding' = [adding EXCEPT ![s] = @ \ {v}]
          PROVE  pc'[s] # "idle" /\ FilterOK(s)'
      <3>1. adding'[s] = adding[s] \ {v}
        BY <1>0, <2>4 DEF TypeOK
      <3>2. adding'[s] \subseteq query[s] /\ filter' = query[s] \ adding'[s]
        BY <2>1, <2>4, <3>1
      <3> QED
        BY <2>1, <2>4, <3>2 DEF FilterOK
    <2> QED
      BY <1>2, <2>2, <2>3, <2>4 DEF StoreClaim
  <1>3. CASE Reset(s)
    BY <1>0, <1>3 DEF Reset, TypeOK, FilterOK
  <1>4. CASE Answer(s)
    BY <1>0, <1>4 DEF Answer, TypeOK
  <1>5. CASE Update(s)
    <2>1. UNCHANGED <<filter, query, adding>>
      BY <1>5 DEF Update, ReadStats, FindVolJSON, UpdateMap, Lock, LookUp, Prune, Range,
                  Load, EndRange
    <2>2. /\ pc[s] \in Filtering
          /\ pc'[s] \in Filtering \cup {"reset"}
      BY <1>0, <1>5 DEF Update, ReadStats, FindVolJSON, UpdateMap, Lock, LookUp, Prune,
                        Range, Load, EndRange, TypeOK
    <2>3. pc'[s] = "load" => filter # None
      BY <1>0, <1>5 DEF Update, ReadStats, FindVolJSON, UpdateMap, Lock, LookUp, Prune,
                        Range, Load, EndRange, TypeOK
    <2> QED
      BY <2>1, <2>2, <2>3 DEF FilterOK
  <1> QED
    BY <1>1, <1>2, <1>3, <1>4, <1>5 DEF ServeHTTP, Collect

LEMMA KnowsStep ==
    ASSUME Typed, DiskInv, BeginsEmpty, NEW s \in Scrapers, ServeHTTP(s) \/ Collect(s),
           clean'[s], KnowsOK(s)
    PROVE  KnowsOK(s)'
  <1>0. TypeOK /\ UNCHANGED <<faults, clean>> /\ ~(faults' = faults - 1)
    BY StaysClean DEF Typed, TypeOK
  <1>h. UNCHANGED host
    BY DEF ServeHTTP, NewFilter, StoreClaim, Collect, Update, ReadStats, FindVolJSON,
           UpdateMap, Lock, LookUp, Prune, Range, Load, EndRange, Reset, Answer
  <1>d. DiskStats' = DiskStats /\ OnHost' = OnHost
    BY <1>h DEF DiskStats, OnHost
  <1> USE DEF GoTo, Fault
  <1>1. CASE NewFilter(s) \/ StoreClaim(s) \/ Reset(s) \/ Answer(s)
    BY <1>0, <1>1 DEF NewFilter, StoreClaim, Reset, Answer, TypeOK, KnowsOK
  <1>2. CASE ReadStats(s)
    BY <1>0, <1>d, <1>2 DEF ReadStats, TypeOK, KnowsOK
  <1>3. CASE FindVolJSON(s)
    BY <1>0, <1>d, <1>h, <1>3 DEF FindVolJSON, TypeOK, KnowsOK
  <1>4. CASE UpdateMap(s)
    <2>1. found' = [found EXCEPT ![s] = StillThere(found[s])] /\ found[s] = host
      BY <1>0, <1>4 DEF UpdateMap, KnowsOK
    <2>2. StillThere(host) = host
      BY <1>0 DEF StillThere, TypeOK
    <2> QED
      BY <1>0, <1>d, <1>h, <1>4, <2>1, <2>2 DEF UpdateMap, TypeOK, KnowsOK
  <1>5. CASE Lock(s)
    <2>1. found[s] = host /\ todo'[s] = Changed(host) /\ UNCHANGED <<infos, stats, found>>
          /\ pc'[s] = "lookup" /\ pc[s] = "lock"
      BY <1>0, <1>5 DEF Lock, TypeOK, KnowsOK
    <2>2. ASSUME NEW v \in OnHost PROVE v \in Changed(host) \/ infos[v] = host[v]
      BY DEF OnHost, Changed, DiskInv, Agrees
    <2> QED
      BY <1>d, <1>h, <2>1, <2>2 DEF KnowsOK
  <1>6. CASE LookUp(s)
    <2>1. PICK v \in todo[s] : /\ infos' = [infos EXCEPT ![v] = host[v]]
                               /\ todo'[s] = todo[s] \ {v}
      BY <1>0, <1>6 DEF LookUp, KnowsOK, TypeOK
    <2>2. UNCHANGED <<pc, stats, found>> /\ pc[s] = "lookup" /\ v \in Pvs
      BY <1>0, <1>6, <2>1 DEF LookUp, TypeOK
    <2>3. ASSUME NEW u \in OnHost PROVE u \in todo'[s] \/ infos'[u] = host[u]
      BY <1>0, <2>1, <2>2 DEF KnowsOK, OnHost, TypeOK
    <2> QED
      BY <1>d, <1>h, <2>2, <2>3 DEF KnowsOK
  <1>7. CASE Prune(s)
    <2>1. /\ pc[s] = "lookup" /\ pc'[s] = "range" /\ todo[s] = {} /\ found[s] = host
          /\ UNCHANGED <<stats, seen>> /\ seen[s] = {}
          /\ infos' = [v \in Pvs |-> IF host[v] = None THEN None ELSE infos[v]]
          /\ due'[s] = {v \in Pvs : infos'[v] # None}
      BY <1>0, <1>7 DEF Prune, KnowsOK, TypeOK, BeginsEmpty
    <2>2. \A v \in Pvs : infos'[v] = host[v]
      BY <2>1 DEF KnowsOK, OnHost
    <2>3. infos' = host
      BY <1>0, <2>1, <2>2 DEF TypeOK
    <2>4. due'[s] = OnHost
      BY <2>1, <2>3 DEF OnHost
    <2> QED
      BY <1>d, <1>h, <2>1, <2>3, <2>4 DEF KnowsOK
  <1>8. CASE Range(s)
    <2>1. PICK v \in Known \ seen[s] : seen' = [seen EXCEPT ![s] = @ \cup {v}]
      BY <1>8 DEF Range
    <2>2. /\ UNCHANGED <<infos, stats, found, todo, due>>
          /\ pc[s] = "range" /\ pc'[s] \in {"range", "load"}
      BY <1>0, <1>8 DEF Range, TypeOK
    <2>3. seen'[s] \subseteq OnHost
      BY <1>0, <2>1, <2>2 DEF KnowsOK, Known, OnHost, TypeOK
    <2> QED
      BY <1>d, <1>h, <2>2, <2>3 DEF KnowsOK
  <1>9. CASE Load(s) \/ EndRange(s)
    BY <1>0, <1>d, <1>h, <1>9 DEF Load, EndRange, TypeOK, KnowsOK
  <1> QED
    BY <1>1, <1>2, <1>3, <1>4, <1>5, <1>6, <1>7, <1>8, <1>9 DEF ServeHTTP, Collect, Update

LEMMA ReportStep ==
    ASSUME Typed, DevicesDiffer, BeginsEmpty, NEW s \in Scrapers,
           ServeHTTP(s) \/ Collect(s), clean'[s],
           FilterOK(s), KnowsOK(s), ReportOK(s)
    PROVE  ReportOK(s)'
  <1>0. TypeOK /\ UNCHANGED <<faults, clean>> /\ ~(faults' = faults - 1) /\ clean[s]
    BY StaysClean DEF Typed, TypeOK
  <1>n. /\ None \notin Pvs /\ None \notin SUBSET Pvs
        /\ query[s] # None => query[s] \in SUBSET Pvs
    BY <1>0, NoneAssumption, QueryAssumption DEF TypeOK
  <1>h. UNCHANGED host
    BY DEF ServeHTTP, NewFilter, StoreClaim, Collect, Update, ReadStats, FindVolJSON,
           UpdateMap, Lock, LookUp, Prune, Range, Load, EndRange, Reset, Answer
  <1>d. OnHost' = OnHost
    BY <1>h DEF OnHost
  <1> USE DEF GoTo, Fault
  <1>1. CASE NewFilter(s) \/ StoreClaim(s)
    BY <1>0, <1>1 DEF NewFilter, StoreClaim, TypeOK, ReportOK
  <1>2. CASE ReadStats(s) \/ FindVolJSON(s) \/ UpdateMap(s) \/ Lock(s) \/ LookUp(s)
    BY <1>0, <1>2 DEF ReadStats, FindVolJSON, UpdateMap, Lock, LookUp, TypeOK, ReportOK
  <1>3. CASE Prune(s)
    <2>1. pc'[s] = "range" /\ out'[s] = {} /\ seen'[s] = {}
      BY <1>0, <1>3 DEF Prune, TypeOK, BeginsEmpty
    <2> QED
      BY <2>1 DEF ReportOK, SamplesOf
  <1>4. CASE Range(s)
    <2>1. PICK v \in Known \ seen[s] :
             /\ seen' = [seen EXCEPT ![s] = @ \cup {v}]
             /\ LET of == stats[s][infos[v].dev] IN
                \/ of = None /\ UNCHANGED <<pc, sample, out>>
                \/ /\ of # None /\ filter = None
                   /\ out' = [out EXCEPT ![s] = @ \cup {[pv |-> v, of |-> of]}]
                   /\ UNCHANGED <<pc, sample>>
                \/ /\ of # None /\ filter # None
                   /\ sample' = [sample EXCEPT ![s] = [pv |-> v, of |-> of]]
                   /\ GoTo(s, "load")
                   /\ UNCHANGED out
      BY <1>4 DEF Range
    <2>2. pc[s] = "range" /\ query' = query
      BY <1>4 DEF Range
    <2>3. infos = host /\ v \in OnHost
      BY <2>1, <2>2 DEF KnowsOK, Known, OnHost
    <2>4. stats[s][infos[v].dev] = v /\ v # None
      BY <1>n, <2>2, <2>3, OwnLine DEF KnowsOK, OnHost
    <2>5. seen'[s] = seen[s] \cup {v} /\ v \notin seen[s]
      BY <1>0, <2>1 DEF TypeOK
    <2>6. out[s] = SamplesOf(s, seen[s]) /\ (filter = None <=> query[s] = None)
      BY <1>n, <2>2 DEF ReportOK, FilterOK, Filtering, Serving
    <2>7. CASE filter = None
      <3>1. pc'[s] = "range" /\ out'[s] = out[s] \cup {[pv |-> v, of |-> v]}
        BY <1>0, <2>1, <2>2, <2>4, <2>7 DEF TypeOK
      <3>2. out'[s] = SamplesOf(s, seen'[s])
        BY <2>5, <2>6, <2>7, <3>1 DEF SamplesOf
      <3> QED
        BY <2>2, <3>1, <3>2 DEF ReportOK, SamplesOf
    <2>8. CASE filter # None
      <3>1. pc'[s] = "load" /\ out'[s] = out[s] /\ sample'[s] = [pv |-> v, of |-> v]
        BY <1>0, <2>1, <2>2, <2>4, <2>8 DEF TypeOK
      <3>2. out'[s] = SamplesOf(s, seen'[s] \ {v}) /\ v \in seen'[s]
        <4>1. seen'[s] \ {v} = seen[s]
          BY <2>5
        <4> QED
          BY <2>5, <2>6, <3>1, <4>1
      <3> QED
        BY <2>2, <3>1, <3>2 DEF ReportOK, SamplesOf
    <2> QED
      BY <2>7, <2>8
  <1>5. CASE Load(s)
    <2>1. PICK v \in seen[s] : /\ sample[s] = [pv |-> v, of |-> v]
                               /\ out[s] = SamplesOf(s, seen[s] \ {v})
      BY <1>5 DEF Load, ReportOK
    <2>2. query[s] # None /\ filter = query[s] /\ filter # None
      BY <1>n, <1>5 DEF Load, FilterOK, Filtering, Serving
    <2>3. /\ pc'[s] = "range" /\ query' = query /\ seen' = seen
          /\ out'[s] = IF v \in query[s] THEN out[s] \cup {[pv |-> v, of |-> v]} ELSE out[s]
      BY <1>0, <1>5, <2>1, <2>2 DEF Load, TypeOK
    <2>4. out'[s] = SamplesOf(s, seen[s])
      BY <2>1, <2>2, <2>3 DEF SamplesOf
    <2> QED
      BY <2>3, <2>4 DEF ReportOK, SamplesOf
  <1>6. CASE EndRange(s)
    <2>1. pc[s] = "range" /\ pc'[s] = "reset" /\ query' = query /\ out' = out
      BY <1>0, <1>6 DEF EndRange, TypeOK
    <2>2. seen[s] = OnHost
      BY <1>6, <2>1 DEF EndRange, KnowsOK, Known, OnHost
    <2>3. out'[s] = SamplesOf(s, OnHost)
      BY <2>1, <2>2 DEF ReportOK
    <2> QED
      BY <1>d, <2>1, <2>3 DEF ReportOK, SamplesOf
  <1>7. CASE Reset(s)
    <2>1. pc[s] = "reset" /\ pc'[s] = "answer" /\ query' = query /\ out' = out
      BY <1>0, <1>7 DEF Reset, TypeOK
    <2> QED
      BY <1>d, <2>1 DEF ReportOK, SamplesOf
  <1>8. CASE Answer(s)
    BY <1>0, <1>8 DEF Answer, TypeOK
  <1> QED
    BY <1>1, <1>2, <1>3, <1>4, <1>5, <1>6, <1>7, <1>8 DEF ServeHTTP, Collect, Update

LEMMA EInvInit == Init => EInv
  <1> SUFFICES ASSUME Init PROVE EInv
    OBVIOUS
  <1>1. Typed /\ DiskInv
    BY InitTyped, InitDisks
  <1>2. DevicesDiffer /\ FilterOwned /\ BeginsEmpty /\ CleanOK
    BY DEF Init, DevicesDiffer, FilterOwned, BeginsEmpty, CleanOK
  <1> QED
    BY <1>1, <1>2 DEF EInv

LEMMA EInvStep == EInv /\ [Next]_vars => EInv'
  <1> SUFFICES ASSUME EInv, [Next]_vars PROVE EInv'
    OBVIOUS
  <1>0. Typed /\ TypeOK /\ DiskInv /\ DevicesDiffer /\ FilterOwned /\ BeginsEmpty /\ CleanOK
    BY DEF EInv, Typed
  <1>1. Typed' /\ DiskInv' /\ DevicesDiffer' /\ FilterOwned' /\ BeginsEmpty'
    BY <1>0, NextTyped, NextKeepsDisks, DevicesStep, SharedParts
  <1>2. ASSUME NEW s \in Scrapers, NEW q \in Queries \cup {None}, Request(s, q)
        PROVE  CleanOK'
    <2>1. /\ pc[s] = "idle" /\ query'[s] = q
          /\ pc'[s] = IF q = None THEN "stats" ELSE "newFilter"
          /\ \A t \in Scrapers \ {s} : pc'[t] = pc[t] /\ ~clean'[t]
          /\ clean'[s] = Alone(s)
          /\ filter' = filter
      BY <1>0, <1>2 DEF Request, GoTo, TypeOK, Alone
    <2>2. ASSUME clean'[s] PROVE Alone(s)' /\ filter = None
      BY <1>0, <2>1, <2>2 DEF Alone, FilterOwned, Serving
    <2>3. ASSUME clean'[s] PROVE FilterOK(s)' /\ KnowsOK(s)' /\ ReportOK(s)'
      BY <2>1, <2>2, <2>3 DEF FilterOK, Filtering, Serving, KnowsOK, ReportOK
    <2>4. pc'[s] # "idle"
      BY <2>1
    <2> QED
      BY <2>1, <2>2, <2>3, <2>4 DEF CleanOK
  <1>3. ASSUME NEW s \in Scrapers, ServeHTTP(s) \/ Collect(s) PROVE CleanOK'
    <2>1. ASSUME NEW t \in Scrapers \ {s} PROVE ~clean'[t]
      BY <1>0, <1>3, Continues DEF CleanOK, Alone
    <2>2. ASSUME clean'[s]
          PROVE  pc'[s] # "idle" /\ Alone(s)' /\ FilterOK(s)' /\ KnowsOK(s)' /\ ReportOK(s)'
      <3>1. pc[s] # "idle" /\ Alone(s) /\ FilterOK(s) /\ KnowsOK(s) /\ ReportOK(s)
        BY <1>0, <1>3, <2>2, StaysClean DEF CleanOK
      <3>2. Alone(s)'
        BY <1>0, <1>3, <3>1, Continues DEF Alone
      <3>3. pc'[s] # "idle" /\ FilterOK(s)'
        BY <1>0, <1>3, <2>2, <3>1, FilterStep
      <3>4. KnowsOK(s)'
        BY <1>0, <1>3, <2>2, <3>1, KnowsStep
      <3>5. ReportOK(s)'
        BY <1>0, <1>3, <2>2, <3>1, ReportStep
      <3> QED
        BY <3>2, <3>3, <3>4, <3>5
    <2> QED
      BY <2>1, <2>2 DEF CleanOK
  <1>4. ASSUME UNCHANGED <<host, infos, filter, pc, locals>> PROVE CleanOK'
    <2>1. DiskStats' = DiskStats /\ OnHost' = OnHost
      BY <1>4 DEF DiskStats, OnHost
    <2>2. \A s \in Scrapers : SamplesOf(s, OnHost)' = SamplesOf(s, OnHost)
      BY <1>4, <2>1 DEF SamplesOf, locals
    <2>3. ASSUME NEW s \in Scrapers
          PROVE  /\ Alone(s) => Alone(s)'
                 /\ FilterOK(s) => FilterOK(s)'
                 /\ KnowsOK(s) => KnowsOK(s)'
                 /\ ReportOK(s) => ReportOK(s)'
      BY <1>4, <2>1, <2>2 DEF Alone, FilterOK, KnowsOK, ReportOK, SamplesOf, locals
    <2> QED
      BY <1>0, <1>4, <2>3 DEF CleanOK, locals
  <1>5. ASSUME Restart \/ Disks PROVE CleanOK'
    <2>1. \A s \in Scrapers : ~clean'[s]
      BY <1>5 DEF Restart, Disks, Attach, Detach, Moved
    <2> QED
      BY <2>1 DEF CleanOK
  <1>6. CleanOK'
    BY <1>2, <1>3, <1>4, <1>5 DEF Next, MapRace, vars
  <1> QED
    BY <1>1, <1>6 DEF EInv

\* A scrape that ran alone, on disks at rest and without a failure, answers for
\* exactly the claims it was asked for, each with the statistics of its own
\* disk, whatever scrapes, races, failures and moves went before (ServeHTTP,
\* Collect and the disk collector's Update).
THEOREM AloneAnswersExactly == Spec => []AnswerIsExact
  <1>1. EInv => AnswerIsExact
    <2> SUFFICES ASSUME EInv, NEW s \in Scrapers, pc[s] = "answer", clean[s]
                 PROVE  out[s] = {[pv |-> v, of |-> v] : v \in
                          {u \in Pvs : host[u] # None /\ (query[s] # None => u \in query[s])}}
      BY DEF AnswerIsExact
    <2>1. out[s] = SamplesOf(s, OnHost)
      BY DEF EInv, CleanOK, ReportOK
    <2>2. {u \in OnHost : query[s] # None => u \in query[s]} =
            {u \in Pvs : host[u] # None /\ (query[s] # None => u \in query[s])}
      BY DEF OnHost
    <2> QED
      BY <2>1, <2>2 DEF SamplesOf
  <1> QED
    BY <1>1, EInvInit, EInvStep, PTL DEF Spec
=============================================================================
