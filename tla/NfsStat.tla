-------------------------------- MODULE NfsStat --------------------------------
(***************************************************************************)
(* pkg/metric/nfs_stat_collector.go: one scrape after the other of the NFS *)
(* volumes of a node, while pods mount and unmount them.  A scrape reads   *)
(* the kernel's figures, brings lastPvNfsInfoMap up to date, asks for the  *)
(* capacity of each volume and publishes the figures by their position in  *)
(* descs.  A figure is known by its name; its value is left out, and so    *)
(* are the capacity events and the lock, which concurrent scrapes use as   *)
(* those of Scrape do.                                                     *)
(***************************************************************************)
EXTENDS Integers, Sequences, FiniteSets

CONSTANTS NfsPvs,       \* persistent volumes on NFS
          NfsPods,      \* pods, in the order of their directories
          NfsMaxFaults, \* bound: failures in a behaviour
          NfsMaxMoves   \* bound: steps of pods that mount or unmount

ASSUME NfsAssumption ==
    /\ NfsPods \subseteq Nat \ {0} /\ IsFiniteSet(NfsPods)
    /\ NfsMaxFaults \in Nat /\ NfsMaxMoves \in Nat

NoPod == 0

VARIABLES
  volume,    \* volume[v][p]: "none", "file" (vol_data.json only) or "mounted"
  nfsInfos,  \* lastPvNfsInfoMap: the pod of v's VolDataPath, or NoPod
  nfsPc,     \* where the scrape stands
  stat,      \* pvNameStatsMap: the figures of v read so far
  jsonPaths, \* the pods whose vol_data.json of v was found
  nfsTodo,   \* the volumes the running loop has left
  nfsOut,    \* what the scrape has published of v: one sample or none
  nfsClean,  \* history: no failure and no move since the scrape began
  nfsFaults, nfsMoves  \* still to come
nfsVars == <<volume, nfsInfos, nfsPc, stat, jsonPaths, nfsTodo, nfsOut, nfsClean,
             nfsFaults, nfsMoves>>

OpFields == <<"Requests", "Transmissions", "MajorTimeouts", "BytesSent", "BytesReceived",
              "CumulativeQueueMilliseconds", "CumulativeTotalResponseMilliseconds",
              "CumulativeTotalRequestMilliseconds">>
CapacityFields == <<"total", "used", "available">>

\* Bug: the figures of WRITE come first.
Bug_WriteBeforeRead == [i \in 1 .. 8 |-> <<"WRITE", OpFields[i]>>]
                    \o [i \in 1 .. 8 |-> <<"READ", OpFields[i]>>]

\* addNfsStat: the READ figures of a mount, then its WRITE figures.
addNfsStat == [i \in 1 .. 8 |-> <<"READ", OpFields[i]>>]
           \o [i \in 1 .. 8 |-> <<"WRITE", OpFields[i]>>]

\* descs: what the metric at each position is said to be.
descs == <<
    <<"READ", "Requests">>, <<"READ", "Transmissions">>, <<"READ", "MajorTimeouts">>,
    <<"READ", "BytesSent">>, <<"READ", "BytesReceived">>,
    <<"READ", "CumulativeQueueMilliseconds">>,
    <<"READ", "CumulativeTotalResponseMilliseconds">>,
    <<"READ", "CumulativeTotalRequestMilliseconds">>,
    <<"WRITE", "Requests">>, <<"WRITE", "Transmissions">>, <<"WRITE", "MajorTimeouts">>,
    <<"WRITE", "BytesSent">>, <<"WRITE", "BytesReceived">>,
    <<"WRITE", "CumulativeQueueMilliseconds">>,
    <<"WRITE", "CumulativeTotalResponseMilliseconds">>,
    <<"WRITE", "CumulativeTotalRequestMilliseconds">>,
    <<"capacity", "total">>, <<"capacity", "used">>, <<"capacity", "available">> >>

Having(v, states) == {p \in NfsPods : volume[v][p] \in states}

\* A later path of the same volume overwrites an earlier one.
LastPath(pods) == IF pods = {} THEN NoPod ELSE CHOOSE p \in pods : \A q \in pods : q <= p

\* Every mount of v appends its sixteen figures to the same list.
FiguresOf(v) ==
    [i \in 1 .. 16 * Cardinality(Having(v, {"mounted"})) |-> addNfsStat[((i - 1) % 16) + 1]]

NfsFault == nfsFaults > 0 /\ nfsFaults' = nfsFaults - 1 /\ nfsClean' = FALSE
NoNfsFault == UNCHANGED <<nfsFaults, nfsClean>>

Nothing == [v \in NfsPvs |-> <<>>]
-----------------------------------------------------------------------------
(* nfsStatCollector.Update. *)

\* A file that cannot be opened or parsed gives a nil map, and a nil map or an
\* empty one ends the scrape without an error, before anything is brought up
\* to date.  operationStats of a mount whose line had no statvers is a call of a
\* nil interface, which ends the process; its successor has an empty map.
getNfsStat ==
    /\ nfsPc = "idle"
    /\ \/ /\ nfsFaults > 0 /\ nfsFaults' = nfsFaults - 1
          /\ nfsInfos' \in {nfsInfos, [v \in NfsPvs |-> NoPod]}
          /\ UNCHANGED <<nfsPc, stat, nfsClean>>
       \/ /\ stat' = [v \in NfsPvs |-> FiguresOf(v)]
          /\ nfsPc' = IF stat' = Nothing THEN "idle" ELSE "paths"
          /\ nfsClean' = TRUE
          /\ UNCHANGED <<nfsInfos, nfsFaults>>
    /\ UNCHANGED <<volume, jsonPaths, nfsTodo, nfsOut, nfsMoves>>

findVolJSON ==
    /\ nfsPc = "paths"
    /\ \/ /\ NoNfsFault
          /\ jsonPaths' = [v \in NfsPvs |-> Having(v, {"file", "mounted"})]
          /\ nfsPc' = "map" /\ UNCHANGED stat
       \/ NfsFault /\ nfsPc' = "idle" /\ stat' = Nothing /\ UNCHANGED jsonPaths
    /\ UNCHANGED <<volume, nfsInfos, nfsTodo, nfsOut, nfsMoves>>

\* updateNfsInfoMap: the entries to add or modify.
NfsChanged(paths) ==
    {v \in NfsPvs : LastPath(paths[v]) \notin {NoPod, nfsInfos[v]}}

\* A file that is gone by now is left out, and all are when mount fails.
updateMap ==
    /\ nfsPc = "map"
    /\ \/ /\ NoNfsFault
          /\ jsonPaths' = [v \in NfsPvs |-> jsonPaths[v] \cap Having(v, {"file", "mounted"})]
       \/ NfsFault /\ jsonPaths' = [v \in NfsPvs |-> {}]
    /\ nfsTodo' = NfsChanged(jsonPaths')
    /\ nfsPc' = "lookup"
    /\ UNCHANGED <<volume, nfsInfos, stat, nfsOut, nfsMoves>>

\* getPvcByPvName: the old entry stays when the API server does not answer.
lookUpClaim ==
    /\ nfsPc = "lookup"
    /\ \E v \in nfsTodo :
          /\ \/ NoNfsFault /\ nfsInfos' = [nfsInfos EXCEPT ![v] = LastPath(jsonPaths[v])]
             \/ NfsFault /\ UNCHANGED nfsInfos
          /\ nfsTodo' = nfsTodo \ {v}
    /\ UNCHANGED <<volume, nfsPc, stat, jsonPaths, nfsOut, nfsMoves>>

\* Bug: an entry is never deleted.
Bug_NothingIsDeleted ==
    /\ nfsPc = "lookup" /\ nfsTodo = {}
    /\ nfsTodo' = {v \in NfsPvs : stat[v] # <<>>}
    /\ jsonPaths' = [v \in NfsPvs |-> {}]
    /\ nfsPc' = "report"
    /\ UNCHANGED <<volume, nfsInfos, stat, nfsOut, nfsClean, nfsFaults, nfsMoves>>

prune ==
    /\ nfsPc = "lookup" /\ nfsTodo = {}
    /\ nfsInfos' = [v \in NfsPvs |-> IF jsonPaths[v] = {} THEN NoPod ELSE nfsInfos[v]]
    /\ nfsTodo' = {v \in NfsPvs : stat[v] # <<>>}
    /\ jsonPaths' = [v \in NfsPvs |-> {}]
    /\ nfsPc' = "report"
    /\ UNCHANGED <<volume, stat, nfsOut, nfsClean, nfsFaults, nfsMoves>>

\* getNfsCapacityStat: the figures from the monitor, or, when it has none, those
\* of the file system at VolDataPath: its parent's when nothing is mounted
\* there, and no figures when there is no path or no directory.
getNfsCapacityStat(v) ==
    {CapacityFields} \cup
    (IF nfsInfos[v] = NoPod THEN {<<>>}
     ELSE CASE volume[v][nfsInfos[v]] = "none" -> {<<>>}
            [] volume[v][nfsInfos[v]] = "file" -> {<<"parent_total", "parent_used", "parent_available">>}
            [] OTHER -> {CapacityFields})

\* setNfsMetric: a figure goes by its position, and those past descs are dropped.
setNfsMetric(v, figures) ==
    nfsOut' = [nfsOut EXCEPT ![v] =
        {[figures |-> SubSeq(figures, 1, Len(descs)),
          labelled |-> nfsInfos[v] # NoPod]}]

\* Bug: the capacity is appended to the list that is kept.
Bug_CapacityIsKept ==
    /\ nfsPc = "report" /\ NoNfsFault
    /\ \E v \in nfsTodo :
          /\ stat' = [stat EXCEPT ![v] = @ \o [i \in 1 .. 3 |-> <<"capacity", CapacityFields[i]>>]]
          /\ setNfsMetric(v, stat'[v])
          /\ nfsTodo' = nfsTodo \ {v}
    /\ UNCHANGED <<volume, nfsInfos, nfsPc, jsonPaths, nfsMoves>>

\* One volume of the loop; it is skipped when the monitor does not answer in
\* 500 ms (http.go) or there is no capacity.
report ==
    /\ nfsPc = "report"
    /\ \E v \in nfsTodo :
          /\ \/ /\ NoNfsFault
                /\ \E capacity \in getNfsCapacityStat(v) :
                      IF capacity = <<>> THEN UNCHANGED nfsOut
                      ELSE setNfsMetric(v, stat[v] \o [i \in 1 .. 3 |-> <<"capacity", capacity[i]>>])
             \/ NfsFault /\ UNCHANGED nfsOut
          /\ nfsTodo' = nfsTodo \ {v}
    /\ UNCHANGED <<volume, nfsInfos, nfsPc, stat, jsonPaths, nfsMoves>>

finish ==
    /\ nfsPc = "report" /\ nfsTodo = {}
    /\ nfsPc' = "done"
    /\ stat' = Nothing
    /\ UNCHANGED <<volume, nfsInfos, jsonPaths, nfsTodo, nfsOut, nfsClean, nfsFaults, nfsMoves>>

answer ==
    /\ nfsPc = "done"
    /\ nfsPc' = "idle"
    /\ nfsOut' = [v \in NfsPvs |-> {}]
    /\ nfsClean' = FALSE
    /\ UNCHANGED <<volume, nfsInfos, stat, jsonPaths, nfsTodo, nfsFaults, nfsMoves>>

Update == getNfsStat \/ findVolJSON \/ updateMap \/ lookUpClaim \/ prune \/ report
          \/ finish \/ answer

-----------------------------------------------------------------------------
(* The kubelet writes vol_data.json before the mount and removes it after. *)

Move(v, p, from, to) ==
    /\ volume[v][p] = from
    /\ nfsMoves > 0 /\ nfsMoves' = nfsMoves - 1
    /\ volume' = [volume EXCEPT ![v][p] = to]
    /\ nfsClean' = FALSE
    /\ UNCHANGED <<nfsInfos, nfsPc, stat, jsonPaths, nfsTodo, nfsOut, nfsFaults>>

kubeletMoves ==
    \E v \in NfsPvs, p \in NfsPods :
        \/ Move(v, p, "none", "file") \/ Move(v, p, "file", "mounted")
        \/ Move(v, p, "mounted", "file") \/ Move(v, p, "file", "none")

NfsStatInit ==
    /\ volume \in [NfsPvs -> [NfsPods -> {"none", "mounted"}]]
    /\ nfsInfos = [v \in NfsPvs |-> NoPod]
    /\ nfsPc = "idle"
    /\ stat = Nothing
    /\ jsonPaths = [v \in NfsPvs |-> {}]
    /\ nfsTodo = {}
    /\ nfsOut = [v \in NfsPvs |-> {}]
    /\ nfsClean = FALSE
    /\ nfsFaults = NfsMaxFaults
    /\ nfsMoves = NfsMaxMoves

NfsStatNext == Update \/ kubeletMoves

NfsStatSpec == NfsStatInit /\ [][NfsStatNext]_nfsVars

-----------------------------------------------------------------------------
(* Properties. *)

OpFigures == {"READ", "WRITE"} \X {OpFields[i] : i \in DOMAIN OpFields}
CapacityFigures ==
    {"capacity"} \X {"total", "used", "available", "parent_total", "parent_used", "parent_available"}
NfsSamples == [figures : Seq(OpFigures \cup CapacityFigures), labelled : BOOLEAN]

NfsStatTypeOK ==
    /\ volume \in [NfsPvs -> [NfsPods -> {"none", "file", "mounted"}]]
    /\ nfsInfos \in [NfsPvs -> NfsPods \cup {NoPod}]
    /\ nfsPc \in {"idle", "paths", "map", "lookup", "report", "done"}
    /\ stat \in [NfsPvs -> Seq(OpFigures)]
    /\ jsonPaths \in [NfsPvs -> SUBSET NfsPods]
    /\ nfsTodo \subseteq NfsPvs
    /\ nfsOut \in [NfsPvs -> SUBSET NfsSamples]
    /\ nfsClean \in BOOLEAN
    /\ nfsFaults \in 0 .. NfsMaxFaults /\ nfsMoves \in 0 .. NfsMaxMoves

\* What is published of v is one sample with the labels of its claim.  Its first
\* sixteen figures are what the names say, and all are if one pod alone has v.
SampleIsExact(v) ==
    \E sample \in nfsOut[v] :
        /\ nfsOut[v] = {sample} /\ sample.labelled
        /\ SubSeq(sample.figures, 1, 16) = SubSeq(descs, 1, 16)
        /\ \A p \in NfsPods :
              Having(v, {"mounted"}) = {p} /\ Having(v, {"file"}) = {} =>
                  sample.figures = descs

\* A scrape during which nothing failed or moved publishes every mounted volume
\* exactly, whatever failures and moves the scrapes before it met.
NfsScrapeIsExact ==
    nfsPc = "done" /\ nfsClean =>
        \A v \in NfsPvs : Having(v, {"mounted"}) # {} => SampleIsExact(v)

\* Once moves and failures have ceased and some volume is mounted, the map
\* comes to name for every volume a pod that has it, and no volume that is
\* gone: failed lookups and commands are repaired by later scrapes.
NfsInfosCurrent ==
    <>[](\E v \in NfsPvs : Having(v, {"mounted"}) # {}) =>
        <>[](\A v \in NfsPvs : nfsInfos[v] = LastPath(Having(v, {"file", "mounted"})))
=============================================================================
