-------------------------------- MODULE Scrape --------------------------------
(***************************************************************************)
(* Scrapes of the plugin's /metrics endpoint (pkg/metric): Handler.ServeHTTP, *)
(* CSICollector.Collect and the collector of the disks, with the disks of  *)
(* one node that come and go meanwhile.                                    *)
(*                                                                         *)
(* Requests are served at once, each by a goroutine, and share two         *)
(* variables: scalerPvcMap, the filter a request with ?multipvc= sets and  *)
(* every Collect clears when it ends, with no lock; and lastPvDiskInfoMap, *)
(* what is known of each disk, updated under pvInfoLock and read without.  *)
(*                                                                         *)
(* A volume's claim never changes, so a claim goes by its volume's name;   *)
(* the statistics of a device are those of the volume whose disk it was    *)
(* when they were read.  A sample pairs the two.  Values, alerts and the   *)
(* other collectors, which share no state with this one, are left out.     *)
(***************************************************************************)
EXTENDS Integers, FiniteSets

CONSTANTS Scrapers,   \* bound: requests served at once
          Pvs,        \* persistent volumes on disks
          Devices,    \* device names a disk may get
          Pods,       \* bound: pod UIDs, reused once nothing remembers them
          Queries,    \* the lists of claims a ?multipvc= query names
          None,       \* no volume, no device, no lock holder, a nil map
          Faults,     \* the kinds of fault that may happen: FaultKinds
          MaxFaults,  \* bound: how many faults a behaviour has
          MaxMoves    \* bound: how often disks are attached or detached

FaultKinds ==
    {"diskstats",  \* /proc/diskstats cannot be read
     "pods",       \* the directory of the pods cannot be read
     "mount",      \* the mount command fails
     "device",     \* the device of a disk is not found
     "lookup"}     \* the API server does not answer, or the claim is not bound

ASSUME NoneAssumption ==
    /\ None \notin Scrapers \cup Pvs \cup Devices \cup Pods
    /\ \A claims \in SUBSET Pvs : claims # None
ASSUME QueryAssumption == Queries \subseteq SUBSET Pvs
ASSUME FaultAssumption == Faults \subseteq FaultKinds /\ MaxFaults \in Nat /\ MaxMoves \in Nat

\* diskInfo: VolDataPath names the pod, DeviceName the device.
DiskInfo == [pod : Pods, dev : Devices]

VARIABLES host,       \* host[v]: the pod and the device of v's disk, or None
          infos,      \* lastPvDiskInfoMap: infos[v], or None
          lock,       \* pvInfoLock: its holder or None
          filter,     \* scalerPvcMap: the claims in it, or None for nil
          up,         \* the process runs
          pc,         \* pc[s]: where the scrape of s stands
          query,      \* query[s]: the claims it asks for, or None for all
          adding,     \* adding[s]: claims ServeHTTP still has to store
          stats,      \* stats[s][d]: whose disk d was in diskstats, or None
          found,      \* found[s][v]: the disk as findVolJSON and updateMap saw it
          todo,       \* todo[s]: entries it has to look up
          seen,       \* seen[s]: entries its loop has passed
          due,        \* due[s]: entries that were there when the loop began
          sample,     \* sample[s]: the sample whose claim it checks
          out,        \* out[s]: the samples sent so far
          clean,      \* history: clean[s]: s ran alone, disks at rest, no fault
          faults, moves  \* faults and moves still to come

locals == <<query, adding, stats, found, todo, seen, due, sample, out, clean>>
vars   == <<host, infos, lock, filter, up, pc, locals, faults, moves>>

Samples  == [pv : Pvs, of : Pvs]
Steps == {"idle", "newFilter", "store", "stats", "paths", "volumes", "lock",
          "lookup", "range", "load", "reset", "answer"}
NoDisks  == [v \in Pvs |-> None]
NoStats  == [d \in Devices |-> None]

TypeOK ==
    /\ host \in [Pvs -> DiskInfo \cup {None}]
    /\ infos \in [Pvs -> DiskInfo \cup {None}]
    /\ lock \in Scrapers \cup {None}
    /\ filter \in (SUBSET Pvs) \cup {None}
    /\ up \in BOOLEAN
    /\ pc \in [Scrapers -> Steps]
    /\ query \in [Scrapers -> Queries \cup {None}]
    /\ adding \in [Scrapers -> SUBSET Pvs]
    /\ stats \in [Scrapers -> [Devices -> Pvs \cup {None}]]
    /\ found \in [Scrapers -> [Pvs -> DiskInfo \cup {None}]]
    /\ todo \in [Scrapers -> SUBSET Pvs]
    /\ seen \in [Scrapers -> SUBSET Pvs]
    /\ due \in [Scrapers -> SUBSET Pvs]
    /\ sample \in [Scrapers -> Samples \cup {None}]
    /\ out \in [Scrapers -> SUBSET Samples]
    /\ clean \in [Scrapers -> BOOLEAN]
    /\ faults \in Nat
    /\ moves \in Nat
-----------------------------------------------------------------------------
(* Helpers. *)

GoTo(s, to) == pc' = [pc EXCEPT ![s] = to]

\* A fault of this kind strikes the scrape of s.
Fault(s, kind) ==
    /\ kind \in Faults
    /\ faults > 0
    /\ faults' = faults - 1
    /\ clean' = [clean EXCEPT ![s] = FALSE]

NoFault == UNCHANGED <<faults, clean>>

\* parseDiskStats: a line for each device that is there.
DiskStats == [d \in Devices |->
    IF \E v \in Pvs : host[v] # None /\ host[v].dev = d
    THEN CHOOSE v \in Pvs : host[v] # None /\ host[v].dev = d
    ELSE None]

\* Of the disks found, those whose vol_data.json is still there.
StillThere(disks) ==
    [v \in Pvs |-> IF disks[v] # None /\ disks[v] = host[v] THEN disks[v] ELSE None]

\* Bug: entries are added and never modified.
Bug_ChangedAddsOnly(disks) == {v \in Pvs : disks[v] # None /\ infos[v] = None}

\* updateDiskInfoMap: the entries to add or modify.
Changed(disks) ==
    {v \in Pvs : /\ disks[v] # None
                 /\ infos[v] = None \/ infos[v].pod # disks[v].pod}

Known == {v \in Pvs : infos[v] # None}

-----------------------------------------------------------------------------
(* Handler.ServeHTTP. *)

\* A request comes in; other scrapes that run are no longer alone.
Request(s, q) ==
    /\ up
    /\ pc[s] = "idle"
    /\ query' = [query EXCEPT ![s] = q]
    /\ clean' = [t \in Scrapers |-> t = s /\ \A u \in Scrapers \ {s} : pc[u] = "idle"]
    /\ GoTo(s, IF q = None THEN "stats" ELSE "newFilter")
    /\ UNCHANGED <<host, infos, lock, filter, up, adding, stats, found, todo, seen,
                   due, sample, out, faults, moves>>

NewFilter(s) ==
    /\ up
    /\ pc[s] = "newFilter"
    /\ filter' = {}
    /\ adding' = [adding EXCEPT ![s] = query[s]]
    /\ GoTo(s, "store")
    /\ UNCHANGED <<host, infos, lock, up, query, stats, found, todo, seen, due,
                   sample, out, clean, faults, moves>>

\* scalerPvcMap.Store: it panics when the map has become nil, and net/http
\* recovers the panic and drops the request.
StoreClaim(s) ==
    /\ up
    /\ pc[s] = "store"
    /\ \/ /\ adding[s] = {}
          /\ GoTo(s, "stats")
          /\ UNCHANGED <<filter, adding>>
       \/ \E v \in adding[s] :
              IF filter = None
              THEN /\ GoTo(s, "idle")
                   /\ adding' = [adding EXCEPT ![s] = {}]
                   /\ UNCHANGED filter
              ELSE /\ filter' = filter \cup {v}
                   /\ adding' = [adding EXCEPT ![s] = @ \ {v}]
                   /\ UNCHANGED pc
    /\ UNCHANGED <<host, infos, lock, up, query, stats, found, todo, seen, due,
                   sample, out, clean, faults, moves>>

-----------------------------------------------------------------------------
(* diskStatCollector.Update. *)

ReadStats(s) ==
    /\ up
    /\ pc[s] = "stats"
    /\ \/ NoFault /\ GoTo(s, "paths") /\ stats' = [stats EXCEPT ![s] = DiskStats]
       \/ Fault(s, "diskstats") /\ GoTo(s, "reset") /\ UNCHANGED stats
    /\ UNCHANGED <<host, infos, lock, filter, up, query, adding, found, todo, seen,
                   due, sample, out, moves>>

FindVolJSON(s) ==
    /\ up
    /\ pc[s] = "paths"
    /\ \/ NoFault /\ GoTo(s, "volumes") /\ found' = [found EXCEPT ![s] = host]
       \/ Fault(s, "pods") /\ GoTo(s, "reset") /\ UNCHANGED found
    /\ UNCHANGED <<host, infos, lock, filter, up, query, adding, stats, todo, seen,
                   due, sample, out, moves>>

\* updateMap: a disk whose file or device is gone is left out; when the mount
\* command fails every disk is.
UpdateMap(s) ==
    /\ up
    /\ pc[s] = "volumes"
    /\ \/ NoFault /\ found' = [found EXCEPT ![s] = StillThere(@)]
       \/ /\ Fault(s, "device")
          /\ \E v \in Pvs : found' = [found EXCEPT ![s] = [StillThere(@) EXCEPT ![v] = None]]
       \/ Fault(s, "mount") /\ found' = [found EXCEPT ![s] = NoDisks]
    /\ GoTo(s, "lock")
    /\ UNCHANGED <<host, infos, lock, filter, up, query, adding, stats, todo, seen,
                   due, sample, out, moves>>

\* updateDiskInfoMap begins.
Lock(s) ==
    /\ up
    /\ pc[s] = "lock"
    /\ lock = None
    /\ lock' = s
    /\ todo' = [todo EXCEPT ![s] = Changed(found[s])]
    /\ GoTo(s, "lookup")
    /\ UNCHANGED <<host, infos, filter, up, query, adding, stats, found, seen, due,
                   sample, out, clean, faults, moves>>

\* Bug: a modified entry keeps its device.
Bug_LookUpKeepsDevice(s) ==
    /\ up
    /\ pc[s] = "lookup"
    /\ \E v \in todo[s] :
          /\ \/ /\ NoFault
                /\ infos' = [infos EXCEPT ![v] =
                     IF @ = None THEN found[s][v] ELSE [found[s][v] EXCEPT !.dev = infos[v].dev]]
             \/ Fault(s, "lookup") /\ UNCHANGED infos
          /\ todo' = [todo EXCEPT ![s] = @ \ {v}]
    /\ UNCHANGED <<host, lock, filter, up, pc, query, adding, stats, found, seen,
                   due, sample, out, moves>>

\* The claim of a new or modified entry is asked of the API server, with the
\* lock held; when that fails the old entry, if any, stays.
LookUp(s) ==
    /\ up
    /\ pc[s] = "lookup"
    /\ \E v \in todo[s] :
          /\ \/ NoFault /\ infos' = [infos EXCEPT ![v] = found[s][v]]
             \/ Fault(s, "lookup") /\ UNCHANGED infos
          /\ todo' = [todo EXCEPT ![s] = @ \ {v}]
    /\ UNCHANGED <<host, lock, filter, up, pc, query, adding, stats, found, seen,
                   due, sample, out, moves>>

\* Entries of disks not found are deleted, the lock is released and the loop
\* of Update begins.
Prune(s) ==
    /\ up
    /\ pc[s] = "lookup"
    /\ todo[s] = {}
    /\ infos' = [v \in Pvs |-> IF found[s][v] = None THEN None ELSE infos[v]]
    /\ lock' = None
    /\ due' = [due EXCEPT ![s] = {v \in Pvs : infos'[v] # None}]
    /\ found' = [found EXCEPT ![s] = NoDisks]
    /\ GoTo(s, "range")
    /\ UNCHANGED <<host, filter, up, query, adding, stats, todo, seen, sample, out,
                   clean, faults, moves>>

\* Bug: a device with no line in diskstats is reported all the same.
Bug_RangeReportsMissing(s) ==
    /\ up
    /\ pc[s] = "range"
    /\ filter = None
    /\ \E v \in Known \ seen[s] :
          /\ seen' = [seen EXCEPT ![s] = @ \cup {v}]
          /\ out' = [out EXCEPT ![s] = @ \cup {[pv |-> v, of |-> stats[s][infos[v].dev]]}]
    /\ UNCHANGED <<host, infos, lock, filter, up, pc, query, adding, stats, found, todo,
                   due, sample, clean, faults, moves>>

\* One turn of the loop over lastPvDiskInfoMap, up to the test of scalerPvcMap.
Range(s) ==
    /\ up
    /\ pc[s] = "range"
    /\ \E v \in Known \ seen[s] :
          LET of == stats[s][infos[v].dev] IN
          /\ seen' = [seen EXCEPT ![s] = @ \cup {v}]
          /\ \/ of = None /\ UNCHANGED <<pc, sample, out>>
             \/ /\ of # None
                /\ filter = None
                /\ out' = [out EXCEPT ![s] = @ \cup {[pv |-> v, of |-> of]}]
                /\ UNCHANGED <<pc, sample>>
             \/ /\ of # None
                /\ filter # None
                /\ sample' = [sample EXCEPT ![s] = [pv |-> v, of |-> of]]
                /\ GoTo(s, "load")
                /\ UNCHANGED out
    /\ UNCHANGED <<host, infos, lock, filter, up, query, adding, stats, found, todo,
                   due, clean, faults, moves>>

\* scalerPvcMap.Load, in a goroutine of Collect: a nil map ends the process.
Load(s) ==
    /\ up
    /\ pc[s] = "load"
    /\ GoTo(s, "range")
    /\ sample' = [sample EXCEPT ![s] = None]
    /\ up' = (filter # None)
    /\ out' = [out EXCEPT ![s] =
                 IF filter # None /\ sample[s].pv \in filter THEN @ \cup {sample[s]} ELSE @]
    /\ UNCHANGED <<host, infos, lock, filter, query, adding, stats, found, todo,
                   seen, due, clean, faults, moves>>

\* The loop meets a write of another scrape: the Go runtime may notice and end
\* the process.
MapRace(s) ==
    /\ up
    /\ pc[s] = "range"
    /\ \E t \in Scrapers \ {s} :
          /\ pc[t] = "lookup"
          /\ todo[t] # {} \/ \E v \in Known : found[t][v] = None
    /\ up' = FALSE
    /\ UNCHANGED <<host, infos, lock, filter, pc, locals, faults, moves>>

\* An entry added while the loop runs may or may not be visited.
EndRange(s) ==
    /\ up
    /\ pc[s] = "range"
    /\ Known \cap due[s] \subseteq seen[s]
    /\ GoTo(s, "reset")
    /\ seen' = [seen EXCEPT ![s] = {}]
    /\ due' = [due EXCEPT ![s] = {}]
    /\ stats' = [stats EXCEPT ![s] = NoStats]
    /\ UNCHANGED <<host, infos, lock, filter, up, query, adding, found, todo, sample,
                   out, clean, faults, moves>>

-----------------------------------------------------------------------------
(* The end of CSICollector.Collect, and the answer. *)

\* Bug: the filter of one scrape stays for the next.
Bug_ResetKeepsFilter(s) ==
    /\ up
    /\ pc[s] = "reset"
    /\ stats' = [stats EXCEPT ![s] = NoStats]
    /\ GoTo(s, "answer")
    /\ UNCHANGED <<host, infos, lock, filter, up, query, adding, found, todo, seen, due,
                   sample, out, clean, faults, moves>>

Reset(s) ==
    /\ up
    /\ pc[s] = "reset"
    /\ filter' = None
    /\ stats' = [stats EXCEPT ![s] = NoStats]
    /\ GoTo(s, "answer")
    /\ UNCHANGED <<host, infos, lock, up, query, adding, found, todo, seen, due,
                   sample, out, clean, faults, moves>>

Answer(s) ==
    /\ up
    /\ pc[s] = "answer"
    /\ GoTo(s, "idle")
    /\ query' = [query EXCEPT ![s] = None]
    /\ out' = [out EXCEPT ![s] = {}]
    /\ clean' = [clean EXCEPT ![s] = FALSE]
    /\ UNCHANGED <<host, infos, lock, filter, up, adding, stats, found, todo, seen,
                   due, sample, faults, moves>>

-----------------------------------------------------------------------------
(* The plugin's container, and the disks of the node. *)

\* The container restarts with nothing remembered and nothing under way.
Restart ==
    /\ ~up
    /\ up' = TRUE
    /\ infos' = NoDisks
    /\ lock' = None
    /\ filter' = None
    /\ pc' = [s \in Scrapers |-> "idle"]
    /\ query' = [s \in Scrapers |-> None]
    /\ adding' = [s \in Scrapers |-> {}]
    /\ stats' = [s \in Scrapers |-> NoStats]
    /\ found' = [s \in Scrapers |-> NoDisks]
    /\ todo' = [s \in Scrapers |-> {}]
    /\ seen' = [s \in Scrapers |-> {}]
    /\ due' = [s \in Scrapers |-> {}]
    /\ sample' = [s \in Scrapers |-> None]
    /\ out' = [s \in Scrapers |-> {}]
    /\ clean' = [s \in Scrapers |-> FALSE]
    /\ UNCHANGED <<host, faults, moves>>

Moved ==
    /\ moves > 0
    /\ moves' = moves - 1
    /\ clean' = [s \in Scrapers |-> FALSE]
    /\ UNCHANGED <<infos, lock, filter, up, pc, query, adding, stats, found, todo, seen,
                   due, sample, out, faults>>

\* A pod gets the disk of v, under a device name that is free.  A pod's UID is
\* new: the model takes one that nothing remembers for v.
Attach(v, p, d) ==
    /\ host[v] = None
    /\ \A u \in Pvs : host[u] # None => host[u].dev # d
    /\ \A disks \in {infos} \cup {found[s] : s \in Scrapers} :
          disks[v] # None => disks[v].pod # p
    /\ host' = [host EXCEPT ![v] = [pod |-> p, dev |-> d]]
    /\ Moved

Detach(v) ==
    /\ host[v] # None
    /\ host' = [host EXCEPT ![v] = None]
    /\ Moved

-----------------------------------------------------------------------------

Init ==
    /\ host \in [Pvs -> DiskInfo \cup {None}]
    /\ \A u, v \in Pvs : u # v /\ host[u] # None /\ host[v] # None => host[u].dev # host[v].dev
    /\ infos = NoDisks
    /\ lock = None
    /\ filter = None
    /\ up = TRUE
    /\ pc = [s \in Scrapers |-> "idle"]
    /\ query = [s \in Scrapers |-> None]
    /\ adding = [s \in Scrapers |-> {}]
    /\ stats = [s \in Scrapers |-> NoStats]
    /\ found = [s \in Scrapers |-> NoDisks]
    /\ todo = [s \in Scrapers |-> {}]
    /\ seen = [s \in Scrapers |-> {}]
    /\ due = [s \in Scrapers |-> {}]
    /\ sample = [s \in Scrapers |-> None]
    /\ out = [s \in Scrapers |-> {}]
    /\ clean = [s \in Scrapers |-> FALSE]
    /\ faults = MaxFaults
    /\ moves = MaxMoves

ServeHTTP(s) == NewFilter(s) \/ StoreClaim(s)

Update(s) ==
    \/ ReadStats(s) \/ FindVolJSON(s) \/ UpdateMap(s)
    \/ Lock(s) \/ LookUp(s) \/ Prune(s)
    \/ Range(s) \/ Load(s) \/ EndRange(s)

Collect(s) == Update(s) \/ Reset(s) \/ Answer(s)

Disks == \E v \in Pvs : Detach(v) \/ \E p \in Pods, d \in Devices : Attach(v, p, d)

Next ==
    \/ \E s \in Scrapers :
          \/ \E q \in Queries \cup {None} : Request(s, q)
          \/ ServeHTTP(s)
          \/ Collect(s)
          \/ MapRace(s)
    \/ Restart
    \/ Disks

Spec == Init /\ [][Next]_vars

\* The Go scheduler runs every goroutine and the kubelet restarts the plugin;
\* the monitoring system asks for all claims again and again.
Fairness ==
    /\ \A s \in Scrapers : WF_vars(ServeHTTP(s)) /\ WF_vars(Collect(s)) /\ WF_vars(Request(s, None))
    /\ WF_vars(Restart)

FairSpec == Spec /\ Fairness

-----------------------------------------------------------------------------
(* Properties. *)

\* A scrape that ran alone, while the disks stayed as they were and nothing
\* failed, answers for exactly the claims it was asked for, each with the
\* statistics of its own disk, whatever scrapes, failures and moves went before.
AnswerIsExact ==
    \A s \in Scrapers : pc[s] = "answer" /\ clean[s] =>
        out[s] = {[pv |-> v, of |-> v] : v \in
                     {u \in Pvs : host[u] # None /\ (query[s] # None => u \in query[s])}}

\* An entry of lastPvDiskInfoMap that names the pod the disk is with now also
\* names its device, though entries are read, looked up and written by
\* concurrent scrapes in any order.
EntryNamesTheDisk ==
    \A v \in Pvs : infos[v] # None /\ host[v] # None /\ infos[v].pod = host[v].pod
                      => infos[v] = host[v]

\* When the process does not crash for ever, the map comes to agree with the
\* disks for good once they are at rest: snapshots written late, failed lookups
\* and failed commands are repaired by later scrapes.
EventuallyCurrent == <>[]up => <>[](infos = host)

\* A goroutine that found scalerPvcMap set still finds it set when it loads a
\* claim from it, or the process ends: ServeHTTP "implements http.Handler"
\* (metric.go) and Collect "implements the prometheus.Collector interface"
\* (collector.go), both of which are called concurrently.
FilterStays == \A s \in Scrapers : pc[s] = "load" => filter # None
=============================================================================
