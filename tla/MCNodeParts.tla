----------------------------- MODULE MCNodeParts -----------------------------
(***************************************************************************)
(* TLC's instances of the parts of the node that share no state with one   *)
(* another.  A behaviour is one of one part, the others rest; so the run   *)
(* has the behaviours of each and not the products of them.                *)
(***************************************************************************)
EXTENDS MountStats, NfsStat, FuseStat, Freeze, Connector, Orphans

VARIABLE part

Parts == {"mountstats", "nfs", "fuse", "freeze", "connector", "om"}

\* Two volumes to be published for one pod, and one that is, for another.
ThreeRecords == {<<1, 1>>, <<1, 2>>, <<2, 1>>}

\* The initial states of a part; while it rests, one of them.
PartsInit ==
    /\ part \in Parts
    /\ volume \in IF part = "nfs" THEN [NfsPvs -> [NfsPods -> {"none", "mounted"}]]
                  ELSE {[v \in NfsPvs |-> [p \in NfsPods |-> "none"]]}
    /\ counters = IF part = "fuse" THEN {<<2, 1>>} ELSE {}
    /\ isolated \in IF part = "freeze" THEN SUBSET FreezePaths ELSE {FreezePaths}
    /\ volumeDirs = IF part = "om" THEN OrphanVolumes ELSE {}
    /\ MountStatsInit /\ NfsStatInit /\ FuseStatInit /\ FreezeInit /\ ConnectorInit
    /\ OrphansInit

partsVars == <<part, mountStatsVars, nfsVars, fuseVars, freezeVars, connectorVars, omVars>>

MountStatsRests == UNCHANGED mountStatsVars
NfsRests        == UNCHANGED nfsVars
FuseRests       == UNCHANGED fuseVars
FreezeRests     == UNCHANGED freezeVars
ConnectorRests  == UNCHANGED connectorVars
OmRests         == UNCHANGED omVars

Only(p) ==
    /\ part = p
    /\ UNCHANGED part
    /\ p # "mountstats" => MountStatsRests
    /\ p # "nfs" => NfsRests
    /\ p # "fuse" => FuseRests
    /\ p # "freeze" => FreezeRests
    /\ p # "connector" => ConnectorRests
    /\ p # "om" => OmRests

PartsNext ==
    \/ Only("mountstats") /\ MountStatsNext
    \/ Only("nfs") /\ NfsStatNext
    \/ Only("fuse") /\ FuseStatNext
    \/ Only("freeze") /\ FreezeNext
    \/ Only("connector") /\ ConnectorNext
    \/ Only("om") /\ OrphansNext

\* The fairness of each part.  Writers, requests and timers take finitely many
\* steps each, so it is enough that one of those that can goes on.
PartsFairness ==
    /\ WF_partsVars(Only("nfs") /\ Update)
    /\ WF_partsVars(Only("fuse") /\ FuseUpdate)
    /\ WF_partsVars(Only("fuse") /\ \E d \in Records : WriteMetricsInfo(d))
    /\ WF_partsVars(Only("freeze") /\ \E r \in FreezeRequests : Serve(r) \/ timeoutFunc(r))
    /\ WF_partsVars(Only("connector") /\ RestartOnFailure)
    /\ \A l \in Listeners :
          /\ WF_partsVars(Only("connector") /\ (EnsureSocketPath(l) \/ Listen(l)))
          /\ WF_partsVars(Only("connector") /\ watchDogCheck(l))
    /\ WF_partsVars(Only("om") /\ StorageOM)

PartsSpec == PartsInit /\ [][PartsNext]_partsVars /\ PartsFairness
=============================================================================
