------------------------------- MODULE Connector -------------------------------
(***************************************************************************)
(* The connector daemon as a whole: main and watchDogCheck of              *)
(* csiplugin-connector.go, its systemd unit, and the entry point of the    *)
(* plugins' containers, which restarts it.  PLUGINS_SOCKETS is set, so     *)
(* that the unit has Restart=on-failure and WATCHDOG_SOCKETS_PATH: when    *)
(* the sockets of all plugins are dead for long the daemon ends with exit  *)
(* code 0 and systemd leaves it at that.  What its servers do with a       *)
(* command is in OssNode and Freeze.                                       *)
(***************************************************************************)
EXTENDS Integers

CONSTANTS PluginSockets,     \* WATCHDOG_SOCKETS_PATH
          DeadChecks,        \* checks in a row after which a socket is dead (6)
          MaxCrashes,        \* bound: crashes of the daemon
          MaxPluginStarts    \* bound: starts of plugins

ASSUME ConnectorAssumption ==
    PluginSockets # {} /\ DeadChecks \in Nat \ {0} /\ MaxCrashes \in Nat /\ MaxPluginStarts \in Nat

\* OSSSocketPath and DiskSocketPath; one goroutine serves each.
Listeners == {"connector.sock", "diskconnector.sock"}

VARIABLES
  daemon,     \* "running", "failed" (systemd will start it) or "exited"
  listener,   \* listener[l]: "ensure", "listen" or "serve"
  socketFile, \* the socket files that exist, of this daemon or of an earlier one
  notAlive,   \* notAlive[l]: socketNotAliveCount of the watchdog l started
  unchecked,  \* unchecked[l]: sockets it has still to check in this round
  plugin,     \* plugin[p]: "down", "installing", "starting" or "up"
  missed,     \* history: missed[l][p]: its last checks in a row that found p down
  crashes, starts  \* still to come
watch == <<notAlive, unchecked, missed>>
connectorVars == <<daemon, listener, socketFile, watch, plugin, crashes, starts>>

Alive(p) == plugin[p] = "up"
NoCounts == [l \in Listeners |-> [p \in PluginSockets |-> 0]]

-----------------------------------------------------------------------------
(* main. *)

\* A fresh process: both goroutines begin, the sockets of the last one remain.
Started ==
    /\ daemon' = "running"
    /\ listener' = [l \in Listeners |-> "ensure"]
    /\ notAlive' = NoCounts
    /\ missed' = NoCounts
    /\ unchecked' = [l \in Listeners |-> PluginSockets]

\* Bug: an old socket is left.
Bug_SocketIsLeft(l) ==
    /\ daemon = "running" /\ listener[l] = "ensure"
    /\ listener' = [listener EXCEPT ![l] = "listen"]
    /\ UNCHANGED <<daemon, socketFile, watch, plugin, crashes, starts>>

EnsureSocketPath(l) ==
    /\ daemon = "running" /\ listener[l] = "ensure"
    /\ socketFile' = socketFile \ {l}
    /\ listener' = [listener EXCEPT ![l] = "listen"]
    /\ UNCHANGED <<daemon, watch, plugin, crashes, starts>>

\* log.Fatalf when the address is in use.
Listen(l) ==
    /\ daemon = "running" /\ listener[l] = "listen"
    /\ IF l \in socketFile
       THEN daemon' = "failed" /\ UNCHANGED <<listener, socketFile>>
       ELSE /\ socketFile' = socketFile \cup {l}
            /\ listener' = [listener EXCEPT ![l] = "serve"]
            /\ UNCHANGED daemon
    /\ UNCHANGED <<watch, plugin, crashes, starts>>

-----------------------------------------------------------------------------
(* watchDogCheck. *)

Count(n) == IF n < DeadChecks THEN n + 1 ELSE n

\* Bug: the watchdogs share their counts.
Bug_SharedCounts(l, p) ==
    [k \in Listeners |-> [notAlive[k] EXCEPT ![p] = IF Alive(p) THEN 0 ELSE Count(@)]]

\* Bug: the counts are made anew in every round.
Bug_CountsOfOneRound(l, p) ==
    [notAlive EXCEPT ![l][p] = IF Alive(p) THEN 0 ELSE 1]

\* isUnixDomainSocketLive of one socket.
Counted(l, p) ==
    [notAlive EXCEPT ![l][p] = IF Alive(p) THEN 0 ELSE Count(@)]

\* Assumption: a plugin listens before a daemon that was restarted for it has
\* checked DeadChecks times.
QuickStart(l, p) == plugin[p] = "starting" => notAlive[l][p] < DeadChecks - 1

CheckSocket(l, p) ==
    /\ daemon = "running" /\ listener[l] = "serve"
    /\ p \in unchecked[l]
    /\ QuickStart(l, p)
    /\ unchecked' = [unchecked EXCEPT ![l] = @ \ {p}]
    /\ notAlive' = Counted(l, p)
    /\ missed' = [missed EXCEPT ![l][p] = IF Alive(p) THEN 0 ELSE Count(@)]
    /\ UNCHANGED <<daemon, listener, socketFile, plugin, crashes, starts>>

\* The end of a round: exit(0) when every socket is dead, else sleep.
EndRound(l) ==
    /\ daemon = "running" /\ listener[l] = "serve"
    /\ unchecked[l] = {}
    /\ IF \A p \in PluginSockets : notAlive[l][p] >= DeadChecks
       THEN daemon' = "exited" /\ UNCHANGED unchecked
       ELSE unchecked' = [unchecked EXCEPT ![l] = PluginSockets] /\ UNCHANGED daemon
    /\ UNCHANGED <<listener, socketFile, notAlive, missed, plugin, crashes, starts>>

watchDogCheck(l) == EndRound(l) \/ \E p \in PluginSockets : CheckSocket(l, p)

-----------------------------------------------------------------------------
(* systemd, and the containers of the plugins. *)

Crash ==
    /\ daemon = "running"
    /\ crashes > 0
    /\ crashes' = crashes - 1
    /\ daemon' = "failed"
    /\ UNCHANGED <<listener, socketFile, watch, plugin, starts>>

\* Restart=on-failure.
RestartOnFailure ==
    /\ daemon = "failed"
    /\ Started
    /\ UNCHANGED <<socketFile, plugin, crashes, starts>>

\* A container starts, and its entry point removes the plugin's socket.
PluginInstalls(p) ==
    /\ plugin[p] = "down"
    /\ starts > 0
    /\ starts' = starts - 1
    /\ plugin' = [plugin EXCEPT ![p] = "installing"]
    /\ UNCHANGED <<daemon, listener, socketFile, watch, crashes>>

\* systemctl restart, whatever the daemon does.  (A systemctl that fails ten
\* times in a row is left out.)
RestartService(p) ==
    /\ plugin[p] = "installing"
    /\ plugin' = [plugin EXCEPT ![p] = "starting"]
    /\ Started
    /\ UNCHANGED <<socketFile, crashes, starts>>

PluginListens(p) ==
    /\ plugin[p] = "starting"
    /\ plugin' = [plugin EXCEPT ![p] = "up"]
    /\ UNCHANGED <<daemon, listener, socketFile, watch, crashes, starts>>

PluginStops(p) ==
    /\ plugin[p] # "down"
    /\ plugin' = [plugin EXCEPT ![p] = "down"]
    /\ UNCHANGED <<daemon, listener, socketFile, watch, crashes, starts>>

amd64_entrypoint(p) == RestartService(p) \/ PluginListens(p)

-----------------------------------------------------------------------------

ConnectorInit ==
    /\ daemon = "exited"
    /\ listener = [l \in Listeners |-> "ensure"]
    /\ socketFile = {}
    /\ notAlive = NoCounts /\ missed = NoCounts
    /\ unchecked = [l \in Listeners |-> PluginSockets]
    /\ plugin = [p \in PluginSockets |-> "down"]
    /\ crashes = MaxCrashes
    /\ starts = MaxPluginStarts

ConnectorNext ==
    \/ \E l \in Listeners : EnsureSocketPath(l) \/ Listen(l) \/ watchDogCheck(l)
    \/ Crash \/ RestartOnFailure
    \/ \E p \in PluginSockets : PluginInstalls(p) \/ PluginStops(p) \/ amd64_entrypoint(p)

ConnectorSpec == ConnectorInit /\ [][ConnectorNext]_connectorVars

-----------------------------------------------------------------------------
(* Properties. *)

ConnectorTypeOK ==
    /\ daemon \in {"running", "failed", "exited"}
    /\ listener \in [Listeners -> {"ensure", "listen", "serve"}]
    /\ socketFile \subseteq Listeners
    /\ notAlive \in [Listeners -> [PluginSockets -> 0 .. DeadChecks]]
    /\ missed \in [Listeners -> [PluginSockets -> 0 .. DeadChecks]]
    /\ unchecked \in [Listeners -> SUBSET PluginSockets]
    /\ plugin \in [PluginSockets -> {"down", "installing", "starting", "up"}]
    /\ crashes \in 0 .. MaxCrashes /\ starts \in 0 .. MaxPluginStarts

\* The daemon ends itself only when one of its watchdogs has found every
\* plugin's socket dead as often in a row as it takes, though two watchdogs
\* check the same sockets.  (watchDogCheck, started by each listener.)
ExitsOnlyWhenDead ==
    [][daemon = "running" /\ daemon' = "exited" =>
         \E l \in Listeners : \A p \in PluginSockets : missed[l][p] = DeadChecks]_connectorVars

\* While some plugin stays up, both sockets of the connector come to be served,
\* and stay so, whatever crashed, exited and was restarted before.
ServesThePlugins ==
    (\E p \in PluginSockets : <>[](plugin[p] = "up")) =>
        <>[](daemon = "running" /\ \A l \in Listeners : listener[l] = "serve")

\* When all plugins are gone for good the daemon does not stay.
LeavesWithThePlugins ==
    <>[](\A p \in PluginSockets : plugin[p] = "down") => <>[](daemon = "exited")
=============================================================================
