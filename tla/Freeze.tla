-------------------------------- MODULE Freeze --------------------------------
(***************************************************************************)
(* The disk connector: freezeFilesystemServer of csiplugin-connector.go    *)
(* runs freezefs.sh, which freezes a file system and leaves a timer behind *)
(* that thaws it, or thaws it at once.  The timer inherits the pipe that   *)
(* run reads to its end, so that a client has its answer to a freeze only  *)
(* when the timer has ended.  Each connection has a goroutine of its own   *)
(* and no lock is taken: any requests may be under way at once, freezes of *)
(* one path among them.  No code of the repository is a client; the        *)
(* clients here may ask for anything at any time.                          *)
(***************************************************************************)
EXTENDS Integers

CONSTANTS FreezePaths,    \* mount points of file systems of their own
          FreezeRequests, \* bound: requests, each made once
          ParentFs,       \* the file system they are mounted on, and of the logs
          NoRequest,      \* no request, not frozen
          FreezeMaxMoves, \* bound: how often a file system is mounted or unmounted
          FreezeMaxStops  \* bound: how often the connector is restarted

ASSUME FreezeAssumption ==
    /\ ParentFs \notin FreezePaths
    /\ NoRequest \notin FreezeRequests
    /\ FreezePaths # {}
    /\ FreezeMaxMoves \in Nat /\ FreezeMaxStops \in Nat

VARIABLES
  frozen,        \* frozen[fs]: the request that froze it, or NoRequest
  isolated,      \* paths with a file system mounted on them
  request,       \* request[r]: its type, its path and how far it is
  timer,         \* timer[r]: what timeoutFunc of r does
  freezeMoves, freezeStops, \* still to come
  beside,        \* history: pairs of freezes of one path awaited at a time
  moved          \* history: requests whose path's mount moved while under way
freezeVars ==
    <<frozen, isolated, request, timer, freezeMoves, freezeStops, beside, moved>>

Types == {"freeze", "unfreeze"}
Steps == {"none", "df", "dfDir", "script", "wait", "answered"}

\* The file system that path p is on.
Fs(p) == IF p \in isolated THEN p ELSE ParentFs

\* The daemon and the script log what they do; a write to a frozen file system
\* waits until it is thawed.
LogWritable == frozen[ParentFs] = NoRequest

Proceed(r, step) == request' = [request EXCEPT ![r].step = step]

\* Under way: asked, and the client still waits.
Waiting(r) == request[r].step \notin {"none", "answered"}

-----------------------------------------------------------------------------
(* freezeFilesystemServer. *)

\* A freeze of p that a client waits for.
Freezing(q, p) == Waiting(q) /\ request[q].type = "freeze" /\ request[q].path = p

\* A connection is accepted and gets its goroutine.
Ask(r, type, p) ==
    /\ request[r].step = "none"
    /\ request' = [request EXCEPT ![r] = [type |-> type, path |-> p, step |-> "df"]]
    /\ beside' = IF type # "freeze" THEN beside
                 ELSE beside \cup {{q, r} : q \in {w \in FreezeRequests : Freezing(w, p)}}
    /\ UNCHANGED <<frozen, isolated, timer, freezeMoves, freezeStops, moved>>

\* Bug: a request is not checked.
Bug_DfIsIgnored(r) ==
    /\ request[r].step = "df" /\ LogWritable
    /\ Proceed(r, "dfDir")
    /\ UNCHANGED <<frozen, isolated, timer, freezeMoves, freezeStops, beside, moved>>

\* isIsolateDevice: df of the path, then df of its directory, which differ if
\* something was mounted at the time of the first.
\* checkFilesystemConsistentCommand refuses the request otherwise.
DfPath(r) ==
    /\ request[r].step = "df" /\ LogWritable
    /\ Proceed(r, IF request[r].path \in isolated THEN "dfDir" ELSE "answered")
    /\ UNCHANGED <<frozen, isolated, timer, freezeMoves, freezeStops, beside, moved>>

DfDirectory(r) ==
    /\ request[r].step = "dfDir" /\ LogWritable
    /\ Proceed(r, "script")
    /\ UNCHANGED <<frozen, isolated, timer, freezeMoves, freezeStops, beside, moved>>

\* Bug: the answer does not wait for the timer.
Bug_AnswerBeforeTimer(r) ==
    /\ request[r].step = "script" /\ request[r].type = "freeze" /\ LogWritable
    /\ Proceed(r, "answered")
    /\ IF frozen[Fs(request[r].path)] # NoRequest THEN UNCHANGED <<frozen, timer>>
       ELSE /\ frozen' = [frozen EXCEPT ![Fs(request[r].path)] = r]
            /\ timer' = [timer EXCEPT ![r] = "log"]
    /\ UNCHANGED <<isolated, freezeMoves, freezeStops, beside, moved>>

\* freezefs.sh --type=freeze: fsfreeze -f fails on what is frozen; else the
\* timer is started.
ScriptFreezes(r) ==
    /\ request[r].step = "script" /\ request[r].type = "freeze" /\ LogWritable
    /\ IF frozen[Fs(request[r].path)] # NoRequest
       THEN Proceed(r, "answered") /\ UNCHANGED <<frozen, timer>>
       ELSE /\ frozen' = [frozen EXCEPT ![Fs(request[r].path)] = r]
            /\ timer' = [timer EXCEPT ![r] = "log"]
            /\ Proceed(r, "wait")
    /\ UNCHANGED <<isolated, freezeMoves, freezeStops, beside, moved>>

\* freezefs.sh --type=unfreeze.
ScriptThaws(r) ==
    /\ request[r].step = "script" /\ request[r].type = "unfreeze"
    /\ frozen' = [frozen EXCEPT ![Fs(request[r].path)] = NoRequest]
    /\ Proceed(r, "answered")
    /\ UNCHANGED <<isolated, timer, freezeMoves, freezeStops, beside, moved>>

\* run returns when the pipe is closed.
Answer(r) ==
    /\ request[r].step = "wait" /\ timer[r] = "ended"
    /\ Proceed(r, "answered")
    /\ UNCHANGED <<frozen, isolated, timer, freezeMoves, freezeStops, beside, moved>>

Serve(r) == DfPath(r) \/ DfDirectory(r) \/ ScriptFreezes(r) \/ ScriptThaws(r) \/ Answer(r)

-----------------------------------------------------------------------------
(* timeoutFunc, in the background. *)

\* Its first line in the log.
TimerLogs(r) ==
    /\ timer[r] = "log" /\ LogWritable
    /\ timer' = [timer EXCEPT ![r] = "sleep"]
    /\ UNCHANGED <<frozen, isolated, request, freezeMoves, freezeStops, beside, moved>>

\* Bug: the timer leaves what it finds frozen.
Bug_TimerDoesNotThaw(r) ==
    /\ timer[r] = "sleep" /\ LogWritable
    /\ timer' = [timer EXCEPT ![r] = "ended"]
    /\ UNCHANGED <<frozen, isolated, request, freezeMoves, freezeStops, beside, moved>>

\* sleep, a line in the log, fsfreeze -u.
TimerThaws(r) ==
    /\ timer[r] = "sleep" /\ LogWritable
    /\ frozen' = [frozen EXCEPT ![Fs(request[r].path)] = NoRequest]
    /\ timer' = [timer EXCEPT ![r] = "ended"]
    /\ UNCHANGED <<isolated, request, freezeMoves, freezeStops, beside, moved>>

timeoutFunc(r) == TimerLogs(r) \/ TimerThaws(r)

-----------------------------------------------------------------------------
(* What happens around it. *)

\* systemd kills the processes of the service, timers included; clients see
\* their connections closed.
RestartConnector ==
    /\ freezeStops > 0
    /\ freezeStops' = freezeStops - 1
    /\ timer' = [r \in FreezeRequests |-> IF timer[r] = "none" THEN "none" ELSE "ended"]
    /\ request' = [r \in FreezeRequests |->
                     IF Waiting(r) THEN [request[r] EXCEPT !.step = "answered"] ELSE request[r]]
    /\ UNCHANGED <<frozen, isolated, freezeMoves, beside, moved>>

\* A file system that is frozen is not unmounted.
MoveMount(p) ==
    /\ freezeMoves > 0
    /\ freezeMoves' = freezeMoves - 1
    /\ frozen[p] = NoRequest
    /\ isolated' = IF p \in isolated THEN isolated \ {p} ELSE isolated \cup {p}
    /\ moved' = moved \cup {r \in FreezeRequests : Waiting(r) /\ request[r].path = p}
    /\ UNCHANGED <<frozen, request, timer, freezeStops, beside>>

FreezeInit ==
    /\ frozen = [fs \in FreezePaths \cup {ParentFs} |-> NoRequest]
    /\ isolated \in SUBSET FreezePaths
    /\ request = [r \in FreezeRequests |->
         [type |-> "freeze", path |-> CHOOSE p \in FreezePaths : TRUE, step |-> "none"]]
    /\ timer = [r \in FreezeRequests |-> "none"]
    /\ freezeMoves = FreezeMaxMoves
    /\ freezeStops = FreezeMaxStops
    /\ beside = {} /\ moved = {}

FreezeNext ==
    \/ \E r \in FreezeRequests :
          \/ \E type \in Types, p \in FreezePaths : Ask(r, type, p)
          \/ Serve(r)
          \/ timeoutFunc(r)
    \/ RestartConnector
    \/ \E p \in FreezePaths : MoveMount(p)

FreezeSpec == FreezeInit /\ [][FreezeNext]_freezeVars

-----------------------------------------------------------------------------
(* Properties. *)

FreezeTypeOK ==
    /\ frozen \in [FreezePaths \cup {ParentFs} -> FreezeRequests \cup {NoRequest}]
    /\ isolated \subseteq FreezePaths
    /\ request \in [FreezeRequests -> [type : Types, path : FreezePaths, step : Steps]]
    /\ timer \in [FreezeRequests -> {"none", "log", "sleep", "ended"}]
    /\ freezeMoves \in 0 .. FreezeMaxMoves
    /\ freezeStops \in 0 .. FreezeMaxStops
    /\ beside \subseteq SUBSET FreezeRequests /\ moved \subseteq FreezeRequests

Running(r) == timer[r] \in {"log", "sleep"}

\* A timer never thaws what a client froze later that had nothing to do with it:
\* while r's timer runs, the path is frozen by r, by nobody, or by a freeze of
\* the path that was awaited at the same time as r; whatever is thawed by hand,
\* frozen again, mounted, unmounted or restarted meanwhile.  So a client that
\* has its answer is safe from the timer of its request.  (freezefs.sh:53, the
\* timer in the background, and run, which waits for it.)
TimerThawsItsOwn ==
    \A r \in FreezeRequests :
        Running(r) =>
            LET f == frozen[request[r].path] IN
            f \in {r, NoRequest} \/ {f, r} \in beside

\* The file system that everything is mounted on is frozen only by a request
\* whose mount came or went between its df and its fsfreeze.  (isIsolateDevice.)
ParentStaysThawed == frozen[ParentFs] \in moved \cup {NoRequest}

\* What is frozen does not stay so, unless the connector was restarted, which
\* kills timers, or a mount came or went under a request.
FrozenIsThawed ==
    [](freezeMoves = FreezeMaxMoves /\ freezeStops = FreezeMaxStops) =>
        \A p \in FreezePaths : []<>(frozen[p] = NoRequest)
=============================================================================
