----------------------------- MODULE FreezeProofs -----------------------------
(***************************************************************************)
(* Theorems about the freeze server and the timers of freezefs.sh, for any *)
(* paths and requests, and any number of restarts and moves of mounts.     *)
(***************************************************************************)
EXTENDS Freeze, TLAPS

\* A timer runs only while the client of its request waits.
TimersAreAwaited ==
    \A r \in FreezeRequests : Running(r) => request[r].type = "freeze" /\ request[r].step = "wait"

\* Freezes of one path that are awaited at the same time have been noted.
BesideIsNoted ==
    \A q, r \in FreezeRequests :
        q # r /\ Freezing(q, request[r].path) /\ Freezing(r, request[r].path)
            => {q, r} \in beside

\* Only a file system that is mounted is frozen.
FrozenIsMounted == \A p \in FreezePaths : p \notin isolated => frozen[p] = NoRequest

\* The requests that were found isolated are so, unless their mount moved since.
Isolated ==
    \A r \in FreezeRequests :
        request[r].step \in {"dfDir", "script"} => r \in moved \/ request[r].path \in isolated

TimerInv ==
    FreezeTypeOK /\ TimersAreAwaited /\ BesideIsNoted /\ FrozenIsMounted /\ TimerThawsItsOwn
ParentInv == TimerInv /\ Isolated /\ ParentStaysThawed
-----------------------------------------------------------------------------
(* Timers: the invariant is inductive. *)

LEMMA FsIs ==
    ASSUME NEW p \in FreezePaths
    PROVE  /\ Fs(p) \in FreezePaths \cup {ParentFs}
           /\ \A q \in FreezePaths : Fs(p) = q => p = q /\ p \in isolated
  BY FreezeAssumption DEF Fs

LEMMA TimerInit == FreezeInit => TimerInv
  <1> SUFFICES ASSUME FreezeInit PROVE TimerInv
    OBVIOUS
  <1>1. (CHOOSE p \in FreezePaths : TRUE) \in FreezePaths
    BY FreezeAssumption
  <1>2. request \in [FreezeRequests -> [type : Types, path : FreezePaths, step : Steps]]
    BY <1>1 DEF FreezeInit, Types, Steps
  <1>3. /\ frozen \in [FreezePaths \cup {ParentFs} -> FreezeRequests \cup {NoRequest}]
        /\ timer \in [FreezeRequests -> {"none", "log", "sleep", "ended"}]
        /\ isolated \subseteq FreezePaths
    BY DEF FreezeInit
  <1>4. freezeMoves \in 0 .. FreezeMaxMoves /\ freezeStops \in 0 .. FreezeMaxStops
    BY FreezeAssumption DEF FreezeInit
  <1>5. FreezeTypeOK
    <2>1. beside \subseteq SUBSET FreezeRequests /\ moved \subseteq FreezeRequests
      BY DEF FreezeInit
    <2> QED  BY <1>2, <1>3, <1>4, <2>1 DEF FreezeTypeOK
  <1>6. \A r \in FreezeRequests : ~Running(r) /\ ~Waiting(r)
    BY DEF FreezeInit, Running, Waiting
  <1>7. FrozenIsMounted
    BY DEF FreezeInit, FrozenIsMounted
  <1> QED  BY <1>5, <1>6, <1>7 DEF TimerInv, TimersAreAwaited, BesideIsNoted, Freezing, TimerThawsItsOwn

\* A step that starts no timer, freezes nothing and only moves one request on.
LEMMA ProceedKeeps ==
    ASSUME TimerInv, NEW r \in FreezeRequests, NEW step \in Steps, Waiting(r),
           ~Running(r)', Proceed(r, step),
           frozen' \in [FreezePaths \cup {ParentFs} -> FreezeRequests \cup {NoRequest}],
           \A fs \in FreezePaths \cup {ParentFs} : frozen'[fs] \in {frozen[fs], NoRequest},
           UNCHANGED <<isolated, timer, freezeMoves, freezeStops, beside, moved>>
    PROVE  TimerInv'
  <1> USE DEF TimerInv
  <1>1. request' \in [FreezeRequests -> [type : Types, path : FreezePaths, step : Steps]]
    BY DEF FreezeTypeOK, Proceed
  <1>2. \A q \in FreezeRequests :
            /\ request'[q].type = request[q].type /\ request'[q].path = request[q].path
            /\ q # r => request'[q] = request[q]
    BY DEF FreezeTypeOK, Proceed
  <1>3. FreezeTypeOK'
    BY <1>1 DEF FreezeTypeOK
  <1>4. TimersAreAwaited'
    BY <1>2 DEF TimersAreAwaited, Running
  <1>5. \A q \in FreezeRequests : Waiting(q)' => Waiting(q)
    BY <1>2 DEF Waiting
  <1>6. BesideIsNoted'
    BY <1>2, <1>5 DEF BesideIsNoted, Freezing
  <1>7. FrozenIsMounted'
    BY DEF FrozenIsMounted
  <1>8. TimerThawsItsOwn'
    <2> SUFFICES ASSUME NEW q \in FreezeRequests, Running(q)
                 PROVE  \/ frozen'[request'[q].path] \in {q, NoRequest}
                        \/ {frozen'[request'[q].path], q} \in beside'
      BY DEF TimerThawsItsOwn, Running
    <2>1. /\ request[q].path \in FreezePaths
          /\ \/ frozen[request[q].path] \in {q, NoRequest}
             \/ {frozen[request[q].path], q} \in beside
      BY DEF TimerThawsItsOwn, FreezeTypeOK
    <2> QED  BY <2>1, <1>2
  <1> QED  BY <1>3, <1>4, <1>6, <1>7, <1>8

LEMMA TimerAsk ==
    ASSUME TimerInv, NEW r \in FreezeRequests, NEW type \in Types, NEW p \in FreezePaths,
           Ask(r, type, p)
    PROVE  TimerInv'
  <1> USE DEF TimerInv
  <1>1. request' \in [FreezeRequests -> [type : Types, path : FreezePaths, step : Steps]]
    BY DEF FreezeTypeOK, Ask, Steps
  <1>2. /\ request'[r] = [type |-> type, path |-> p, step |-> "df"]
        /\ \A q \in FreezeRequests : q # r => request'[q] = request[q]
    BY DEF FreezeTypeOK, Ask
  <1>3. /\ FreezeTypeOK'
        /\ beside \subseteq beside'
    <2>1. beside' \subseteq SUBSET FreezeRequests /\ beside \subseteq beside'
      BY DEF FreezeTypeOK, Ask
    <2> QED  BY <1>1, <2>1 DEF FreezeTypeOK, Ask
  <1>4. ~Running(r)
    BY DEF TimersAreAwaited, Ask
  <1>5. TimersAreAwaited'
    BY <1>2, <1>4 DEF TimersAreAwaited, Running, Ask
  <1>7. BesideIsNoted'
    <2>1. ASSUME NEW q \in FreezeRequests, q # r, type = "freeze", Freezing(q, p)
          PROVE  {q, r} \in beside'
      BY <2>1 DEF Ask
    <2>2. ASSUME NEW q \in FreezeRequests, NEW x, q # r PROVE Freezing(q, x)' <=> Freezing(q, x)
      BY <2>2, <1>2 DEF Freezing, Waiting
    <2>3. \A x : Freezing(r, x)' => type = "freeze" /\ x = p
      BY <1>2 DEF Freezing
    <2> SUFFICES ASSUME NEW q \in FreezeRequests, NEW w \in FreezeRequests, q # w,
                        Freezing(q, request[w].path)', Freezing(w, request[w].path)'
                 PROVE  {q, w} \in beside'
      BY DEF BesideIsNoted
    <2>4. CASE q = r
      BY <2>1, <2>2, <2>3, <2>4
    <2>5. CASE w = r
      BY <2>1, <2>2, <2>3, <2>5
    <2>6. CASE q # r /\ w # r
      BY <2>2, <2>6, <1>2, <1>3 DEF BesideIsNoted
    <2> QED  BY <2>4, <2>5, <2>6
  <1>8. FrozenIsMounted'
    BY DEF FrozenIsMounted, Ask
  <1>9. TimerThawsItsOwn'
    BY <1>2, <1>3, <1>4 DEF TimerThawsItsOwn, Running, Ask
  <1> QED  BY <1>3, <1>5, <1>7, <1>8, <1>9

LEMMA TimerServe ==
    ASSUME TimerInv, NEW r \in FreezeRequests, Serve(r)
    PROVE  TimerInv'
  <1> USE DEF TimerInv
  <1>1. ASSUME request[r].step \in {"df", "dfDir", "script"} PROVE Waiting(r) /\ ~Running(r)
    BY <1>1 DEF Waiting, TimersAreAwaited
  <1>2. frozen \in [FreezePaths \cup {ParentFs} -> FreezeRequests \cup {NoRequest}]
    BY DEF FreezeTypeOK
  <1>3. CASE DfPath(r)
    <2>1. PICK step \in {"dfDir", "answered"} : Proceed(r, step)
      BY <1>3 DEF DfPath
    <2> QED  BY <1>1, <1>2, <1>3, <2>1, ProceedKeeps DEF DfPath, Steps, Running
  <1>4. CASE DfDirectory(r)
    BY <1>1, <1>2, <1>4, ProceedKeeps DEF DfDirectory, Steps, Running
  <1>5. CASE ScriptThaws(r)
    <2>1. /\ frozen' \in [FreezePaths \cup {ParentFs} -> FreezeRequests \cup {NoRequest}]
          /\ \A fs \in FreezePaths \cup {ParentFs} : frozen'[fs] \in {frozen[fs], NoRequest}
      BY <1>2, <1>5 DEF ScriptThaws
    <2> QED  BY <1>1, <1>5, <2>1, ProceedKeeps DEF ScriptThaws, Steps, Running
  <1>6. CASE Answer(r)
    BY <1>2, <1>6, ProceedKeeps DEF Answer, Steps, Running, Waiting
  <1>7. CASE ScriptFreezes(r) /\ frozen[Fs(request[r].path)] # NoRequest
    BY <1>1, <1>2, <1>7, ProceedKeeps DEF ScriptFreezes, Steps, Running
  <1>8. CASE ScriptFreezes(r) /\ frozen[Fs(request[r].path)] = NoRequest
    <2> DEFINE p == request[r].path
    <2>1. /\ request[r].step = "script" /\ request[r].type = "freeze"
          /\ frozen' = [frozen EXCEPT ![Fs(p)] = r]
          /\ timer' = [timer EXCEPT ![r] = "log"]
          /\ request' = [request EXCEPT ![r].step = "wait"]
          /\ UNCHANGED <<isolated, freezeMoves, freezeStops, beside, moved>>
      BY <1>8 DEF ScriptFreezes, Proceed
    <2>2. p \in FreezePaths
      BY DEF FreezeTypeOK
    <2> HIDE DEF p
    <2>3. Fs(p) \in FreezePaths \cup {ParentFs} /\ \A q \in FreezePaths : Fs(p) = q => p = q /\ p \in isolated
      BY <2>2, FsIs
    <2>4. /\ request' \in [FreezeRequests -> [type : Types, path : FreezePaths, step : Steps]]
          /\ request'[r].step = "wait"
          /\ \A q \in FreezeRequests :
                /\ request'[q].type = request[q].type /\ request'[q].path = request[q].path
                /\ q # r => request'[q] = request[q]
      BY <2>1 DEF FreezeTypeOK, Steps
    <2>5. FreezeTypeOK'
      BY <2>1, <2>4 DEF FreezeTypeOK
    <2>6. \A q \in FreezeRequests : q # r => (Running(q)' <=> Running(q))
      BY <2>1 DEF Running, FreezeTypeOK
    <2>7. TimersAreAwaited'
      BY <2>1, <2>4, <2>6 DEF TimersAreAwaited
    <2>8. \A q \in FreezeRequests : Waiting(q)' => Waiting(q)
      BY <2>1, <2>4 DEF Waiting
    <2>9. BesideIsNoted'
      BY <2>1, <2>4, <2>8 DEF BesideIsNoted, Freezing
    <2>10. FrozenIsMounted'
      BY <2>1, <2>3, <1>2 DEF FrozenIsMounted
    <2>11. TimerThawsItsOwn'
      <3> SUFFICES ASSUME NEW q \in FreezeRequests, Running(q)'
                   PROVE  \/ frozen'[request'[q].path] \in {q, NoRequest}
                          \/ {frozen'[request'[q].path], q} \in beside'
        BY DEF TimerThawsItsOwn
      <3>1. request[q].path \in FreezePaths
        BY DEF FreezeTypeOK
      <3>2. CASE q = r /\ Fs(p) = p
        BY <3>2, <2>1, <2>3, <2>4, <1>2 DEF p
      <3>3. CASE q = r /\ Fs(p) # p
        <4>1. p \notin isolated
          BY <3>3 DEF Fs
        <4> QED  BY <4>1, <3>3, <2>1, <2>2, <2>4, <1>2 DEF FrozenIsMounted, p
      <3>4. CASE q # r
        <4>1. /\ Running(q)
              /\ \/ frozen[request[q].path] \in {q, NoRequest}
                 \/ {frozen[request[q].path], q} \in beside
          BY <3>4, <2>6 DEF TimerThawsItsOwn
        <4>2. CASE Fs(p) # request[q].path
          BY <3>1, <3>4, <4>1, <4>2, <2>1, <2>4, <1>2
        <4>3. CASE Fs(p) = request[q].path
          <5>1. request[q].path = p
            BY <3>1, <4>3, <2>3
          <5>2. Freezing(q, request[r].path) /\ Freezing(r, request[r].path)
            BY <4>1, <5>1, <1>1, <2>1 DEF TimersAreAwaited, Freezing, Waiting, p
          <5>3. {r, q} \in beside'
            BY <3>4, <5>2, <2>1 DEF BesideIsNoted
          <5>4. frozen'[request'[q].path] = r
            BY <4>3, <3>1, <3>4, <2>1, <2>4, <1>2
          <5> QED  BY <5>3, <5>4
        <4> QED  BY <4>2, <4>3
      <3> QED  BY <3>2, <3>3, <3>4
    <2> QED  BY <2>5, <2>7, <2>9, <2>10, <2>11
  <1> QED  BY <1>3, <1>4, <1>5, <1>6, <1>7, <1>8 DEF Serve

LEMMA TimerTimeout ==
    ASSUME TimerInv, NEW r \in FreezeRequests, timeoutFunc(r)
    PROVE  TimerInv'
  <1> USE DEF TimerInv
  <1>1. Running(r)
    BY DEF timeoutFunc, TimerLogs, TimerThaws, Running
  <1>2. /\ timer' \in [FreezeRequests -> {"none", "log", "sleep", "ended"}]
        /\ UNCHANGED <<isolated, request, freezeMoves, freezeStops, beside, moved>>
        /\ \A q \in FreezeRequests : Running(q)' => Running(q)
    BY <1>1 DEF timeoutFunc, TimerLogs, TimerThaws, FreezeTypeOK, Running
  <1>3. /\ frozen' \in [FreezePaths \cup {ParentFs} -> FreezeRequests \cup {NoRequest}]
        /\ \A fs \in FreezePaths \cup {ParentFs} : frozen'[fs] \in {frozen[fs], NoRequest}
    BY DEF timeoutFunc, TimerLogs, TimerThaws, FreezeTypeOK
  <1>4. FreezeTypeOK' /\ TimersAreAwaited' /\ BesideIsNoted' /\ FrozenIsMounted'
    BY <1>2, <1>3
       DEF FreezeTypeOK, TimersAreAwaited, BesideIsNoted, Freezing, Waiting, FrozenIsMounted
  <1>5. TimerThawsItsOwn'
    BY <1>2, <1>3 DEF TimerThawsItsOwn, FreezeTypeOK
  <1> QED  BY <1>4, <1>5

LEMMA TimerRestart == TimerInv /\ RestartConnector => TimerInv'
  <1> SUFFICES ASSUME TimerInv, RestartConnector PROVE TimerInv'
    OBVIOUS
  <1> USE DEF TimerInv
  <1>1. \A r \in FreezeRequests : ~Running(r)'
    BY DEF RestartConnector, Running
  <1>2. \A r \in FreezeRequests : ~Waiting(r)'
    BY DEF RestartConnector, Waiting, FreezeTypeOK
  <1>3. request' \in [FreezeRequests -> [type : Types, path : FreezePaths, step : Steps]]
    BY DEF RestartConnector, FreezeTypeOK, Steps
  <1>4. freezeStops' \in 0 .. FreezeMaxStops
    BY FreezeAssumption DEF RestartConnector, FreezeTypeOK
  <1>5. timer' \in [FreezeRequests -> {"none", "log", "sleep", "ended"}]
    BY DEF RestartConnector, FreezeTypeOK
  <1>6. FreezeTypeOK'
    BY <1>3, <1>4, <1>5 DEF RestartConnector, FreezeTypeOK
  <1> QED  BY <1>1, <1>2, <1>6
           DEF TimersAreAwaited, BesideIsNoted, Freezing, FrozenIsMounted, TimerThawsItsOwn,
               RestartConnector

LEMMA TimerMove ==
    ASSUME TimerInv, NEW p \in FreezePaths, MoveMount(p)
    PROVE  TimerInv'
  <1> USE DEF TimerInv
  <1>1. freezeMoves' \in 0 .. FreezeMaxMoves
    BY FreezeAssumption DEF MoveMount, FreezeTypeOK
  <1>2. /\ isolated' \subseteq FreezePaths /\ moved' \subseteq FreezeRequests
        /\ UNCHANGED <<frozen, request, timer, freezeStops, beside>>
    BY DEF MoveMount, FreezeTypeOK
  <1>3. FreezeTypeOK'
    BY <1>1, <1>2 DEF FreezeTypeOK
  <1>4. TimersAreAwaited' /\ BesideIsNoted' /\ TimerThawsItsOwn'
    BY <1>2 DEF TimersAreAwaited, BesideIsNoted, Freezing, TimerThawsItsOwn, Running, Waiting
  <1>5. FrozenIsMounted'
    BY <1>2 DEF FrozenIsMounted, MoveMount
  <1> QED  BY <1>3, <1>4, <1>5

LEMMA TimerStep == TimerInv /\ [FreezeNext]_freezeVars => TimerInv'
  <1> SUFFICES ASSUME TimerInv, [FreezeNext]_freezeVars PROVE TimerInv'
    OBVIOUS
  <1>1. CASE UNCHANGED freezeVars
    BY <1>1 DEF freezeVars, TimerInv, FreezeTypeOK, TimersAreAwaited, BesideIsNoted, Freezing, Running,
                Waiting, FrozenIsMounted, TimerThawsItsOwn
  <1> QED  BY <1>1, TimerAsk, TimerServe, TimerTimeout, TimerRestart, TimerMove DEF FreezeNext

LEMMA TimerAlways == FreezeSpec => []TimerInv
  BY TimerInit, TimerStep, PTL DEF FreezeSpec

-----------------------------------------------------------------------------
(* The file system that everything is on. *)

LEMMA ParentInit == FreezeInit => ParentInv
  <1> SUFFICES ASSUME FreezeInit PROVE ParentInv
    OBVIOUS
  <1>1. Isolated
    BY DEF FreezeInit, Isolated
  <1>2. ParentStaysThawed
    BY DEF FreezeInit, ParentStaysThawed
  <1> QED  BY <1>1, <1>2, TimerInit DEF ParentInv

LEMMA ParentServe ==
    ASSUME ParentInv, NEW r \in FreezeRequests, Serve(r)
    PROVE  Isolated' /\ ParentStaysThawed'
  <1> USE DEF ParentInv, TimerInv
  <1>1. UNCHANGED <<isolated, moved>>
    BY DEF Serve, DfPath, DfDirectory, ScriptFreezes, ScriptThaws, Answer
  <1>2. PICK step \in Steps :
            /\ Proceed(r, step)
            /\ step \in {"dfDir", "script"} =>
                 request[r].step = "dfDir" \/ request[r].path \in isolated
    BY DEF Serve, DfPath, DfDirectory, ScriptFreezes, ScriptThaws, Answer, Steps
  <1>3. /\ request'[r].path = request[r].path /\ request'[r].step = step
        /\ \A q \in FreezeRequests : q # r => request'[q] = request[q]
    BY <1>2 DEF Proceed, FreezeTypeOK
  <1>4. Isolated'
    BY <1>1, <1>2, <1>3 DEF Isolated
  <1>5. frozen'[ParentFs] \in moved \cup {NoRequest}
    <2>1. frozen[ParentFs] \in moved \cup {NoRequest}
      BY DEF ParentStaysThawed
    <2>2. CASE UNCHANGED frozen
      BY <2>1, <2>2
    <2>3. CASE ScriptFreezes(r)
      <3>1. \/ UNCHANGED frozen
            \/ frozen' = [frozen EXCEPT ![Fs(request[r].path)] = r]
        BY <2>3 DEF ScriptFreezes
      <3>2. CASE Fs(request[r].path) = ParentFs
        <4>1. r \in moved
          BY <2>3, <3>2, FreezeAssumption DEF ScriptFreezes, Isolated, Fs, FreezeTypeOK
        <4> QED  BY <2>1, <3>1, <4>1 DEF FreezeTypeOK
      <3>3. CASE Fs(request[r].path) # ParentFs
        BY <2>1, <3>1, <3>3 DEF FreezeTypeOK
      <3> QED  BY <3>2, <3>3
    <2>4. CASE ScriptThaws(r)
      BY <2>1, <2>4 DEF ScriptThaws, FreezeTypeOK
    <2> QED  BY <2>2, <2>3, <2>4 DEF Serve, DfPath, DfDirectory, Answer
  <1> QED  BY <1>1, <1>4, <1>5 DEF ParentStaysThawed

LEMMA ParentStep == ParentInv /\ [FreezeNext]_freezeVars => ParentInv'
  <1> SUFFICES ASSUME ParentInv, [FreezeNext]_freezeVars
               PROVE  Isolated' /\ ParentStaysThawed'
    BY TimerStep DEF ParentInv
  <1> USE DEF ParentInv, TimerInv
  <1>1. ASSUME UNCHANGED freezeVars PROVE Isolated' /\ ParentStaysThawed'
    BY <1>1 DEF freezeVars, Isolated, ParentStaysThawed
  <1>2. ASSUME NEW r \in FreezeRequests, NEW type \in Types, NEW p \in FreezePaths, Ask(r, type, p)
        PROVE  Isolated' /\ ParentStaysThawed'
    BY <1>2 DEF FreezeTypeOK, Ask, Isolated, ParentStaysThawed
  <1>3. ASSUME NEW r \in FreezeRequests, timeoutFunc(r)
        PROVE  Isolated' /\ ParentStaysThawed'
    BY <1>3 DEF FreezeTypeOK, timeoutFunc, TimerLogs, TimerThaws, Isolated, ParentStaysThawed
  <1>4. ASSUME RestartConnector PROVE Isolated' /\ ParentStaysThawed'
    <2>1. \A r \in FreezeRequests :
             /\ request'[r].path = request[r].path
             /\ request'[r].step \in {request[r].step, "answered"}
      BY <1>4 DEF FreezeTypeOK, RestartConnector
    <2> QED  BY <2>1, <1>4 DEF RestartConnector, Isolated, ParentStaysThawed
  <1>5. ASSUME NEW p \in FreezePaths, MoveMount(p) PROVE Isolated' /\ ParentStaysThawed'
    <2>1. ASSUME NEW r \in FreezeRequests, request[r].step \in {"dfDir", "script"}
          PROVE  r \in moved' \/ request[r].path \in isolated'
      BY <1>5, <2>1 DEF MoveMount, Waiting, Isolated
    <2> QED  BY <2>1, <1>5 DEF MoveMount, Isolated, ParentStaysThawed
  <1> QED  BY <1>1, <1>2, <1>3, <1>4, <1>5, ParentServe DEF FreezeNext

-----------------------------------------------------------------------------
(* The theorems. *)

\* Requests, timers and file systems keep to their types: only requests freeze.
\* (freezeFilesystemServer, freezefs.sh.)
THEOREM FreezeTypeCorrect == FreezeSpec => []FreezeTypeOK
  <1>1. TimerInv => FreezeTypeOK
    BY DEF TimerInv
  <1> QED  BY <1>1, TimerAlways, PTL

\* Whatever clients ask for and in whatever order, and however often the connector
\* is restarted, no timer runs over a freeze that was not awaited beside its own.
\* (freezefs.sh:53; run, which waits for the timer.)
THEOREM TimersThawTheirOwn == FreezeSpec => []TimerThawsItsOwn
  <1>1. TimerInv => TimerThawsItsOwn
    BY DEF TimerInv
  <1> QED  BY <1>1, TimerAlways, PTL

\* A request freezes the parent's file system only if its own mount moved between
\* its df and its fsfreeze, however many others move.  (isIsolateDevice.)
THEOREM ParentIsNeverFrozen == FreezeSpec => []ParentStaysThawed
  <1>1. ParentInv => ParentStaysThawed
    BY DEF ParentInv
  <1> QED  BY <1>1, ParentInit, ParentStep, PTL DEF FreezeSpec
=============================================================================
