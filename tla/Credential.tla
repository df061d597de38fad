------------------------------ MODULE Credential ------------------------------
(***************************************************************************)
(* nodeServer.saveOssCredential (pkg/oss/nodeserver.go): concurrent        *)
(* NodePublishVolume calls record the AK pair of their bucket in           *)
(* /host/etc/passwd-ossfs.  Each call rewrites the whole file twice under  *)
(* writeCredentialMutex: saveOssfsCredential replaces the lines of its     *)
(* bucket, uniqOssfsCredential then drops identical lines.  A rewrite      *)
(* truncates the file before it writes it (utils.WriteAndSyncFile), and    *)
(* ossfs, started on the host by other calls, reads the file with no lock. *)
(*                                                                         *)
(* The file is a bag of lines bucket:id:secret; other lines carry no pair  *)
(* and the first save drops them.  A missing file is an empty one.  A      *)
(* write that fails or is short leaves a beginning of the content, whose   *)
(* last line may be torn: it is no line if its secret has not begun, and   *)
(* else a line with a cut secret.                                          *)
(***************************************************************************)
EXTENDS Integers

CONSTANTS Buckets,   \* OSS buckets
          Keys,      \* the AkID:AkSecret pairs of options
          Pairs,     \* those and the cut ones
          CutsOf,    \* CutsOf[p]: what a torn line of p is a line of
          Handlers,  \* NodePublishVolume calls running at once
          None,      \* no handler, or no pair
          MaxLines,  \* bound: how often the file repeats a line
          Faults     \* what may go wrong: see FaultKinds

FaultKinds == {"read", "open", "write", "restart"}

ASSUME NoneAssumption == None \notin Handlers /\ None \notin Pairs
ASSUME CutAssumption ==
    /\ Keys \subseteq Pairs
    /\ CutsOf \in [Pairs -> SUBSET Pairs]
    /\ \A p \in Pairs : \A q \in CutsOf[p] : CutsOf[q] \subseteq CutsOf[p]
ASSUME BoundAssumption == MaxLines \in Nat \ {0}
ASSUME FaultsAssumption == Faults \subseteq FaultKinds

VARIABLES file,      \* file[b][p]: how many lines b:p the file holds
          mutex,     \* writeCredentialMutex: its holder or None
          pc,        \* pc[h]: where handler h stands
          req,       \* req[h]: the bucket and pair h saves, or None
          buf,       \* buf[h]: the content h read last
          acked      \* history: pair of the last save of b that returned nil

vars == <<file, mutex, pc, req, buf, acked>>

Content == [Buckets -> [Pairs -> 0 .. MaxLines]]

OneLine(p) == [q \in Pairs |-> IF q = p THEN 1 ELSE 0]

NoLines == [b \in Buckets |-> [p \in Pairs |-> 0]]

\* Steps taken with the mutex held, in the order of the code.
Critical == {"read", "open", "write", "uniqRead", "uniqOpen", "uniqWrite",
             "saved", "failed"}

TypeOK ==
    /\ file \in Content
    /\ mutex \in Handlers \cup {None}
    /\ pc \in [Handlers -> {"idle", "lock"} \cup Critical]
    /\ req \in [Handlers -> (Buckets \X Keys) \cup {None}]
    /\ \A h \in Handlers : pc[h] # "idle" => req[h] \in Buckets \X Keys
    /\ buf \in [Handlers -> Content]
    /\ acked \in [Buckets -> Keys \cup {None}]

-----------------------------------------------------------------------------
(* The two computations on the content, and what is left of it when a      *)
(* write, or a read, ends too early.                                       *)

Bug_WithCredentialAppends(content, b, k) ==
    [content EXCEPT ![b] = [content[b] EXCEPT ![k] = 1]]

Bug_WithCredentialDropsRest(content, b, k) ==
    [c \in Buckets |-> [j \in Pairs |-> IF c = b /\ j = k THEN 1 ELSE 0]]

\* saveOssfsCredential: the lines of the bucket go, the new line comes first.
WithCredential(content, b, k) ==
    [content EXCEPT ![b] = OneLine(k)]

\* removeDuplicateElement: of identical lines the first one stays.
Uniq(content) ==
    [b \in Buckets |-> [p \in Pairs |-> IF content[b][p] > 0 THEN 1 ELSE 0]]

\* The line of b comes first: no line is left, or that one torn, or it is
\* whole with some of the others, of which one may be torn.
Prefixes(content, b) ==
    {c \in Content :
       \/ c = NoLines
       \/ \E p \in Pairs : /\ content[b][p] > 0
                          /\ \E q \in CutsOf[p] : c = [NoLines EXCEPT ![b] = OneLine(q)]
       \/ /\ c[b] = content[b]
          /\ \A d \in Buckets, p \in Pairs : c[d][p] <= content[d][p]
       \/ /\ c[b] = content[b]
          /\ \E d \in Buckets \ {b}, p \in Pairs : \E q \in CutsOf[p] :
               /\ c[d][p] < content[d][p]
               /\ c[d][q] <= content[d][q] + 1
               /\ \A e \in Buckets, r \in Pairs :
                    e # d \/ r # q => c[e][r] <= content[e][r]}

-----------------------------------------------------------------------------
(* The handler: one action per system call. *)

GoTo(h, from, to) ==
    /\ pc[h] = from
    /\ pc' = [pc EXCEPT ![h] = to]

\* NodePublishVolume reaches saveOssCredential with options of b and k.
Publish(h, b, k) ==
    /\ GoTo(h, "idle", "lock")
    /\ req' = [req EXCEPT ![h] = <<b, k>>]
    /\ UNCHANGED <<file, mutex, buf, acked>>

Lock(h) ==
    /\ mutex = None
    /\ GoTo(h, "lock", "read")
    /\ mutex' = h
    /\ UNCHANGED <<file, req, buf, acked>>

\* A read error ends the save here.
ReadOld(h) ==
    /\ \/ /\ GoTo(h, "read", "open")
          /\ buf' = [buf EXCEPT ![h] = file]
       \/ /\ "read" \in Faults
          /\ GoTo(h, "read", "failed")
          /\ UNCHANGED buf
    /\ UNCHANGED <<file, mutex, req, acked>>

\* OpenFile with O_TRUNC: the old content is gone before the new is written.
OpenTrunc(h) ==
    /\ \/ /\ GoTo(h, "open", "write")
          /\ file' = NoLines
       \/ /\ "open" \in Faults
          /\ GoTo(h, "open", "failed")
          /\ UNCHANGED file
    /\ UNCHANGED <<mutex, req, buf, acked>>

\* Write, Fsync and Close: an error of any ends the save, with the content in
\* the file or a beginning of it.
WriteNew(h) ==
    LET content == WithCredential(buf[h], req[h][1], req[h][2]) IN
    /\ \/ /\ GoTo(h, "write", "uniqRead")
          /\ file' = content
       \/ /\ "write" \in Faults
          /\ GoTo(h, "write", "failed")
          /\ file' \in Prefixes(content, req[h][1])
    /\ UNCHANGED <<mutex, req, buf, acked>>

Bug_UniqReadAfterTrunc(h) ==
    /\ GoTo(h, "uniqRead", "uniqOpen")
    /\ buf' = [buf EXCEPT ![h] = NoLines]
    /\ UNCHANGED <<file, mutex, req, acked>>

\* uniqOssfsCredential ignores an error of its read and goes on with what was
\* read before it.
UniqRead(h) ==
    /\ GoTo(h, "uniqRead", "uniqOpen")
    /\ \/ buf' = [buf EXCEPT ![h] = file]
       \/ /\ "read" \in Faults
          /\ \E c \in Prefixes(file, req[h][1]) : buf' = [buf EXCEPT ![h] = c]
    /\ UNCHANGED <<file, mutex, req, acked>>

\* uniqOssfsCredential only logs an error of its rewrite.
UniqOpenTrunc(h) ==
    /\ \/ /\ GoTo(h, "uniqOpen", "uniqWrite")
          /\ file' = NoLines
       \/ /\ "open" \in Faults
          /\ GoTo(h, "uniqOpen", "saved")
          /\ UNCHANGED file
    /\ UNCHANGED <<mutex, req, buf, acked>>

UniqWrite(h) ==
    /\ GoTo(h, "uniqWrite", "saved")
    /\ \/ file' = Uniq(buf[h])
       \/ "write" \in Faults /\ file' \in Prefixes(Uniq(buf[h]), req[h][1])
    /\ UNCHANGED <<mutex, req, buf, acked>>

Bug_ReturnFailedKeepsLock(h) ==
    /\ GoTo(h, "failed", "idle")
    /\ UNCHANGED <<file, mutex, req, buf, acked>>

\* The deferred Unlock runs, and nil goes back to NodePublishVolume; what
\* was local to the call is forgotten.
ReturnNil(h) ==
    /\ GoTo(h, "saved", "idle")
    /\ mutex' = None
    /\ acked' = [acked EXCEPT ![req[h][1]] = req[h][2]]
    /\ req' = [req EXCEPT ![h] = None]
    /\ buf' = [buf EXCEPT ![h] = NoLines]
    /\ UNCHANGED file

\* The deferred Unlock runs, and NodePublishVolume fails.
ReturnError(h) ==
    /\ GoTo(h, "failed", "idle")
    /\ mutex' = None
    /\ req' = [req EXCEPT ![h] = None]
    /\ buf' = [buf EXCEPT ![h] = NoLines]
    /\ UNCHANGED <<file, acked>>

\* The plugin's container restarts: calls and mutex vanish, the file stays.
Restart ==
    /\ "restart" \in Faults
    /\ mutex' = None
    /\ pc' = [h \in Handlers |-> "idle"]
    /\ req' = [h \in Handlers |-> None]
    /\ buf' = [h \in Handlers |-> NoLines]
    /\ UNCHANGED <<file, acked>>

-----------------------------------------------------------------------------
Init ==
    /\ file \in Content
    /\ mutex = None
    /\ pc = [h \in Handlers |-> "idle"]
    /\ req = [h \in Handlers |-> None]
    /\ buf = [h \in Handlers |-> NoLines]
    /\ acked = [b \in Buckets |-> None]

\* The steps of a call under way: they need nothing from outside.
Step(h) ==
    \/ Lock(h) \/ ReadOld(h) \/ OpenTrunc(h) \/ WriteNew(h) \/ UniqRead(h)
    \/ UniqOpenTrunc(h) \/ UniqWrite(h) \/ ReturnNil(h) \/ ReturnError(h)

Next ==
    \/ \E h \in Handlers : Step(h)
    \/ \E h \in Handlers, b \in Buckets, k \in Keys : Publish(h, b, k)
    \/ Restart

Spec == Init /\ [][Next]_vars

\* sync.Mutex hands itself to a waiter that starves, hence SF on Lock; the
\* other steps are system calls that return.
Fairness == \A h \in Handlers : SF_vars(Lock(h)) /\ WF_vars(Step(h))

FairSpec == Spec /\ Fairness

-----------------------------------------------------------------------------
(* Properties. *)

\* A rewrite is under way: the file is truncated, its content is in buf.
Rewriting(h) == pc[h] \in {"write", "uniqWrite"}

KeysIn(content, b) == {p \in Pairs : content[b][p] > 0}

\* writeCredentialMutex really excludes: exactly the handler between Lock and
\* Unlock holds it, so no two rewrites of the file interleave.
MutualExclusion ==
    \A h \in Handlers : (pc[h] \in Critical) <=> (mutex = h)

\* A bucket whose save was acknowledged has a pair in the file, except while
\* some call has the file truncated: that window is all an ossfs that starts
\* meanwhile can lose.  (saveOssCredential; holds while no fault occurs.)
AckedIsReadable ==
    \A b \in Buckets : acked[b] # None =>
        \/ KeysIn(file, b) # {}
        \/ \E h \in Handlers : Rewriting(h)

\* When no save is under way, an acknowledged bucket has exactly one line and
\* it is the pair of the save that returned last, whatever the file held
\* before and however calls interleaved.  (saveOssfsCredential, uniq.)
AckedIsLast ==
    mutex = None =>
        \A b \in Buckets : acked[b] # None =>
            file[b] = OneLine(acked[b])

\* Every save returns: no path, error paths and restarts included, leaves the
\* mutex locked behind it.
SaveReturns ==
    \A h \in Handlers : (pc[h] = "lock") ~> (pc[h] = "idle")

-----------------------------------------------------------------------------
(* The store the file implements: while the file is truncated, the content *)
(* it had when it was last read.                                           *)

Effective ==
    IF mutex # None /\ Rewriting(mutex) THEN buf[mutex] ELSE file

Store == INSTANCE CredentialStore
            WITH creds <- [b \in Buckets |-> KeysIn(Effective, b)]

\* Without faults, all the steps of saveOssCredential look to its callers
\* like one atomic replacement of the bucket's pair.
StoreSpec == Store!Spec
=============================================================================
