------------------------ MODULE OssNodeCredentialProofs ------------------------
(***************************************************************************)
(* Proofs that a mount never finds an old pair, under every fault, and     *)
(* that it finds the pair its call has saved while no fault occurs, for    *)
(* any number of targets, volumes, buckets and calls.                      *)
(*                                                                         *)
(* NeverAnOldPair alone is not inductive: a truncated file holds no old    *)
(* pair, and the call that truncated it may yet write one back.  Fresh     *)
(* says that none of the copies that will be written holds one either.     *)
(***************************************************************************)
EXTENDS OssNodeCredential, OssNodeSerialProofs

\* The pair of the volumes of b, and what a torn line may leave of it.
Own(b) == {KeyOf[b]} \cup CutsOf[KeyOf[b]]

\* No pair of b but its own is in the content.
Clean(content, b) == \A p \in Pairs : content[b][p] > 0 => p \in Own(b)

\* No pair of b but its own is in the file, or will be written to it from a
\* copy; a first rewrite for b itself replaces what its copy has.
Fresh(b) ==
    /\ Clean(file, b)
    /\ \A w \in Workers :
          /\ savePc[w] \in {"open", "write"} /\ req[w][1] # b => Clean(buf[w], b)
          /\ savePc[w] \in {"uniqOpen", "uniqWrite"} => Clean(buf[w], b)

\* A save is part of the publish of its worker, for the bucket of the target.
SaveOK ==
    \A w \in Workers : savePc[w] # "idle" =>
        /\ pc[w] = "pubSave"
        /\ req[w] = <<Bucket(target[w]), KeyOf[Bucket(target[w])]>>

\* Where a call stands from the end of its save to the end of its mount command.
Carry == {"pubShared", "pubCreate", "pubSend", "pubWait"} \cup RecordSteps

\* From the first rewrite of a save to the end of its mount command, the bucket
\* is fresh.
FreshOK ==
    /\ \A w \in Workers :
          /\ savePc[w] \in {"uniqRead", "uniqOpen", "uniqWrite", "saved"} => Fresh(req[w][1])
          /\ pc[w] \in Carry => Fresh(Bucket(target[w]))
          /\ pc[w] \in Carry \ {"pubShared"} => VolumeAt(path[w]) = VolumeOf[target[w]]
    /\ \A p \in Paths : orphans[p] > 0 => Fresh(BucketOf[VolumeAt(p)])

CredTyped == Cred!TypeOK /\ Cred!MutualExclusion

FInv == Typed /\ CredTyped /\ SaveOK /\ FreshOK

-----------------------------------------------------------------------------
(* The steps of a save. *)

LEMMA ContentTypes ==
    /\ Cred!NoLines \in Cred!Content
    /\ \A c \in Cred!Content, b \in Buckets, k \in Keys :
          Cred!WithCredential(c, b, k) \in Cred!Content
    /\ \A c \in Cred!Content : Cred!Uniq(c) \in Cred!Content
    /\ \A c \in Cred!Content, b \in Buckets : Cred!Prefixes(c, b) \subseteq Cred!Content
  <1> USE LinesAssumption
  <1>1. Cred!NoLines \in Cred!Content
    BY DEF Cred!NoLines, Cred!Content
  <1>2. \A c \in Cred!Content, b \in Buckets, k \in Keys :
          Cred!WithCredential(c, b, k) \in Cred!Content
    BY DEF Cred!Content, Cred!WithCredential, Cred!OneLine
  <1>3. \A c \in Cred!Content : Cred!Uniq(c) \in Cred!Content
    BY DEF Cred!Content, Cred!Uniq
  <1>4. \A c \in Cred!Content, b \in Buckets : Cred!Prefixes(c, b) \subseteq Cred!Content
    BY DEF Cred!Prefixes
  <1> QED
    BY <1>1, <1>2, <1>3, <1>4

\* The rewrites bring no old pair of a bucket.
LEMMA CleanContents ==
    ASSUME NEW b \in Buckets
    PROVE  /\ Clean(Cred!NoLines, b)
           /\ \A c \in Cred!Content : Clean(c, b) => Clean(Cred!Uniq(c), b)
           /\ \A c \in Cred!Content, d \in Buckets, k \in Keys :
                (d = b /\ k = KeyOf[b]) \/ (d # b /\ Clean(c, b))
                  => Clean(Cred!WithCredential(c, d, k), b)
  <1>1. Clean(Cred!NoLines, b)
    BY DEF Clean, Cred!NoLines
  <1>2. ASSUME NEW c \in Cred!Content, Clean(c, b) PROVE Clean(Cred!Uniq(c), b)
    BY <1>2 DEF Clean, Cred!Uniq, Cred!Content
  <1>3. ASSUME NEW c \in Cred!Content, NEW d \in Buckets, NEW k \in Keys,
               (d = b /\ k = KeyOf[b]) \/ (d # b /\ Clean(c, b))
        PROVE  Clean(Cred!WithCredential(c, d, k), b)
    BY <1>3 DEF Clean, Own, Cred!WithCredential, Cred!OneLine, Cred!Content
  <1> QED
    BY <1>1, <1>2, <1>3

\* What a write or a read that stops half-way leaves brings none either: a torn
\* line is a cut of a line that was there.
LEMMA CleanPrefixes ==
    ASSUME NEW b \in Buckets, NEW d \in Buckets, NEW c \in Cred!Content, Clean(c, b),
           NEW n \in Cred!Prefixes(c, d)
    PROVE  Clean(n, b)
  <1>1. KeyOf[b] \in Pairs
    BY BucketAssumption, PairsAssumption
  <1>2. ASSUME NEW p \in Pairs, p \in Own(b), NEW q \in CutsOf[p]
        PROVE  q \in Own(b)
    BY <1>1, <1>2, PairsAssumption DEF Own
  <1>3. \A p \in Pairs : c[b][p] > 0 => p \in Own(b)
    BY DEF Clean
  <1>4. CASE n = Cred!NoLines
    BY <1>4, CleanContents
  <1>5. ASSUME NEW p \in Pairs, c[d][p] > 0, NEW q \in CutsOf[p],
               n = [Cred!NoLines EXCEPT ![d] = Cred!OneLine(q)]
        PROVE  Clean(n, b)
    <2>1. CASE b = d
      <3>1. q \in Own(b)
        BY <1>2, <1>3, <1>5, <2>1
      <3>2. n[b] = Cred!OneLine(q)
        BY <1>5, <2>1 DEF Cred!NoLines
      <3> QED
        BY <3>1, <3>2 DEF Clean, Cred!OneLine
    <2>2. CASE b # d
      BY <1>5, <2>2 DEF Clean, Cred!NoLines
    <2> QED
      BY <2>1, <2>2
  <1>6. CASE n \in Cred!Content /\ \A p \in Pairs : n[b][p] <= c[b][p]
    <2>1. ASSUME NEW p \in Pairs, n[b][p] > 0 PROVE c[b][p] > 0
      BY <1>6, <2>1, LinesAssumption DEF Cred!Content
    <2> QED
      BY <1>3, <2>1 DEF Clean
  <1>7. ASSUME n \in Cred!Content, NEW e \in Buckets, NEW p \in Pairs,
               NEW q \in CutsOf[p], n[e][p] < c[e][p],
               \A f \in Buckets, s \in Pairs : f # e \/ s # q => n[f][s] <= c[f][s]
        PROVE  Clean(n, b)
    <2>1. CASE b # e
      BY <1>6, <1>7, <2>1
    <2>2. CASE b = e
      <3>1. c[b][p] > 0
        BY <1>7, <2>2, LinesAssumption DEF Cred!Content
      <3>2. q \in Own(b)
        BY <1>2, <1>3, <1>7, <3>1
      <3>3. ASSUME NEW s \in Pairs, s # q, n[b][s] > 0 PROVE c[b][s] > 0
        BY <1>7, <2>2, <3>3, LinesAssumption DEF Cred!Content
      <3> QED
        BY <1>3, <3>2, <3>3 DEF Clean
    <2> QED
      BY <2>1, <2>2
  <1> QED
    BY <1>4, <1>5, <1>6, <1>7 DEF Cred!Prefixes

\* What one step of the save of w does, on a disk that works or fails.
SaveEffect(w) ==
    /\ savePc'[w] # "idle" => req' = req
    /\ \A x \in Workers \ {w} :
          savePc'[x] = savePc[x] /\ buf'[x] = buf[x] /\ req'[x] = req[x]
    /\ \/ /\ savePc[w] = "lock" /\ savePc'[w] = "read"
          /\ mutex = None /\ mutex' = w
          /\ file' = file /\ buf'[w] = buf[w]
       \/ /\ savePc[w] = "read" /\ mutex' = mutex /\ file' = file
          /\ \/ savePc'[w] = "open" /\ buf'[w] = file
             \/ savePc'[w] = "failed"
       \/ /\ savePc[w] = "open" /\ mutex' = mutex /\ buf'[w] = buf[w]
          /\ \/ savePc'[w] = "write" /\ file' = Cred!NoLines
             \/ savePc'[w] = "failed" /\ file' = file
       \/ /\ savePc[w] = "write" /\ mutex' = mutex /\ buf'[w] = buf[w]
          /\ \/ /\ savePc'[w] = "uniqRead"
                /\ file' = Cred!WithCredential(buf[w], req[w][1], req[w][2])
             \/ /\ savePc'[w] = "failed"
                /\ file' \in Cred!Prefixes(Cred!WithCredential(buf[w], req[w][1], req[w][2]),
                                          req[w][1])
       \/ /\ savePc[w] = "uniqRead" /\ savePc'[w] = "uniqOpen" /\ mutex' = mutex
          /\ file' = file
          /\ buf'[w] = file \/ buf'[w] \in Cred!Prefixes(file, req[w][1])
       \/ /\ savePc[w] = "uniqOpen" /\ mutex' = mutex /\ buf'[w] = buf[w]
          /\ \/ savePc'[w] = "uniqWrite" /\ file' = Cred!NoLines
             \/ savePc'[w] = "saved" /\ file' = file
       \/ /\ savePc[w] = "uniqWrite" /\ savePc'[w] = "saved" /\ mutex' = mutex
          /\ buf'[w] = buf[w]
          /\ \/ file' = Cred!Uniq(buf[w])
             \/ file' \in Cred!Prefixes(Cred!Uniq(buf[w]), req[w][1])
       \/ /\ savePc[w] \in {"saved", "failed"} /\ savePc'[w] = "idle" /\ mutex' = None
          /\ file' = file

LEMMA SamePrefixes ==
    \A c \in Cred!Content, b \in Buckets : FailingCred!Prefixes(c, b) = Cred!Prefixes(c, b)
  BY DEF Cred!Prefixes, FailingCred!Prefixes, Cred!Content, FailingCred!Content,
         Cred!NoLines, FailingCred!NoLines, Cred!OneLine, FailingCred!OneLine

LEMMA StepTypes ==
    ASSUME Cred!TypeOK, NEW w \in Workers, Cred!Step(w) \/ FailingCred!Step(w)
    PROVE  Cred!TypeOK' /\ SaveEffect(w)
  <1> USE DEF Cred!TypeOK, Cred!Critical, Cred!GoTo, FailingCred!GoTo
  <1>t. /\ file \in Cred!Content /\ buf \in [Workers -> Cred!Content]
        /\ savePc[w] # "idle" /\ req[w][1] \in Buckets /\ req[w][2] \in Keys
    <2>1. savePc[w] # "idle"
      BY DEF Cred!Step, FailingCred!Step, Cred!Lock, FailingCred!Lock, Cred!ReadOld,
             FailingCred!ReadOld, Cred!OpenTrunc, FailingCred!OpenTrunc, Cred!WriteNew,
             FailingCred!WriteNew, Cred!UniqRead, FailingCred!UniqRead, Cred!UniqOpenTrunc,
             FailingCred!UniqOpenTrunc, Cred!UniqWrite, FailingCred!UniqWrite,
             Cred!ReturnNil, FailingCred!ReturnNil, Cred!ReturnError, FailingCred!ReturnError
    <2> QED
      BY <2>1
  <1>1. CASE Cred!Lock(w) \/ FailingCred!Lock(w)
    BY <1>1 DEF Cred!Lock, FailingCred!Lock, SaveEffect
  <1>2. CASE Cred!ReadOld(w) \/ FailingCred!ReadOld(w)
    <2>1. /\ savePc[w] = "read"
          /\ UNCHANGED <<file, mutex, req, acked>>
          /\ \/ savePc' = [savePc EXCEPT ![w] = "open"] /\ buf' = [buf EXCEPT ![w] = file]
             \/ savePc' = [savePc EXCEPT ![w] = "failed"] /\ buf' = buf
      BY <1>2 DEF Cred!ReadOld, FailingCred!ReadOld
    <2>2. savePc' \in [Workers -> {"idle", "lock"} \cup Cred!Critical]
      BY <2>1
    <2>3. buf' \in [Workers -> Cred!Content]
      BY <1>t, <2>1
    <2>4. Cred!TypeOK'
      BY <2>1, <2>2, <2>3
    <2> QED
      BY <1>t, <2>1, <2>4 DEF SaveEffect
  <1>3. CASE Cred!OpenTrunc(w) \/ FailingCred!OpenTrunc(w)
    <2>1. FailingCred!NoLines = Cred!NoLines
      BY DEF Cred!NoLines, FailingCred!NoLines
    <2>2. /\ savePc[w] = "open" /\ UNCHANGED <<mutex, req, buf, acked>>
          /\ \/ savePc' = [savePc EXCEPT ![w] = "write"] /\ file' = Cred!NoLines
             \/ savePc' = [savePc EXCEPT ![w] = "failed"] /\ file' = file
      BY <1>3, <2>1 DEF Cred!OpenTrunc, FailingCred!OpenTrunc
    <2>3. Cred!TypeOK'
      BY <1>t, <2>2, ContentTypes
    <2> QED
      BY <2>2, <2>3 DEF SaveEffect
  <1>4. CASE Cred!WriteNew(w) \/ FailingCred!WriteNew(w)
    <2>1. FailingCred!WithCredential(buf[w], req[w][1], req[w][2]) =
              Cred!WithCredential(buf[w], req[w][1], req[w][2])
      BY DEF Cred!WithCredential, FailingCred!WithCredential, Cred!OneLine,
             FailingCred!OneLine
    <2> DEFINE n == Cred!WithCredential(buf[w], req[w][1], req[w][2])
    <2>2. n \in Cred!Content
      BY <1>t, ContentTypes
    <2>3. /\ FailingCred!Prefixes(n, req[w][1]) = Cred!Prefixes(n, req[w][1])
          /\ Cred!Prefixes(n, req[w][1]) \subseteq Cred!Content
      BY <1>t, <2>2, SamePrefixes, ContentTypes
    <2>4. /\ savePc[w] = "write" /\ UNCHANGED <<mutex, req, buf, acked>>
          /\ \/ savePc' = [savePc EXCEPT ![w] = "uniqRead"] /\ file' = n
             \/ /\ savePc' = [savePc EXCEPT ![w] = "failed"]
                /\ file' \in Cred!Prefixes(n, req[w][1])
      BY <1>4, <2>1, <2>3 DEF Cred!WriteNew, FailingCred!WriteNew
    <2>5. file' \in Cred!Content /\ req' = req /\ savePc'[w] # "idle"
      BY <2>2, <2>3, <2>4
    <2>6. Cred!TypeOK'
      BY <2>4, <2>5
    <2> QED
      BY <2>4, <2>6 DEF SaveEffect
  <1>5. CASE Cred!UniqRead(w) \/ FailingCred!UniqRead(w)
    <2>1. /\ FailingCred!Prefixes(file, req[w][1]) = Cred!Prefixes(file, req[w][1])
          /\ Cred!Prefixes(file, req[w][1]) \subseteq Cred!Content
      BY <1>t, SamePrefixes, ContentTypes
    <2>2. PICK c \in {file} \cup Cred!Prefixes(file, req[w][1]) : buf' = [buf EXCEPT ![w] = c]
      BY <1>5, <2>1 DEF Cred!UniqRead, FailingCred!UniqRead
    <2>3. c \in Cred!Content
      BY <1>t, <2>1, <2>2
    <2>4. /\ savePc[w] = "uniqRead" /\ savePc' = [savePc EXCEPT ![w] = "uniqOpen"]
          /\ UNCHANGED <<file, mutex, req, acked>>
      BY <1>5 DEF Cred!UniqRead, FailingCred!UniqRead
    <2> QED
      BY <1>t, <2>2, <2>3, <2>4 DEF SaveEffect
  <1>6. CASE Cred!UniqOpenTrunc(w) \/ FailingCred!UniqOpenTrunc(w)
    <2>1. FailingCred!NoLines = Cred!NoLines
      BY DEF Cred!NoLines, FailingCred!NoLines
    <2> QED
      BY <1>6, <2>1, ContentTypes DEF Cred!UniqOpenTrunc, FailingCred!UniqOpenTrunc, SaveEffect
  <1>7. CASE Cred!UniqWrite(w) \/ FailingCred!UniqWrite(w)
    <2>1. FailingCred!Uniq(buf[w]) = Cred!Uniq(buf[w])
      BY DEF Cred!Uniq, FailingCred!Uniq
    <2>2. Cred!Uniq(buf[w]) \in Cred!Content
      BY <1>t, ContentTypes
    <2>3. /\ FailingCred!Prefixes(Cred!Uniq(buf[w]), req[w][1]) =
               Cred!Prefixes(Cred!Uniq(buf[w]), req[w][1])
          /\ Cred!Prefixes(Cred!Uniq(buf[w]), req[w][1]) \subseteq Cred!Content
      BY <1>t, <2>2, SamePrefixes, ContentTypes
    <2>4. /\ savePc[w] = "uniqWrite" /\ savePc' = [savePc EXCEPT ![w] = "saved"]
          /\ UNCHANGED <<mutex, req, buf, acked>>
          /\ \/ file' = Cred!Uniq(buf[w])
             \/ file' \in Cred!Prefixes(Cred!Uniq(buf[w]), req[w][1])
      BY <1>7, <2>1, <2>3 DEF Cred!UniqWrite, FailingCred!UniqWrite
    <2>5. file' \in Cred!Content
      BY <2>2, <2>3, <2>4
    <2>6. Cred!TypeOK'
      BY <2>4, <2>5
    <2> QED
      BY <2>4, <2>6 DEF SaveEffect
  <1>8. CASE Cred!ReturnNil(w) \/ FailingCred!ReturnNil(w)
    <2>1. FailingCred!NoLines = Cred!NoLines
      BY DEF Cred!NoLines, FailingCred!NoLines
    <2>2. /\ savePc[w] = "saved" /\ savePc' = [savePc EXCEPT ![w] = "idle"]
          /\ mutex' = None /\ buf' = [buf EXCEPT ![w] = Cred!NoLines]
          /\ acked' = [acked EXCEPT ![req[w][1]] = req[w][2]]
          /\ req' = [req EXCEPT ![w] = None]
          /\ UNCHANGED file
      BY <1>8, <2>1 DEF Cred!ReturnNil, FailingCred!ReturnNil
    <2>3. Cred!TypeOK'
      BY <1>t, <2>2, ContentTypes
    <2> QED
      BY <2>2, <2>3 DEF SaveEffect
  <1>9. CASE Cred!ReturnError(w) \/ FailingCred!ReturnError(w)
    <2>1. FailingCred!NoLines = Cred!NoLines
      BY DEF Cred!NoLines, FailingCred!NoLines
    <2>2. /\ savePc[w] = "failed" /\ savePc' = [savePc EXCEPT ![w] = "idle"]
          /\ mutex' = None /\ buf' = [buf EXCEPT ![w] = Cred!NoLines]
          /\ req' = [req EXCEPT ![w] = None]
          /\ UNCHANGED <<file, acked>>
      BY <1>9, <2>1 DEF Cred!ReturnError, FailingCred!ReturnError
    <2>3. Cred!TypeOK'
      BY <1>t, <2>2, ContentTypes
    <2> QED
      BY <2>2, <2>3 DEF SaveEffect
  <1> QED
    BY <1>1, <1>2, <1>3, <1>4, <1>5, <1>6, <1>7, <1>8, <1>9 DEF Cred!Step, FailingCred!Step

LEMMA MutexStep ==
    ASSUME CredTyped, NEW w \in Workers, SaveEffect(w), Cred!TypeOK'
    PROVE  CredTyped'
  <1>1. mutex \in Workers \cup {None} /\ None \notin Workers
    BY CredNoneAssumption DEF CredTyped, Cred!TypeOK
  <1> QED
    BY <1>1 DEF CredTyped, Cred!MutualExclusion, Cred!Critical, SaveEffect

\* A step of a save brings no old pair of b back.
LEMMA FreshStays ==
    ASSUME Cred!TypeOK, NEW w \in Workers, SaveEffect(w),
           savePc[w] = "write" => req[w][2] = KeyOf[req[w][1]],
           NEW b \in Buckets, Fresh(b)
    PROVE  Fresh(b)'
  <1>t. /\ file \in Cred!Content /\ buf[w] \in Cred!Content
        /\ req[w][1] \in Buckets /\ req[w][2] \in Keys
    BY DEF Cred!TypeOK, SaveEffect
  <1>1. Clean(file, b)'
    <2>1. CASE file' = file
      BY <2>1 DEF Fresh, Clean, Own
    <2>2. CASE file' = Cred!NoLines
      BY <2>2, CleanContents DEF Clean, Own
    <2>3. CASE /\ savePc[w] = "uniqWrite"
               /\ \/ file' = Cred!Uniq(buf[w])
                  \/ file' \in Cred!Prefixes(Cred!Uniq(buf[w]), req[w][1])
      <3>1. Clean(Cred!Uniq(buf[w]), b) /\ Cred!Uniq(buf[w]) \in Cred!Content
        BY <1>t, <2>3, CleanContents, ContentTypes DEF Fresh
      <3>2. \A n \in Cred!Prefixes(Cred!Uniq(buf[w]), req[w][1]) : Clean(n, b)
        BY <1>t, <3>1, CleanPrefixes
      <3>3. PICK n : n = file' /\ Clean(n, b)
        BY <2>3, <3>1, <3>2
      <3> QED
        BY <3>3 DEF Clean, Own
    <2>4. CASE /\ savePc[w] = "write"
               /\ \/ file' = Cred!WithCredential(buf[w], req[w][1], req[w][2])
                  \/ file' \in Cred!Prefixes(Cred!WithCredential(buf[w], req[w][1], req[w][2]),
                                            req[w][1])
      <3>1. (req[w][1] = b /\ req[w][2] = KeyOf[b]) \/ (req[w][1] # b /\ Clean(buf[w], b))
        BY <2>4 DEF Fresh
      <3> DEFINE c == Cred!WithCredential(buf[w], req[w][1], req[w][2])
      <3>2. Clean(c, b) /\ c \in Cred!Content
        BY <1>t, <3>1, CleanContents, ContentTypes
      <3>3. \A n \in Cred!Prefixes(c, req[w][1]) : Clean(n, b)
        BY <1>t, <3>2, CleanPrefixes
      <3>4. PICK n : n = file' /\ Clean(n, b)
        BY <2>4, <3>2, <3>3
      <3> QED
        BY <3>4 DEF Clean, Own
    <2> QED
      BY <2>1, <2>2, <2>3, <2>4 DEF SaveEffect
  <1>2. ASSUME NEW x \in Workers \ {w}
        PROVE  /\ savePc'[x] = savePc[x] /\ req'[x] = req[x]
               /\ Clean(buf[x], b) => Clean(buf'[x], b)
    BY DEF SaveEffect
  <1>3. \/ savePc'[w] \notin {"open", "write", "uniqOpen", "uniqWrite"}
        \/ Clean(buf'[w], b)
        \/ savePc'[w] \in {"open", "write"} /\ req'[w][1] = b
    <2>1. Clean(file, b) /\ \A n \in Cred!Prefixes(file, req[w][1]) : Clean(n, b)
      BY <1>t, CleanPrefixes DEF Fresh
    <2> QED
      BY <2>1 DEF SaveEffect, Fresh
  <1>4. ASSUME NEW x \in Workers
        PROVE  /\ savePc'[x] \in {"open", "write"} /\ req'[x][1] # b => Clean(buf'[x], b)
               /\ savePc'[x] \in {"uniqOpen", "uniqWrite"} => Clean(buf'[x], b)
    <2>1. CASE x = w
      BY <1>3, <2>1
    <2>2. CASE x # w
      BY <1>2, <2>2 DEF Fresh
    <2> QED
      BY <2>1, <2>2
  <1>5. \A x \in Workers : Clean(buf'[x], b) <=> Clean(buf[x], b)'
    BY DEF Clean, Own
  <1> QED
    BY <1>1, <1>4, <1>5 DEF Fresh

\* The first rewrite of a save leaves its bucket fresh: the mutex keeps copies
\* away that were read before.
LEMMA FreshBegins ==
    ASSUME CredTyped, NEW w \in Workers, SaveEffect(w),
           savePc[w] = "write", savePc'[w] = "uniqRead",
           req[w][2] = KeyOf[req[w][1]]
    PROVE  Fresh(req[w][1])'
  <1> DEFINE b == req[w][1]
  <1>t. /\ buf[w] \in Cred!Content /\ b \in Buckets /\ req[w][2] \in Keys
    BY DEF CredTyped, Cred!TypeOK
  <1>1. file' = Cred!WithCredential(buf[w], b, req[w][2]) /\ req' = req
    BY DEF SaveEffect
  <1>2. Clean(Cred!WithCredential(buf[w], b, req[w][2]), b)
    BY <1>t, CleanContents
  <1>3. ASSUME NEW x \in Workers
        PROVE  savePc'[x] \notin {"open", "write", "uniqOpen", "uniqWrite"}
    BY DEF CredTyped, Cred!MutualExclusion, Cred!Critical, SaveEffect
  <1> QED
    BY <1>1, <1>2, <1>3 DEF Fresh, Clean, Own

-----------------------------------------------------------------------------
(* The steps of OssNode. *)

LEMMA BucketTypes == \A t \in Targets : Bucket(t) \in Buckets /\ VolumeOf[t] \in Volumes
  BY VolumeAssumption, BucketAssumption DEF Bucket

LEMMA GlobalVolume ==
    \A v \in Volumes : VolumeAt(GetGlobalMountPath(v)) = v /\ GetGlobalMountPath(v) \in GlobalPaths
  BY PathAssumption DEF VolumeAt, GetGlobalMountPath, GlobalPaths

\* A call that has not finished its save stays where it is, and after the save
\* it goes on to the mount command for its own volume or ends.
LEMMA CarrySteps ==
    ASSUME Typed, NEW x \in Workers,
           \/ \E w \in Workers :
                \/ PubCheck(w) \/ PubShared(w) \/ PubCreate(w)
                \/ WriteMetricsInfo(w) \/ PubSend(w)
                \/ PubAnswer(w) \/ PubAnswerLost(w) \/ PubBind(w)
                \/ NodeUnpublishVolume(w) \/ Connector(w) \/ GiveUp(w)
           \/ \E p \in Paths : OrphanMount(p) \/ OrphanFail(p)
           \/ \E t \in Targets : PodBound(t) \/ PodDeleted(t) \/ KubeletCalls(t)
                                   \/ KubeletForgets(t)
           \/ \E v \in Volumes : GlobalDirAppears(v)
    PROVE  /\ pc[x] = "pubSave" => pc'[x] = "pubSave" /\ target'[x] = target[x]
           /\ pc'[x] \in Carry =>
                /\ pc[x] \in Carry /\ target'[x] = target[x]
                /\ pc'[x] # "pubShared" =>
                     \/ pc[x] # "pubShared" /\ path'[x] = path[x]
                     \/ path'[x] = GetGlobalMountPath(VolumeOf[target[x]])
  <1>0. TypeOK
    BY DEF Typed
  <1> USE DEF kubelet, host, calls, GoTo, Carry, RecordSteps
  <1> DEFINE Good ==
               /\ pc[x] = "pubSave" => pc'[x] = "pubSave" /\ target'[x] = target[x]
               /\ pc'[x] \in Carry =>
                    /\ pc[x] \in Carry /\ target'[x] = target[x]
                    /\ pc'[x] # "pubShared" =>
                         \/ pc[x] # "pubShared" /\ path'[x] = path[x]
                         \/ path'[x] = GetGlobalMountPath(VolumeOf[target[x]])
  <1>1. ASSUME NEW w \in Workers, NEW v, pc[w] # "pubSave", Return(w, v)
        PROVE  Good
    BY <1>0, <1>1 DEF Return, TypeOK
  <1>2. ASSUME NEW w \in Workers, PubCheck(w) \/ UnpCheck(w)
        PROVE  Good
    <2>1. CASE Return(w, "in") \/ Return(w, "out")
      BY <1>1, <1>2, <2>1 DEF PubCheck, UnpCheck
    <2>2. CASE (GoTo(w, "pubSave") \/ GoTo(w, "unpShared")) /\ UNCHANGED calls
      BY <1>0, <1>2, <2>2 DEF PubCheck, UnpCheck, TypeOK
    <2> QED
      BY <1>2, <2>1, <2>2 DEF PubCheck, UnpCheck
  <1>3. ASSUME NEW w \in Workers, PubShared(w) PROVE Good
    BY <1>0, <1>3 DEF PubShared, TypeOK
  <1>4. ASSUME NEW w \in Workers, PubCreate(w) \/ WriteMetricsInfo(w) \/ PubSend(w)
        PROVE  Good
    <2>1. CASE (PubCreate(w) \/ PubSend(w)) /\ ReturnError(w)
      BY <1>1, <2>1 DEF PubCreate, PubSend, ReturnError
    <2>2. CASE /\ pc[w] \in {"pubCreate", "pubSend"} \cup RecordSteps
               /\ \E s \in {"podLook", "pubSend", "pubWait"} \cup RecordSteps : GoTo(w, s)
               /\ UNCHANGED calls
      BY <1>0, <2>2 DEF TypeOK
    <2>3. WriteMetricsInfo(w) =>
            /\ pc[w] \in RecordSteps /\ UNCHANGED calls
            /\ \E s \in RecordSteps \cup {"pubSend"} : GoTo(w, s)
      BY RecordMoves
    <2> QED
      BY <1>4, <2>1, <2>2, <2>3 DEF PubCreate, PubSend
  <1>5. ASSUME NEW w \in Workers, PubAnswer(w) \/ PubAnswerLost(w) \/ PubBind(w)
        PROVE  Good
    <2>1. CASE ReturnError(w) \/ Return(w, "in")
      BY <1>1, <1>5, <2>1 DEF PubAnswer, PubAnswerLost, PubBind, ReturnError
    <2>2. CASE GoTo(w, "pubBind") /\ UNCHANGED calls
      BY <1>0, <1>5, <2>2 DEF PubAnswer, PubAnswerLost, PubBind, TypeOK
    <2> QED
      BY <1>5, <2>1, <2>2 DEF PubAnswer, PubAnswerLost, PubBind
  <1>6. ASSUME NEW w \in Workers, UnpShared(w) PROVE Good
    BY <1>0, <1>6 DEF UnpShared, TypeOK
  <1>7. ASSUME NEW w \in Workers, UnpCount(w) \/ UnpRun(w) PROVE Good
    <2>1. CASE ReturnError(w) \/ Return(w, "out")
      BY <1>1, <1>7, <2>1 DEF UnpCount, UnpRun, ReturnError
    <2>2. CASE GoTo(w, "unpRun") /\ UNCHANGED <<target, waiting, path>>
      BY <1>0, <1>7, <2>2 DEF UnpCount, UnpRun, TypeOK
    <2> QED
      BY <1>7, <2>1, <2>2 DEF UnpCount, UnpRun
  <1>8. ASSUME NEW t \in Targets, KubeletCalls(t) PROVE Good
    BY <1>0, <1>8 DEF KubeletCalls, CallPublish, CallUnpublish, Call, TypeOK
  <1>9. ASSUME \/ \E w \in Workers : Connector(w) \/ GiveUp(w)
               \/ \E p \in Paths : OrphanMount(p) \/ OrphanFail(p)
               \/ \E t \in Targets : PodBound(t) \/ PodDeleted(t) \/ KubeletForgets(t)
               \/ \E v \in Volumes : GlobalDirAppears(v)
        PROVE  Good
    <2>1. UNCHANGED <<pc, target, path>>
      BY <1>9 DEF Connector, JobMount, JobFail, GiveUp, OrphanMount, OrphanFail,
                  PodBound, PodDeleted, KubeletForgets, GlobalDirAppears
    <2> QED
      BY <2>1
  <1> QED
    BY <1>2, <1>3, <1>4, <1>5, <1>6, <1>7, <1>8, <1>9 DEF NodeUnpublishVolume

-----------------------------------------------------------------------------
(* The invariant. *)

LEMMA FInvInit == AllInit => FInv
  <1> SUFFICES ASSUME AllInit PROVE FInv
    OBVIOUS
  <1>1. Typed
    BY TypedInit DEF AllInit
  <1>2. CredTyped
    <2>1. file \in Cred!Content
      BY DEF AllInit, Cred!Init
    <2> QED
      BY <2>1, ContentTypes, CredNoneAssumption
         DEF AllInit, Cred!Init, CredTyped, Cred!TypeOK, Cred!MutualExclusion, Cred!Critical
  <1>3. SaveOK /\ FreshOK
    BY DEF AllInit, Init, Cred!Init, SaveOK, FreshOK, Carry, RecordSteps
  <1> QED
    BY <1>1, <1>2, <1>3 DEF FInv

\* A step that leaves the file and the saves alone.
LEMMA NodeKeeps ==
    ASSUME FInv, Typed', UNCHANGED cred,
           \A x \in Workers :
             /\ pc[x] = "pubSave" => pc'[x] = "pubSave" /\ target'[x] = target[x]
             /\ pc'[x] \in Carry =>
                  /\ pc[x] \in Carry /\ target'[x] = target[x]
                  /\ pc'[x] # "pubShared" =>
                       \/ pc[x] # "pubShared" /\ path'[x] = path[x]
                       \/ path'[x] = GetGlobalMountPath(VolumeOf[target[x]]),
           \A p \in Paths : orphans'[p] > 0 =>
             orphans[p] > 0 \/ \E x \in Workers : pc[x] = "pubWait" /\ path[x] = p
    PROVE  FInv'
  <1>0. Typed /\ LocalsOK /\ CredTyped /\ SaveOK /\ FreshOK
    BY DEF FInv, Typed
  <1>1. CredTyped'
    BY <1>0 DEF cred, CredTyped, Cred!TypeOK, Cred!MutualExclusion
  <1>2. SaveOK'
    BY <1>0 DEF SaveOK, cred
  <1>3. ASSUME NEW b, Fresh(b) PROVE Fresh(b)'
    BY <1>3 DEF Fresh, Clean, Own, cred
  <1>4. ASSUME NEW x \in Workers,
               savePc'[x] \in {"uniqRead", "uniqOpen", "uniqWrite", "saved"}
        PROVE  Fresh(req[x][1])'
    <2>1. savePc'[x] = savePc[x] /\ req'[x] = req[x] /\ Fresh(req[x][1])
      BY <1>0, <1>4 DEF cred, FreshOK
    <2> QED
      BY <2>1 DEF Fresh, Clean, Own, cred
  <1>5. ASSUME NEW x \in Workers, pc'[x] \in Carry
        PROVE  /\ Fresh(Bucket(target[x]))'
               /\ pc'[x] # "pubShared" => VolumeAt(path'[x]) = VolumeOf[target'[x]]
    <2>1. pc[x] \in Carry /\ target'[x] = target[x] /\ target[x] \in Targets
      BY <1>0, <1>5 DEF LocalsOK, Carry, RecordSteps
    <2>2. Fresh(Bucket(target[x]))
      BY <1>0, <2>1 DEF FreshOK
    <2>3. Fresh(Bucket(target[x]))'
      BY <2>1, <2>2 DEF Fresh, Clean, Own, Bucket, cred
    <2>4. ASSUME pc'[x] # "pubShared" PROVE VolumeAt(path'[x]) = VolumeOf[target'[x]]
      <3>1. CASE pc[x] # "pubShared" /\ path'[x] = path[x]
        BY <1>0, <2>1, <3>1 DEF FreshOK
      <3>2. CASE path'[x] = GetGlobalMountPath(VolumeOf[target[x]])
        BY <2>1, <3>2, BucketTypes, GlobalVolume
      <3> QED
        BY <1>5, <2>4, <3>1, <3>2
    <2> QED
      BY <2>3, <2>4
  <1>6. ASSUME NEW p \in Paths, orphans'[p] > 0
        PROVE  Fresh(BucketOf[VolumeAt(p)])'
    <2>1. Fresh(BucketOf[VolumeAt(p)])
      <3>1. CASE orphans[p] > 0
        BY <1>0, <3>1 DEF FreshOK
      <3>2. ASSUME NEW x \in Workers, pc[x] = "pubWait", path[x] = p
            PROVE  Fresh(BucketOf[VolumeAt(p)])
        BY <1>0, <3>2 DEF FreshOK, Bucket, Carry
      <3> QED
        BY <1>6, <3>1, <3>2
    <2> QED
      BY <1>3, <2>1 DEF VolumeAt
  <1>7. FreshOK'
    BY <1>4, <1>5, <1>6 DEF FreshOK
  <1> QED
    BY <1>1, <1>2, <1>7 DEF FInv

\* A step of the save of w; what w does besides is up to the caller.
LEMMA SaveKeeps ==
    ASSUME FInv, NEW w \in Workers, Cred!Step(w) \/ FailingCred!Step(w)
    PROVE  /\ CredTyped' /\ SaveEffect(w)
           /\ \A b \in Buckets : Fresh(b) => Fresh(b)'
           /\ \A x \in Workers :
                savePc'[x] \in {"uniqRead", "uniqOpen", "uniqWrite", "saved"} =>
                  Fresh(req[x][1])'
           /\ \A x \in Workers :
                savePc'[x] # "idle" => savePc[x] # "idle" /\ req'[x] = req[x]
  <1>0. Typed /\ CredTyped /\ Cred!TypeOK /\ SaveOK /\ FreshOK
    BY DEF FInv, CredTyped
  <1>1. Cred!TypeOK' /\ SaveEffect(w)
    BY <1>0, StepTypes
  <1>2. CredTyped'
    BY <1>0, <1>1, MutexStep
  <1>3. \A x \in Workers : savePc[x] # "idle" => req[x][2] = KeyOf[req[x][1]]
    BY <1>0 DEF SaveOK
  <1>4. ASSUME NEW b \in Buckets, Fresh(b) PROVE Fresh(b)'
    BY <1>0, <1>1, <1>3, <1>4, FreshStays
  <1>5. ASSUME NEW x \in Workers,
               savePc'[x] \in {"uniqRead", "uniqOpen", "uniqWrite", "saved"}
        PROVE  Fresh(req[x][1])'
    <2>1. req[x][1] \in Buckets
      <3>1. savePc[x] # "idle"
        BY <1>1, <1>5 DEF SaveEffect
      <3> QED
        BY <1>0, <3>1 DEF Cred!TypeOK
    <2>2. CASE x = w /\ savePc[w] = "write"
      <3>1. savePc'[w] = "uniqRead"
        BY <1>1, <1>5, <2>2 DEF SaveEffect
      <3> QED
        BY <1>0, <1>1, <1>3, <2>2, <3>1, FreshBegins
    <2>3. CASE ~(x = w /\ savePc[w] = "write")
      <3>1. savePc[x] \in {"uniqRead", "uniqOpen", "uniqWrite", "saved"}
        BY <1>1, <1>5, <2>3 DEF SaveEffect
      <3>2. Fresh(req[x][1]) /\ req'[x] = req[x]
        BY <1>0, <1>1, <1>5, <3>1 DEF FreshOK, SaveEffect
      <3>3. PICK b \in Buckets : b = req[x][1]
        BY <2>1
      <3>4. Fresh(b)'
        BY <1>4, <3>2, <3>3
      <3> QED
        BY <3>2, <3>3, <3>4 DEF Fresh, Clean, Own
    <2> QED
      BY <2>2, <2>3
  <1>6. ASSUME NEW x \in Workers, savePc'[x] # "idle"
        PROVE  savePc[x] # "idle" /\ req'[x] = req[x]
    BY <1>1, <1>6 DEF SaveEffect
  <1> QED
    BY <1>1, <1>2, <1>4, <1>5, <1>6

LEMMA FInvStep == FInv /\ [AllNext]_allVars => FInv'
  <1> SUFFICES ASSUME FInv, [AllNext]_allVars PROVE FInv'
    OBVIOUS
  <1>0. Typed /\ TypeOK /\ LocalsOK /\ CredTyped /\ Cred!TypeOK /\ SaveOK /\ FreshOK
    BY DEF FInv, Typed, CredTyped
  <1>1. ASSUME NEW w \in Workers, SaveBegins(w) PROVE FInv'
    <2>1. /\ UNCHANGED vars
          /\ pc[w] = "pubSave" /\ target[w] \in Targets
          /\ savePc' = [savePc EXCEPT ![w] = "lock"] /\ savePc[w] = "idle"
          /\ req' = [req EXCEPT ![w] = <<Bucket(target[w]), KeyOf[Bucket(target[w])]>>]
          /\ UNCHANGED <<file, mutex, buf, acked>>
      BY <1>0, <1>1 DEF SaveBegins, Cred!Publish, Cred!GoTo, LocalsOK
    <2>2. Typed'
      BY <1>0, <2>1, TypedStep
    <2>3. CredTyped'
      BY <1>0, <2>1, BucketTypes, BucketAssumption
         DEF CredTyped, Cred!TypeOK, Cred!MutualExclusion, Cred!Critical
    <2>4. SaveOK'
      BY <1>0, <2>1 DEF SaveOK, Cred!TypeOK, vars, calls, Bucket
    <2>5. ASSUME NEW x \in Workers, savePc'[x] \notin {"idle", "lock"}
          PROVE  savePc'[x] = savePc[x] /\ req'[x] = req[x]
      BY <1>0, <2>1, <2>5 DEF Cred!TypeOK
    <2>6. ASSUME NEW b, Fresh(b) PROVE Fresh(b)'
      BY <2>1, <2>5, <2>6 DEF Fresh, Clean, Own
    <2>7. FreshOK'
      <3>1. /\ UNCHANGED <<pc, target, path, orphans>>
            /\ FreshOK
        BY <1>0, <2>1 DEF vars, calls, host
      <3>2. ASSUME NEW x \in Workers,
                   savePc'[x] \in {"uniqRead", "uniqOpen", "uniqWrite", "saved"}
            PROVE  Fresh(req[x][1])'
        <4>1. savePc'[x] = savePc[x] /\ req'[x] = req[x]
          BY <2>5, <3>2
        <4>2. Fresh(req[x][1])
          BY <3>1, <3>2, <4>1 DEF FreshOK
        <4>3. PICK b : b = req[x][1]
          OBVIOUS
        <4>4. Fresh(b)'
          BY <2>6, <4>2, <4>3
        <4> QED
          BY <4>1, <4>3, <4>4 DEF Fresh, Clean, Own
      <3>3. ASSUME NEW x \in Workers, pc'[x] \in Carry
            PROVE  Fresh(Bucket(target[x]))'
        <4>1. PICK b : b = Bucket(target[x])
          OBVIOUS
        <4>2. Fresh(b)'
          BY <2>6, <3>1, <3>3, <4>1 DEF FreshOK
        <4> QED
          BY <3>1, <4>1, <4>2 DEF Fresh, Clean, Own, Bucket
      <3>4. ASSUME NEW p \in Paths, orphans'[p] > 0 PROVE Fresh(BucketOf[VolumeAt(p)])'
        <4>1. Fresh(BucketOf[VolumeAt(p)])'
          BY <2>6, <3>1, <3>4 DEF FreshOK, VolumeAt
        <4> QED
          BY <4>1
      <3> QED
        BY <3>1, <3>2, <3>3, <3>4 DEF FreshOK, VolumeAt
    <2> QED
      BY <2>2, <2>3, <2>4, <2>7 DEF FInv
  <1>2. ASSUME NEW w \in Workers, SaveStep(w) PROVE FInv'
    <2>1. /\ Cred!Step(w) \/ FailingCred!Step(w)
          /\ savePc[w] \notin {"saved", "failed"}
          /\ UNCHANGED <<kubelet, host, pc, calls, job>>
          /\ budget' \in Nat
      BY <1>0, <1>2 DEF SaveStep, NoFault, TypeOK
    <2>2. Typed'
      BY <1>0, <2>1 DEF Typed, TypeOK, LocalsOK, kubelet, host, calls
    <2>3. /\ CredTyped' /\ SaveEffect(w)
          /\ \A b \in Buckets : Fresh(b) => Fresh(b)'
          /\ \A x \in Workers :
               savePc'[x] \in {"uniqRead", "uniqOpen", "uniqWrite", "saved"} =>
                 Fresh(req[x][1])'
          /\ \A x \in Workers :
               savePc'[x] # "idle" => savePc[x] # "idle" /\ req'[x] = req[x]
      BY <2>1, SaveKeeps
    <2>4. SaveOK'
      BY <1>0, <2>1, <2>3 DEF SaveOK, calls, Bucket
    <2>5. FreshOK'
      <3>1. ASSUME NEW x \in Workers, pc'[x] \in Carry
            PROVE  Fresh(Bucket(target[x]))'
        <4>1. PICK b \in Buckets : b = Bucket(target[x]) /\ Fresh(b)
          BY <1>0, <2>1, <3>1, BucketTypes DEF FreshOK, LocalsOK, Carry, RecordSteps
        <4>2. Fresh(b)'
          BY <2>3, <4>1
        <4> QED
          BY <2>1, <4>1, <4>2 DEF Fresh, Clean, Own, Bucket, calls
      <3>2. ASSUME NEW p \in Paths, orphans'[p] > 0
            PROVE  Fresh(BucketOf[VolumeAt(p)])'
        <4>1. PICK b \in Buckets : b = BucketOf[VolumeAt(p)] /\ Fresh(b)
          BY <1>0, <2>1, <3>2, VolumeAssumption, BucketAssumption
             DEF FreshOK, host, VolumeAt, Paths, GlobalPaths
        <4>2. Fresh(b)'
          BY <2>3, <4>1
        <4> QED
          BY <4>1, <4>2 DEF VolumeAt
      <3> QED
        BY <1>0, <2>1, <2>3, <3>1, <3>2 DEF FreshOK, calls, VolumeAt
    <2> QED
      BY <2>2, <2>3, <2>4, <2>5 DEF FInv
  <1>3. ASSUME NEW w \in Workers, SaveReturnsNil(w) \/ SaveReturnsError(w) PROVE FInv'
    <2>1. /\ Cred!Step(w)
          /\ savePc'[w] = "idle"
          /\ pc[w] = "pubSave" /\ target[w] \in Targets
      <3>1. savePc[w] # "idle" /\ savePc'[w] = "idle" /\ Cred!Step(w)
        BY <1>0, <1>3 DEF SaveReturnsNil, SaveReturnsError, Cred!ReturnNil,
                     Cred!ReturnError, Cred!GoTo, Cred!TypeOK, Cred!Step
      <3> QED
        BY <1>0, <3>1 DEF SaveOK, LocalsOK
    <2>2. /\ CredTyped' /\ SaveEffect(w)
          /\ \A b \in Buckets : Fresh(b) => Fresh(b)'
          /\ \A x \in Workers :
               savePc'[x] \in {"uniqRead", "uniqOpen", "uniqWrite", "saved"} =>
                 Fresh(req[x][1])'
          /\ \A x \in Workers :
               savePc'[x] # "idle" => savePc[x] # "idle" /\ req'[x] = req[x]
      BY <2>1, SaveKeeps
    <2>3. job[w] = "none" /\ job = [job EXCEPT ![w] = "none"]
      BY <1>0, <2>1 DEF LocalsOK, TypeOK
    <2>4. Typed'
      <3>1. CASE SaveReturnsNil(w)
        BY <1>0, <3>1, TypedStep DEF SaveReturnsNil, Next, NodePublishVolume
      <3>2. CASE SaveReturnsError(w)
        BY <1>0, <2>1, <2>3, <3>2, ReturnTyped
           DEF SaveReturnsError, ReturnError, TypeOK, host, NoFault
      <3> QED
        BY <1>3, <3>1, <3>2
    <2>5. /\ orphans' = orphans
          /\ \A x \in Workers \ {w} :
               pc'[x] = pc[x] /\ target'[x] = target[x] /\ path'[x] = path[x]
          /\ \/ pc'[w] = "idle"
             \/ /\ savePc[w] = "saved" /\ target'[w] = target[w]
                /\ pc'[w] = "pubShared" \/ (pc'[w] = "pubCreate" /\ path'[w] = target[w])
      <3>1. CASE SaveReturnsNil(w)
        <4>1. ~Fault("credential")
          BY <1>0, <3>1 DEF SaveReturnsNil, NoFault, Fault, TypeOK
        <4>2. savePc[w] = "saved"
          BY <3>1 DEF SaveReturnsNil, Cred!ReturnNil, Cred!GoTo
        <4> QED
          BY <1>0, <3>1, <4>1, <4>2 DEF SaveReturnsNil, PubSave, GoTo, host, TypeOK
      <3>2. CASE SaveReturnsError(w)
        BY <1>0, <2>1, <3>2, ReturnType DEF SaveReturnsError, ReturnError, host
      <3> QED
        BY <1>3, <3>1, <3>2
    <2>6. SaveOK'
      BY <1>0, <2>1, <2>2, <2>5 DEF SaveOK, Bucket
    <2>7. ASSUME NEW x \in Workers, pc'[x] \in Carry
          PROVE  /\ Fresh(Bucket(target[x]))' /\ target'[x] = target[x]
                 /\ pc'[x] # "pubShared" => VolumeAt(path'[x]) = VolumeOf[target'[x]]
      <3>1. target[x] \in Targets /\ target'[x] = target[x] /\ Fresh(Bucket(target[x]))
        BY <1>0, <2>1, <2>5, <2>7 DEF FreshOK, SaveOK, LocalsOK, Carry, RecordSteps
      <3>2. PICK b \in Buckets : b = Bucket(target[x])
        BY <3>1, BucketTypes
      <3>3. Fresh(b)'
        BY <2>2, <3>1, <3>2
      <3>4. pc'[x] # "pubShared" => VolumeAt(path'[x]) = VolumeOf[target'[x]]
        BY <1>0, <2>1, <2>5, <2>7, <3>1 DEF FreshOK, Carry, RecordSteps, VolumeAt
      <3> QED
        BY <3>1, <3>2, <3>3, <3>4 DEF Fresh, Clean, Own, Bucket
    <2>8. ASSUME NEW p \in Paths, orphans'[p] > 0
          PROVE  Fresh(BucketOf[VolumeAt(p)])'
      <3>1. PICK b \in Buckets : b = BucketOf[VolumeAt(p)] /\ Fresh(b)
        BY <1>0, <2>5, <2>8, VolumeAssumption, BucketAssumption
           DEF FreshOK, VolumeAt, Paths, GlobalPaths
      <3>2. Fresh(b)'
        BY <2>2, <3>1
      <3> QED
        BY <3>1, <3>2 DEF VolumeAt
    <2>9. FreshOK'
      BY <2>2, <2>7, <2>8 DEF FreshOK
    <2> QED
      BY <2>2, <2>4, <2>6, <2>9 DEF FInv
  <1>4. ASSUME UNCHANGED cred,
               \/ \E w \in Workers :
                    \/ PubCheck(w) \/ PubShared(w) \/ PubCreate(w)
                    \/ WriteMetricsInfo(w) \/ PubSend(w)
                    \/ PubAnswer(w) \/ PubAnswerLost(w) \/ PubBind(w)
                    \/ NodeUnpublishVolume(w) \/ Connector(w) \/ GiveUp(w)
               \/ \E p \in Paths : OrphanMount(p) \/ OrphanFail(p)
               \/ \E t \in Targets : PodBound(t) \/ PodDeleted(t) \/ KubeletCalls(t)
                                       \/ KubeletForgets(t)
               \/ \E v \in Volumes : GlobalDirAppears(v)
        PROVE  FInv'
    <2>1. Next
      BY <1>4 DEF Next, NodePublishVolume
    <2>2. Typed'
      BY <1>0, <2>1, TypedStep
    <2>3. \A p \in Paths : orphans'[p] > 0 =>
            orphans[p] > 0 \/ \E x \in Workers : pc[x] = "pubWait" /\ path[x] = p
      BY <1>0, <2>1, <2>2, OrphanSteps
    <2>4. \A x \in Workers :
            /\ pc[x] = "pubSave" => pc'[x] = "pubSave" /\ target'[x] = target[x]
            /\ pc'[x] \in Carry =>
                 /\ pc[x] \in Carry /\ target'[x] = target[x]
                 /\ pc'[x] # "pubShared" =>
                      \/ pc[x] # "pubShared" /\ path'[x] = path[x]
                      \/ path'[x] = GetGlobalMountPath(VolumeOf[target[x]])
      BY <1>0, <1>4, CarrySteps
    <2> QED
      BY <1>4, <2>2, <2>3, <2>4, NodeKeeps
  <1>5. ASSUME UNCHANGED <<kubelet, mounts, metrics, pc, calls, budget>>, UNCHANGED cred,
               \/ \E w \in Workers : /\ job[w] = "sent"
                                     /\ job' = [job EXCEPT ![w] = "error"]
                                     /\ UNCHANGED orphans
               \/ \E p \in Paths : /\ orphans[p] > 0
                                   /\ orphans' = [orphans EXCEPT ![p] = orphans[p] - 1]
                                   /\ UNCHANGED job
        PROVE  FInv'
    <2> USE DEF kubelet, calls
    <2>1. /\ orphans' \in [Paths -> Nat]
          /\ \A p \in Paths : orphans'[p] > 0 => orphans[p] > 0
      <3>1. orphans \in [Paths -> Nat]
        BY <1>0 DEF TypeOK
      <3>2. ASSUME NEW q \in Paths, orphans[q] > 0,
                   orphans' = [orphans EXCEPT ![q] = orphans[q] - 1]
            PROVE  /\ orphans' \in [Paths -> Nat]
                   /\ \A p \in Paths : orphans'[p] > 0 => orphans[p] > 0
        BY <3>1, <3>2
      <3> QED
        BY <1>5, <3>1, <3>2
    <2>2. /\ job' \in [Workers -> {"none", "sent", "ok", "error"}]
          /\ \A x \in Workers : job'[x] # "none" => job[x] # "none"
      BY <1>0, <1>5 DEF TypeOK
    <2>3. Typed'
      BY <1>0, <1>5, <2>1, <2>2 DEF Typed, TypeOK, LocalsOK
    <2> QED
      BY <1>5, <2>1, <2>3, NodeKeeps
  <1>6. CASE RestartAll
    <2>1. Restart /\ Cred!Restart
      BY <1>6 DEF RestartAll
    <2>2. Typed'
      BY <1>0, <2>1, TypedStep DEF Next
    <2>3. /\ file' = file /\ \A x \in Workers : savePc'[x] = "idle" /\ pc'[x] = "idle"
      BY <2>1 DEF Restart, Cred!Restart
    <2>4. CredTyped'
      BY <1>0, <2>1, ContentTypes, CredNoneAssumption
         DEF Cred!Restart, CredTyped, Cred!TypeOK, Cred!MutualExclusion, Cred!Critical
    <2>5. SaveOK'
      BY <2>3 DEF SaveOK
    <2>6. ASSUME NEW p \in Paths, orphans'[p] > 0
          PROVE  Fresh(BucketOf[VolumeAt(p)])'
      <3>1. orphans[p] > 0 \/ \E x \in Workers : pc[x] = "pubWait" /\ path[x] = p
        BY <1>0, <2>1, <2>2, <2>6, OrphanSteps DEF Next
      <3>2. Fresh(BucketOf[VolumeAt(p)])
        BY <1>0, <3>1 DEF FreshOK, Bucket, Carry
      <3> QED
        BY <2>3, <3>2 DEF Fresh, Clean, Own, VolumeAt
    <2>7. FreshOK'
      BY <2>3, <2>6 DEF FreshOK, Carry, RecordSteps
    <2> QED
      BY <2>2, <2>4, <2>5, <2>7 DEF FInv
  <1>7. CASE UNCHANGED allVars
    <2>1. UNCHANGED vars /\ UNCHANGED cred
      BY <1>7 DEF allVars
    <2>2. Typed'
      BY <1>0, <2>1, TypedStep
    <2> QED
      BY <2>1, <2>2, NodeKeeps DEF vars, calls, host
  <1>8. ASSUME NEW w \in Workers, ServeWithCredential(w) PROVE FInv'
    BY <1>1, <1>2, <1>3, <1>4, <1>8 DEF ServeWithCredential, PublishWithCredential
  <1>9. ASSUME NEW w \in Workers, ConnectorWithCredential(w) PROVE FInv'
    <2>1. CASE JobMount(w) \/ JobFail(w)
      BY <1>4, <1>9, <2>1
         DEF ConnectorWithCredential, MountWithPair, MountFails, Connector
    <2>2. CASE /\ UNCHANGED <<kubelet, host, pc, calls, budget>>
               /\ job[w] = "sent" /\ job' = [job EXCEPT ![w] = "error"]
               /\ UNCHANGED cred
      BY <1>5, <2>2 DEF host
    <2> QED
      BY <1>9, <2>1, <2>2
         DEF ConnectorWithCredential, MountWithPair, MountFails, NoFault
  <1>10. ASSUME NEW p \in Paths, OrphanMountWithPair(p) \/ OrphanMountFails(p)
         PROVE  FInv'
    <2>1. CASE OrphanMount(p) \/ OrphanFail(p)
      BY <1>4, <1>10, <2>1 DEF OrphanMountWithPair, OrphanMountFails
    <2>2. CASE /\ UNCHANGED <<kubelet, mounts, metrics, pc, calls, job, budget>>
               /\ orphans[p] > 0 /\ orphans' = [orphans EXCEPT ![p] = orphans[p] - 1]
               /\ UNCHANGED cred
      BY <1>5, <2>2
    <2> QED
      BY <1>10, <2>1, <2>2 DEF OrphanMountWithPair, OrphanMountFails, NoFault
  <1> QED
    BY <1>4, <1>6, <1>7, <1>8, <1>9, <1>10 DEF AllNext

LEMMA FreshMounts == FInv => NeverAnOldPair
  <1> SUFFICES ASSUME FInv, NEW p \in Paths, Mounting(p)
               PROVE  Cred!KeysIn(file, BucketOf[VolumeAt(p)]) \subseteq Own(BucketOf[VolumeAt(p)])
    BY DEF NeverAnOldPair, Own
  <1>1. Fresh(BucketOf[VolumeAt(p)])
    <2>1. CASE orphans[p] > 0
      BY <2>1 DEF FInv, FreshOK
    <2>2. ASSUME NEW w \in Workers, job[w] = "sent", path[w] = p
          PROVE  Fresh(BucketOf[VolumeAt(p)])
      BY <2>2 DEF FInv, Typed, LocalsOK, FreshOK, Bucket, Carry
    <2> QED
      BY <2>1, <2>2 DEF Mounting
  <1> QED
    BY <1>1 DEF Fresh, Clean, Cred!KeysIn

\* Under every fault of calls, plugin, host and file, writes and reads that stop
\* at any point among them: an ossfs that starts finds for its bucket the pair
\* its volume names, a cut of it or none, never one that the file had there
\* before the save of NodePublishVolume.
THEOREM MountsOwnPair == AllSpec => []NeverAnOldPair
  <1> QED
    BY FInvInit, FInvStep, FreshMounts, PTL DEF AllSpec

-----------------------------------------------------------------------------
(* While no fault occurs, a saved pair stays.  Between the truncation and  *)
(* the write the file itself has nothing, so the invariant is about what   *)
(* the file has or is about to have again.                                 *)

\* The content of the file, or while it is truncated that of the copy.
Kept == IF mutex # None /\ savePc[mutex] \in {"write", "uniqWrite"} THEN buf[mutex] ELSE file

HasPair(b) == \E k \in Keys : Kept[b][k] > 0

\* A copy is that of the file when the file is truncated, and the bucket of a
\* call has a pair from the first rewrite of its save to the end of its mount
\* command.
KeptOK ==
    /\ \A w \in Workers :
          /\ savePc[w] \in {"open", "uniqOpen"} => buf[w] = file
          /\ savePc[w] \in {"uniqRead", "uniqOpen", "uniqWrite", "saved"} => HasPair(req[w][1])
          /\ pc[w] \in Carry => HasPair(Bucket(target[w]))
    /\ \A p \in Paths : orphans[p] > 0 => HasPair(BucketOf[VolumeAt(p)])

KInv == FInv /\ budget <= MaxFaults /\ (budget = MaxFaults => KeptOK)

\* What a step of the save of w does on a disk that works.
SaveWorks(w) ==
    /\ savePc[w] = "read"     => savePc'[w] = "open" /\ buf'[w] = file
    /\ savePc[w] = "open"     => savePc'[w] = "write"
    /\ savePc[w] = "write"    => savePc'[w] = "uniqRead"
    /\ savePc[w] = "uniqRead" => buf'[w] = file
    /\ savePc[w] = "uniqOpen" => savePc'[w] = "uniqWrite"
    /\ savePc[w] = "uniqWrite" => file' = Cred!Uniq(buf[w])

LEMMA WorkingStep ==
    ASSUME Cred!TypeOK, NEW w \in Workers, Cred!Step(w)
    PROVE  SaveWorks(w)
  BY DEF Cred!Step, Cred!Lock, Cred!ReadOld, Cred!OpenTrunc, Cred!WriteNew, Cred!UniqRead,
         Cred!UniqOpenTrunc, Cred!UniqWrite, Cred!ReturnNil, Cred!ReturnError,
         Cred!GoTo, Cred!TypeOK, SaveWorks

\* The holder of the mutex alone is within its save.
LEMMA OneSaves ==
    ASSUME CredTyped, NEW w \in Workers, SaveEffect(w)
    PROVE  /\ savePc[w] # "lock" => mutex = w
           /\ \A x \in Workers \ {w} : savePc[x] \in {"idle", "lock"}
  <1>1. mutex \in Workers \cup {None} /\ None \notin Workers
    BY CredNoneAssumption DEF CredTyped, Cred!TypeOK
  <1> QED
    BY <1>1 DEF CredTyped, Cred!TypeOK, Cred!MutualExclusion, Cred!Critical, SaveEffect

\* A step of a save loses the pair of no bucket.
LEMMA PairStays ==
    ASSUME CredTyped, NEW w \in Workers, SaveEffect(w), SaveWorks(w),
           savePc[w] \in {"open", "uniqOpen"} => buf[w] = file,
           NEW b \in Buckets, HasPair(b)
    PROVE  HasPair(b)'
  <1>t. /\ file \in Cred!Content /\ buf[w] \in Cred!Content
        /\ req[w][1] \in Buckets /\ req[w][2] \in Keys
        /\ w # None
    BY CredNoneAssumption DEF CredTyped, Cred!TypeOK, SaveEffect
  <1>1. PICK k \in Keys : Kept[b][k] > 0
    BY DEF HasPair
  <1>k. Keys \subseteq Pairs
    BY PairsAssumption
  <1>2. savePc[w] # "lock" => mutex = w
    BY OneSaves
  <1>3. CASE savePc[w] \notin {"write", "uniqWrite"}
    <2>1. Kept = file
      BY <1>2, <1>3 DEF Kept, SaveEffect
    <2>2. Kept' = file
      BY <1>t, <1>2, <1>3 DEF Kept, SaveEffect, SaveWorks
    <2> QED
      BY <1>1, <2>1, <2>2 DEF HasPair
  <1>4. CASE savePc[w] = "write"
    <2>1. Kept = buf[w]
      BY <1>t, <1>2, <1>4 DEF Kept
    <2>2. Kept' = Cred!WithCredential(buf[w], req[w][1], req[w][2])
      BY <1>t, <1>2, <1>4 DEF Kept, SaveEffect, SaveWorks
    <2>3. \E j \in Keys : Cred!WithCredential(buf[w], req[w][1], req[w][2])[b][j] > 0
      <3>1. CASE b = req[w][1]
        BY <1>t, <1>k, <3>1 DEF Cred!WithCredential, Cred!OneLine, Cred!Content
      <3>2. CASE b # req[w][1]
        BY <1>t, <1>1, <2>1, <3>2 DEF Cred!WithCredential, Cred!Content
      <3> QED
        BY <3>1, <3>2
    <2> QED
      BY <2>2, <2>3 DEF HasPair
  <1>5. CASE savePc[w] = "uniqWrite"
    <2>1. Kept = buf[w]
      BY <1>t, <1>2, <1>5 DEF Kept
    <2>2. Kept' = Cred!Uniq(buf[w])
      BY <1>t, <1>2, <1>5 DEF Kept, SaveEffect, SaveWorks
    <2>3. Cred!Uniq(buf[w])[b][k] > 0
      BY <1>t, <1>1, <1>k, <2>1 DEF Cred!Uniq
    <2> QED
      BY <2>2, <2>3 DEF HasPair
  <1> QED
    BY <1>3, <1>4, <1>5

\* The first rewrite of a save gives its bucket a pair.
LEMMA PairBegins ==
    ASSUME CredTyped, NEW w \in Workers, SaveEffect(w), SaveWorks(w), savePc[w] = "write"
    PROVE  HasPair(req[w][1])'
  <1>t. /\ buf[w] \in Cred!Content
        /\ req[w][1] \in Buckets /\ req[w][2] \in Keys
        /\ w # None
    BY CredNoneAssumption DEF CredTyped, Cred!TypeOK
  <1>1. /\ Kept' = Cred!WithCredential(buf[w], req[w][1], req[w][2])
        /\ req' = req
    BY <1>t, OneSaves DEF Kept, SaveEffect, SaveWorks
  <1>2. Cred!WithCredential(buf[w], req[w][1], req[w][2])[req[w][1]][req[w][2]] > 0
    BY <1>t, PairsAssumption DEF Cred!WithCredential, Cred!OneLine, Cred!Content
  <1> QED
    BY <1>t, <1>1, <1>2 DEF HasPair

\* A step that keeps what has a pair, and lets calls and orphaned commands be
\* where they were or where a save or a waiting call has brought them.
LEMMA KeptStep ==
    ASSUME FInv, FInv', KeptOK,
           \A b \in Buckets : HasPair(b) => HasPair(b)',
           \A x \in Workers :
             savePc'[x] \in {"open", "uniqOpen"} => buf'[x] = file',
           \A x \in Workers :
             savePc'[x] \in {"uniqRead", "uniqOpen", "uniqWrite", "saved"} =>
               \/ HasPair(req[x][1])'
               \/ /\ savePc[x] \in {"uniqRead", "uniqOpen", "uniqWrite", "saved"}
                  /\ req'[x] = req[x],
           \A x \in Workers :
             pc'[x] \in Carry =>
               /\ target'[x] = target[x]
               /\ pc[x] \in Carry \/ savePc[x] = "saved",
           \A p \in Paths : orphans'[p] > 0 =>
             orphans[p] > 0 \/ \E x \in Workers : pc[x] = "pubWait" /\ path[x] = p
    PROVE  KeptOK'
  <1>0. Typed /\ LocalsOK /\ LocalsOK' /\ Cred!TypeOK /\ SaveOK /\ FreshOK
    BY DEF FInv, Typed, CredTyped
  <1>1. ASSUME NEW x \in Workers,
               savePc'[x] \in {"uniqRead", "uniqOpen", "uniqWrite", "saved"}
        PROVE  HasPair(req[x][1])'
    <2>1. CASE /\ savePc[x] \in {"uniqRead", "uniqOpen", "uniqWrite", "saved"}
               /\ req'[x] = req[x]
      <3>1. PICK b \in Buckets : b = req[x][1] /\ HasPair(b)
        BY <1>0, <2>1 DEF KeptOK, Cred!TypeOK
      <3>2. HasPair(b)'
        BY <3>1
      <3> QED
        BY <2>1, <3>1, <3>2 DEF HasPair
    <2> QED
      BY <1>1, <2>1
  <1>2. ASSUME NEW x \in Workers, pc'[x] \in Carry PROVE HasPair(Bucket(target[x]))'
    <2>1. target'[x] = target[x] /\ target[x] \in Targets
      BY <1>0, <1>2 DEF LocalsOK, Carry, RecordSteps
    <2>2. PICK b \in Buckets : b = Bucket(target[x]) /\ HasPair(b)
      BY <1>0, <1>2, <2>1, BucketTypes DEF KeptOK, SaveOK
    <2>3. HasPair(b)'
      BY <2>2
    <2> QED
      BY <2>1, <2>2, <2>3 DEF HasPair, Bucket
  <1>3. ASSUME NEW p \in Paths, orphans'[p] > 0 PROVE HasPair(BucketOf[VolumeAt(p)])'
    <2>1. HasPair(BucketOf[VolumeAt(p)])
      <3>1. CASE orphans[p] > 0
        BY <3>1 DEF KeptOK
      <3>2. ASSUME NEW x \in Workers, pc[x] = "pubWait", path[x] = p
            PROVE  HasPair(BucketOf[VolumeAt(p)])
        BY <1>0, <3>2 DEF FreshOK, KeptOK, Carry, Bucket
      <3> QED
        BY <1>3, <3>1, <3>2
    <2>2. PICK b \in Buckets : b = BucketOf[VolumeAt(p)]
      BY VolumeAssumption, BucketAssumption DEF VolumeAt, Paths, GlobalPaths
    <2>3. HasPair(b)'
      BY <2>1, <2>2
    <2> QED
      BY <2>2, <2>3 DEF HasPair, VolumeAt
  <1> QED
    BY <1>1, <1>2, <1>3 DEF KeptOK

-----------------------------------------------------------------------------
(* Faults are used up one by one. *)

LEMMA NodeSpends == Next => budget' = budget \/ budget' = budget - 1
  <1> USE DEF Fault, NoFault, IsOssfsMounted
  <1>1. ASSUME NEW w \in Workers, NodePublishVolume(w)
        PROVE  budget' = budget \/ budget' = budget - 1
    BY <1>1 DEF NodePublishVolume, PubCheck, PubSave, PubShared, PubCreate,
                WriteMetricsInfo, LookForRecord, OpenRecord, WriteRecord, PubSend,
                PubAnswer, PubAnswerLost, PubBind
  <1>2. ASSUME NEW w \in Workers, NodeUnpublishVolume(w)
        PROVE  budget' = budget \/ budget' = budget - 1
    BY <1>2 DEF NodeUnpublishVolume, UnpCheck, UnpShared, UnpCount, UnpRun
  <1>3. ASSUME NEW w \in Workers, Connector(w) \/ GiveUp(w)
        PROVE  budget' = budget \/ budget' = budget - 1
    BY <1>3 DEF Connector, JobMount, JobFail, GiveUp
  <1>4. ASSUME NEW p \in Paths, OrphanMount(p) \/ OrphanFail(p)
        PROVE  budget' = budget \/ budget' = budget - 1
    BY <1>4 DEF OrphanMount, OrphanFail
  <1>5. ASSUME NEW t \in Targets,
               PodBound(t) \/ PodDeleted(t) \/ KubeletCalls(t) \/ KubeletForgets(t)
        PROVE  budget' = budget \/ budget' = budget - 1
    BY <1>5 DEF PodBound, PodDeleted, KubeletCalls, CallPublish, CallUnpublish, Call,
                KubeletForgets
  <1>6. ASSUME NEW v \in Volumes, GlobalDirAppears(v)
        PROVE  budget' = budget \/ budget' = budget - 1
    BY <1>6 DEF GlobalDirAppears
  <1>7. Restart => budget' = budget - 1
    BY DEF Restart
  <1> QED
    BY <1>1, <1>2, <1>3, <1>4, <1>5, <1>6, <1>7 DEF Next

LEMMA KInvInit == AllInit => KInv
  <1> SUFFICES ASSUME AllInit PROVE KInv
    OBVIOUS
  <1>1. FInv
    BY FInvInit
  <1>2. budget = MaxFaults /\ MaxFaults \in Nat
    BY <1>1 DEF AllInit, Init, FInv, Typed, TypeOK
  <1>3. KeptOK
    BY DEF AllInit, Init, Cred!Init, KeptOK, Carry, RecordSteps
  <1> QED
    BY <1>1, <1>2, <1>3 DEF KInv

\* A step that leaves the file and the saves alone.
LEMMA KeptAlone ==
    ASSUME FInv, FInv', KeptOK, UNCHANGED cred,
           \A x \in Workers :
             pc'[x] \in Carry => pc[x] \in Carry /\ target'[x] = target[x],
           \A p \in Paths : orphans'[p] > 0 =>
             orphans[p] > 0 \/ \E x \in Workers : pc[x] = "pubWait" /\ path[x] = p
    PROVE  KeptOK'
  <1>1. \A b \in Buckets : HasPair(b) => HasPair(b)'
    BY DEF HasPair, Kept, cred
  <1>2. \A x \in Workers : savePc'[x] \in {"open", "uniqOpen"} => buf'[x] = file'
    BY DEF KeptOK, cred
  <1>3. savePc' = savePc /\ req' = req
    BY DEF cred
  <1> QED
    BY <1>1, <1>2, <1>3, KeptStep

\* A step of a save that works, whatever its return adds.
LEMMA KeptSaves ==
    ASSUME FInv, FInv', KeptOK, NEW w \in Workers, Cred!Step(w),
           orphans' = orphans,
           \A x \in Workers :
             pc'[x] \in Carry =>
               /\ target'[x] = target[x]
               /\ pc[x] \in Carry \/ savePc[x] = "saved"
    PROVE  KeptOK'
  <1>0. CredTyped /\ Cred!TypeOK
    BY DEF FInv, CredTyped
  <1>1. SaveEffect(w) /\ SaveWorks(w)
    BY <1>0, StepTypes, WorkingStep
  <1>2. savePc[w] \in {"open", "uniqOpen"} => buf[w] = file
    BY DEF KeptOK
  <1>3. \A b \in Buckets : HasPair(b) => HasPair(b)'
    BY <1>0, <1>1, <1>2, PairStays
  <1>4. ASSUME NEW x \in Workers, savePc'[x] \in {"open", "uniqOpen"}
        PROVE  buf'[x] = file'
    <2>1. x = w
      BY <1>0, <1>1, <1>4, OneSaves DEF SaveEffect
    <2> QED
      BY <1>1, <1>4, <2>1 DEF SaveEffect, SaveWorks
  <1>5. ASSUME NEW x \in Workers,
               savePc'[x] \in {"uniqRead", "uniqOpen", "uniqWrite", "saved"}
        PROVE  \/ HasPair(req[x][1])'
               \/ /\ savePc[x] \in {"uniqRead", "uniqOpen", "uniqWrite", "saved"}
                  /\ req'[x] = req[x]
    <2>1. CASE x = w /\ savePc[w] = "write"
      BY <1>0, <1>1, <2>1, PairBegins
    <2>2. CASE ~(x = w /\ savePc[w] = "write")
      BY <1>1, <1>5, <2>2 DEF SaveEffect, SaveWorks
    <2> QED
      BY <2>1, <2>2
  <1> QED
    BY <1>3, <1>4, <1>5, KeptStep

LEMMA KInvStep == KInv /\ [AllNext]_allVars => KInv'
  <1> SUFFICES ASSUME KInv, [AllNext]_allVars PROVE KInv'
    OBVIOUS
  <1>0. /\ FInv /\ FInv' /\ Typed /\ TypeOK /\ LocalsOK /\ Cred!TypeOK /\ SaveOK
        /\ budget \in Nat /\ MaxFaults \in Nat /\ budget <= MaxFaults
    <2>1. FInv /\ budget <= MaxFaults
      BY DEF KInv
    <2>2. FInv'
      BY <2>1, FInvStep
    <2> QED
      BY <2>1, <2>2, FaultAssumption DEF FInv, Typed, TypeOK, CredTyped
  <1> DEFINE KeepsOn ==
                     /\ budget' = budget \/ budget' = budget - 1
                     /\ budget' = budget /\ KeptOK => KeptOK'
  <1>1. ASSUME NEW w \in Workers, SaveBegins(w) PROVE KeepsOn
    <2>1. /\ UNCHANGED vars
          /\ savePc[w] = "idle" /\ savePc' = [savePc EXCEPT ![w] = "lock"]
          /\ UNCHANGED <<file, mutex, buf>>
          /\ req' = [req EXCEPT ![w] = <<Bucket(target[w]), KeyOf[Bucket(target[w])]>>]
      BY <1>1 DEF SaveBegins, Cred!Publish, Cred!GoTo
    <2>2. ASSUME NEW x \in Workers, savePc'[x] \notin {"idle", "lock"}
          PROVE  savePc'[x] = savePc[x] /\ req'[x] = req[x]
      BY <1>0, <2>1, <2>2 DEF Cred!TypeOK
    <2>3. ASSUME NEW b \in Buckets, HasPair(b) PROVE HasPair(b)'
      <3>1. Kept' = Kept
        BY <1>0, <2>1 DEF Kept, Cred!TypeOK
      <3> QED
        BY <2>3, <3>1 DEF HasPair
    <2>4. ASSUME KeptOK PROVE KeptOK'
      <3>1. \A x \in Workers : savePc'[x] \in {"open", "uniqOpen"} => buf'[x] = file'
        BY <2>1, <2>2, <2>4 DEF KeptOK
      <3>2. /\ \A x \in Workers : pc'[x] \in Carry => target'[x] = target[x] /\ pc[x] \in Carry
            /\ orphans' = orphans
        BY <2>1 DEF vars, calls, host
      <3> QED
        BY <1>0, <2>2, <2>3, <2>4, <3>1, <3>2, KeptStep
    <2> QED
      BY <2>1, <2>4 DEF vars
  <1>2. ASSUME NEW w \in Workers, SaveStep(w) PROVE KeepsOn
    <2>1. budget' = budget \/ budget' = budget - 1
      BY <1>2 DEF SaveStep, NoFault
    <2>2. ASSUME budget' = budget, KeptOK PROVE KeptOK'
      <3>1. Cred!Step(w) /\ UNCHANGED <<pc, calls, host>>
        BY <1>0, <1>2, <2>2 DEF SaveStep, NoFault
      <3> QED
        BY <1>0, <2>2, <3>1, KeptSaves DEF calls, host
    <2> QED
      BY <2>1, <2>2
  <1>3. ASSUME NEW w \in Workers, SaveReturnsNil(w) \/ SaveReturnsError(w) PROVE KeepsOn
    <2>1. budget' = budget /\ Cred!Step(w) /\ orphans' = orphans
      BY <1>3 DEF SaveReturnsNil, SaveReturnsError, NoFault, PubSave, ReturnError,
                  host, Cred!Step
    <2>2. ASSUME NEW x \in Workers, pc'[x] \in Carry
          PROVE  target'[x] = target[x] /\ (pc[x] \in Carry \/ savePc[x] = "saved")
      <3>1. CASE SaveReturnsNil(w)
        <4>1. savePc[w] = "saved" /\ PubSave(w)
          BY <3>1 DEF SaveReturnsNil, Cred!ReturnNil, Cred!GoTo
        <4>2. ~Fault("credential")
          BY <1>0, <2>1 DEF Fault
        <4> QED
          BY <1>0, <2>2, <4>1, <4>2 DEF PubSave, GoTo, TypeOK, Carry, RecordSteps
      <3>2. CASE SaveReturnsError(w)
        BY <1>0, <2>2, <3>2, ReturnType DEF SaveReturnsError, ReturnError, Return, TypeOK,
                                              Carry, RecordSteps
      <3> QED
        BY <1>3, <3>1, <3>2
    <2> QED
      BY <1>0, <2>1, <2>2, KeptSaves
  <1>4. ASSUME UNCHANGED cred,
               \/ \E w \in Workers :
                    \/ PubCheck(w) \/ PubShared(w) \/ PubCreate(w)
                    \/ WriteMetricsInfo(w) \/ PubSend(w)
                    \/ PubAnswer(w) \/ PubAnswerLost(w) \/ PubBind(w)
                    \/ NodeUnpublishVolume(w) \/ Connector(w) \/ GiveUp(w)
               \/ \E p \in Paths : OrphanMount(p) \/ OrphanFail(p)
               \/ \E t \in Targets : PodBound(t) \/ PodDeleted(t) \/ KubeletCalls(t)
                                       \/ KubeletForgets(t)
               \/ \E v \in Volumes : GlobalDirAppears(v)
        PROVE  KeepsOn
    <2>1. Next
      BY <1>4 DEF Next, NodePublishVolume
    <2>2. Typed'
      BY <1>0, <2>1, TypedStep
    <2>3. \A p \in Paths : orphans'[p] > 0 =>
            orphans[p] > 0 \/ \E x \in Workers : pc[x] = "pubWait" /\ path[x] = p
      BY <1>0, <2>1, <2>2, OrphanSteps
    <2>4. \A x \in Workers : pc'[x] \in Carry => pc[x] \in Carry /\ target'[x] = target[x]
      BY <1>0, <1>4, CarrySteps
    <2> QED
      BY <1>0, <1>4, <2>1, <2>3, <2>4, NodeSpends, KeptAlone
  <1>5. ASSUME UNCHANGED <<kubelet, mounts, metrics, pc, calls, budget>>, UNCHANGED cred,
               \/ UNCHANGED orphans
               \/ \E p \in Paths : /\ orphans[p] > 0
                                   /\ orphans' = [orphans EXCEPT ![p] = orphans[p] - 1]
        PROVE  KeepsOn
    <2>1. ASSUME NEW p \in Paths, orphans'[p] > 0 PROVE orphans[p] > 0
      <3>1. orphans \in [Paths -> Nat]
        BY <1>0 DEF TypeOK
      <3> QED
        BY <1>5, <2>1, <3>1
    <2>2. \A x \in Workers : pc'[x] \in Carry => pc[x] \in Carry /\ target'[x] = target[x]
      BY <1>5 DEF calls
    <2> QED
      BY <1>0, <1>5, <2>1, <2>2, KeptAlone
  <1>6. ASSUME RestartAll PROVE KeepsOn
    BY <1>0, <1>6 DEF RestartAll, Restart, Fault
  <1>7. ASSUME UNCHANGED allVars PROVE KeepsOn
    <2>1. UNCHANGED <<pc, calls, orphans, budget>> /\ UNCHANGED cred
      BY <1>7 DEF allVars, vars, host
    <2> QED
      BY <1>0, <2>1, KeptAlone DEF calls
  <1>8. ASSUME NEW w \in Workers, ServeWithCredential(w) PROVE KeepsOn
    BY <1>1, <1>2, <1>3, <1>4, <1>8 DEF ServeWithCredential, PublishWithCredential
  <1>9. ASSUME NEW w \in Workers, ConnectorWithCredential(w) PROVE KeepsOn
    <2>1. CASE JobMount(w) \/ JobFail(w)
      BY <1>4, <1>9, <2>1
         DEF ConnectorWithCredential, MountWithPair, MountFails, Connector
    <2>2. CASE /\ UNCHANGED <<kubelet, host, pc, calls, budget>>
               /\ UNCHANGED cred
      BY <1>5, <2>2 DEF host
    <2> QED
      BY <1>9, <2>1, <2>2
         DEF ConnectorWithCredential, MountWithPair, MountFails, NoFault
  <1>10. ASSUME NEW p \in Paths, OrphanMountWithPair(p) \/ OrphanMountFails(p)
         PROVE  KeepsOn
    <2>1. CASE OrphanMount(p) \/ OrphanFail(p)
      BY <1>4, <1>10, <2>1 DEF OrphanMountWithPair, OrphanMountFails
    <2>2. CASE /\ UNCHANGED <<kubelet, mounts, metrics, pc, calls, job, budget>>
               /\ orphans[p] > 0 /\ orphans' = [orphans EXCEPT ![p] = orphans[p] - 1]
               /\ UNCHANGED cred
      BY <1>5, <2>2
    <2> QED
      BY <1>10, <2>1, <2>2 DEF OrphanMountWithPair, OrphanMountFails, NoFault
  <1>11. KeepsOn
    BY <1>4, <1>6, <1>7, <1>8, <1>9, <1>10 DEF AllNext
  <1>12. budget' <= MaxFaults /\ (budget' = MaxFaults => budget' = budget)
    BY <1>0, <1>11
  <1>13. budget' = MaxFaults => KeptOK'
    BY <1>11, <1>12 DEF KInv
  <1> QED
    BY <1>0, <1>12, <1>13 DEF KInv

LEMMA KeptMounts == KInv => SavedPairIsThere
  <1> SUFFICES ASSUME KInv, budget = MaxFaults, NEW p \in Paths, Mounting(p),
                      \A w \in Workers : ~Cred!Rewriting(w)
               PROVE  FindsPair(p)
    BY DEF SavedPairIsThere
  <1>1. FInv /\ KeptOK
    BY DEF KInv
  <1>2. HasPair(BucketOf[VolumeAt(p)])
    <2>1. CASE orphans[p] > 0
      BY <1>1, <2>1 DEF KeptOK
    <2>2. ASSUME NEW w \in Workers, job[w] = "sent", path[w] = p
          PROVE  HasPair(BucketOf[VolumeAt(p)])
      BY <1>1, <2>2 DEF FInv, Typed, LocalsOK, FreshOK, KeptOK, Carry, Bucket
    <2> QED
      BY <2>1, <2>2 DEF Mounting
  <1>3. Kept = file
    BY <1>1 DEF Kept, FInv, CredTyped, Cred!TypeOK, Cred!Rewriting
  <1> QED
    BY <1>2, <1>3, PairsAssumption DEF HasPair, FindsPair, Cred!KeysIn

\* While no fault occurs, a mount command finds the pair its call has saved in
\* the file, or the file is being rewritten: saves of other calls, retries and
\* unpublishes in between lose no pair (saveOssCredential before DoMountInHost).
THEOREM SavedPairStays == AllSpec => []SavedPairIsThere
  <1> QED
    BY KInvInit, KInvStep, KeptMounts, PTL DEF AllSpec
-----------------------------------------------------------------------------
(* What OssNode promises, with the save of Credential in its place.        *)

\* Every step is one of OssNode, or a failure of the save or of a mount command
\* that OssNode alone does not have: ossfs finds no pair, the save fails.
LEMMA StepsOfNode ==
    ASSUME Typed, SaveOK, [AllNext]_allVars
    PROVE  NodeStep
  <1>0. TypeOK /\ LocalsOK /\ budget \in Nat
    BY DEF Typed, TypeOK
  <1>1. ASSUME NEW w \in Workers, SaveBegins(w) PROVE NodeStep
    BY <1>1 DEF SaveBegins, NodeStep
  <1>2. ASSUME NEW w \in Workers, SaveStep(w) PROVE NodeStep
    <2>1. budget' \in Nat
      BY <1>0, <1>2 DEF SaveStep, NoFault
    <2> QED
      BY <1>2, <2>1 DEF SaveStep, NodeStep, FailsElsewhere
  <1>3. ASSUME NEW w \in Workers, SaveReturnsNil(w) PROVE NodeStep
    BY <1>3 DEF SaveReturnsNil, NodeStep, Next, NodePublishVolume
  <1>4. ASSUME NEW w \in Workers, SaveReturnsError(w) PROVE NodeStep
    <2>1. savePc[w] = "failed"
      BY <1>4 DEF SaveReturnsError, Cred!ReturnError, Cred!GoTo
    <2>2. pc[w] = "pubSave"
      BY <2>1 DEF SaveOK
    <2> QED
      BY <1>0, <1>4, <2>2 DEF SaveReturnsError, NoFault, NodeStep, FailsElsewhere
  <1>5. ASSUME NEW w \in Workers, ConnectorWithCredential(w) PROVE NodeStep
    <2>1. CASE JobMount(w) \/ JobFail(w)
      BY <2>1 DEF NodeStep, Next, Connector
    <2>2. CASE /\ job[w] = "sent" /\ job' = [job EXCEPT ![w] = "error"]
               /\ NoFault /\ UNCHANGED <<kubelet, host, pc, calls>>
      BY <1>0, <2>2 DEF NoFault, NodeStep, FailsElsewhere
    <2> QED
      BY <1>5, <2>1, <2>2 DEF ConnectorWithCredential, MountWithPair, MountFails
  <1>6. ASSUME NEW p \in Paths, OrphanMountWithPair(p) \/ OrphanMountFails(p) PROVE NodeStep
    <2>1. CASE OrphanMount(p) \/ OrphanFail(p)
      BY <2>1 DEF NodeStep, Next
    <2>2. CASE /\ orphans[p] > 0 /\ orphans' = [orphans EXCEPT ![p] = orphans[p] - 1]
               /\ NoFault /\ UNCHANGED <<kubelet, mounts, metrics, pc, calls, job>>
      BY <1>0, <2>2 DEF NoFault, NodeStep, FailsElsewhere
    <2> QED
      BY <1>6, <2>1, <2>2 DEF OrphanMountWithPair, OrphanMountFails
  <1>7. ASSUME \/ \E w \in Workers :
                    \/ PubCheck(w) \/ PubShared(w) \/ PubCreate(w)
                    \/ WriteMetricsInfo(w) \/ PubSend(w)
                    \/ PubAnswer(w) \/ PubAnswerLost(w) \/ PubBind(w)
                    \/ NodeUnpublishVolume(w) \/ GiveUp(w)
               \/ \E t \in Targets : PodBound(t) \/ PodDeleted(t) \/ KubeletCalls(t)
                                       \/ KubeletForgets(t)
               \/ \E v \in Volumes : GlobalDirAppears(v)
               \/ Restart
        PROVE  NodeStep
    BY <1>7 DEF NodeStep, Next, NodePublishVolume
  <1>8. CASE UNCHANGED allVars
    BY <1>8 DEF allVars, NodeStep
  <1>9. ASSUME NEW w \in Workers, ServeWithCredential(w) PROVE NodeStep
    BY <1>1, <1>2, <1>3, <1>4, <1>7, <1>9 DEF ServeWithCredential, PublishWithCredential
  <1> QED
    BY <1>5, <1>6, <1>7, <1>8, <1>9 DEF AllNext, RestartAll

LEMMA ServiceInvAllStep ==
    FInv /\ ServiceInv /\ [AllNext]_allVars => ServiceInv' /\ [Service!Next]_(Service!serviceVars)
  <1>1. FInv => Typed /\ SaveOK
    BY DEF FInv
  <1> QED
    BY <1>1, StepsOfNode, ServiceInvStep, StepIsServed

\* Under every fault, with the save taken system call by system call and mounts
\* that depend on the file: a pod that was answered success has its mount, and
\* none is bound to a bare directory, as OssNode promises.
THEOREM MountedWithCredential == AllSpec => [](PublishedIsMounted /\ NoBareBind)
  <1>1. AllInit => FInv /\ ServiceInv
    BY FInvInit, ServiceInvInit DEF AllInit
  <1>2. ServiceInv => PublishedIsMounted /\ NoBareBind
    BY DEF ServiceInv, PInv
  <1> QED
    BY <1>1, <1>2, FInvStep, ServiceInvAllStep, PTL DEF AllSpec

\* NodePublishVolume and NodeUnpublishVolume with saveOssCredential in full
\* still implement the service of VolumeService, in both its forms.
THEOREM ServiceWithCredential == AllSpec => ServiceSpec
  <1>1. AllInit => FInv /\ ServiceInv /\ Service!Init
    BY FInvInit, ServiceInvInit, InitIsServed DEF AllInit
  <1> QED
    BY <1>1, FInvStep, ServiceInvAllStep, PTL DEF AllSpec, ServiceSpec, Service!Spec

\* While every answer reaches the kubelet and every mount table is read: saves
\* that fail and mounts that find no pair leave no target mounted twice, none
\* mounted behind a success of NodeUnpublishVolume, and few global mounts.
THEOREM CleanWithCredential ==
    ASSUME Reported
    PROVE  AllSpec => [](UnpublishedStaysClean /\ OneMountPerTarget /\ GlobalMountsBounded)
  <1>1. AllInit => FInv /\ ServiceInv
    BY FInvInit, ServiceInvInit DEF AllInit
  <1>2. ServiceInv => UnpublishedStaysClean /\ OneMountPerTarget /\ GlobalMountsBounded
    BY SerialGuarantees DEF ServiceInv
  <1> QED
    BY <1>1, <1>2, FInvStep, ServiceInvAllStep, PTL DEF AllSpec

-----------------------------------------------------------------------------
(* What Credential says of the save holds of the save in its place.        *)

AnyFault == FileFaults \cup {"restart"}
WholeCred == INSTANCE Credential WITH Handlers <- Workers, pc <- savePc, Faults <- AnyFault

LEMMA SaveStepsOfCred ==
    ASSUME NEW w \in Workers, Cred!Step(w) \/ FailingCred!Step(w)
    PROVE  WholeCred!Step(w)
  <1> USE DEF AnyFault, Cred!GoTo, FailingCred!GoTo, WholeCred!GoTo,
              Cred!NoLines, FailingCred!NoLines, WholeCred!NoLines,
              Cred!OneLine, FailingCred!OneLine, WholeCred!OneLine
  <1>p. \A c, b : /\ WholeCred!Prefixes(c, b) = Cred!Prefixes(c, b)
                  /\ WholeCred!Prefixes(c, b) = FailingCred!Prefixes(c, b)
    BY DEF Cred!Prefixes, FailingCred!Prefixes, WholeCred!Prefixes,
           Cred!Content, FailingCred!Content, WholeCred!Content
  <1>1. /\ Cred!Lock(w) \/ FailingCred!Lock(w) => WholeCred!Lock(w)
        /\ Cred!ReadOld(w) \/ FailingCred!ReadOld(w) => WholeCred!ReadOld(w)
        /\ Cred!OpenTrunc(w) \/ FailingCred!OpenTrunc(w) => WholeCred!OpenTrunc(w)
    BY DEF Cred!Lock, FailingCred!Lock, WholeCred!Lock,
           Cred!ReadOld, FailingCred!ReadOld, WholeCred!ReadOld,
           Cred!OpenTrunc, FailingCred!OpenTrunc, WholeCred!OpenTrunc
  <1>2. Cred!WriteNew(w) \/ FailingCred!WriteNew(w) => WholeCred!WriteNew(w)
    BY <1>p DEF Cred!WriteNew, FailingCred!WriteNew, WholeCred!WriteNew,
           Cred!WithCredential, FailingCred!WithCredential, WholeCred!WithCredential
  <1>3. Cred!UniqRead(w) \/ FailingCred!UniqRead(w) => WholeCred!UniqRead(w)
    BY <1>p DEF Cred!UniqRead, FailingCred!UniqRead, WholeCred!UniqRead
  <1>4. Cred!UniqOpenTrunc(w) \/ FailingCred!UniqOpenTrunc(w) => WholeCred!UniqOpenTrunc(w)
    BY DEF Cred!UniqOpenTrunc, FailingCred!UniqOpenTrunc, WholeCred!UniqOpenTrunc
  <1>5. Cred!UniqWrite(w) \/ FailingCred!UniqWrite(w) => WholeCred!UniqWrite(w)
    BY <1>p DEF Cred!UniqWrite, FailingCred!UniqWrite, WholeCred!UniqWrite,
           Cred!Uniq, FailingCred!Uniq, WholeCred!Uniq
  <1>6. /\ Cred!ReturnNil(w) \/ FailingCred!ReturnNil(w) => WholeCred!ReturnNil(w)
        /\ Cred!ReturnError(w) \/ FailingCred!ReturnError(w) => WholeCred!ReturnError(w)
    BY DEF Cred!ReturnNil, FailingCred!ReturnNil, WholeCred!ReturnNil,
           Cred!ReturnError, FailingCred!ReturnError, WholeCred!ReturnError
  <1> QED
    BY <1>1, <1>2, <1>3, <1>4, <1>5, <1>6
       DEF Cred!Step, FailingCred!Step, WholeCred!Step

LEMMA StepsOfCred ==
    ASSUME Typed, [AllNext]_allVars
    PROVE  [WholeCred!Next]_(WholeCred!vars)
  <1>0. LocalsOK
    BY DEF Typed
  <1>1. ASSUME NEW w \in Workers, SaveBegins(w) PROVE WholeCred!Next
    <2>1. PICK b \in Buckets, k \in Keys : Cred!Publish(w, b, k)
      <3>1. target[w] \in Targets
        BY <1>0, <1>1 DEF SaveBegins, LocalsOK
      <3>2. Bucket(target[w]) \in Buckets /\ KeyOf[Bucket(target[w])] \in Keys
        BY <3>1, BucketTypes, BucketAssumption
      <3> QED
        BY <1>1, <3>2 DEF SaveBegins
    <2>2. WholeCred!Publish(w, b, k)
      BY <2>1 DEF Cred!Publish, WholeCred!Publish, Cred!GoTo, WholeCred!GoTo
    <2> QED
      BY <2>2 DEF WholeCred!Next
  <1>2. ASSUME NEW w \in Workers,
               SaveStep(w) \/ SaveReturnsNil(w) \/ SaveReturnsError(w)
        PROVE  WholeCred!Next
    <2>1. Cred!Step(w) \/ FailingCred!Step(w)
      BY <1>2 DEF SaveStep, SaveReturnsNil, SaveReturnsError, Cred!Step
    <2> QED
      BY <2>1, SaveStepsOfCred DEF WholeCred!Next
  <1>3. CASE RestartAll
    BY <1>3 DEF RestartAll, Cred!Restart, WholeCred!Restart, WholeCred!Next, AnyFault,
                Cred!NoLines, WholeCred!NoLines
  <1>4. CASE UNCHANGED cred
    BY <1>4 DEF cred, WholeCred!vars
  <1>5. UNCHANGED allVars => UNCHANGED cred
    BY DEF allVars
  <1> QED
    BY <1>1, <1>2, <1>3, <1>4, <1>5
       DEF AllNext, ServeWithCredential, PublishWithCredential, ConnectorWithCredential,
           MountWithPair, MountFails, OrphanMountWithPair, OrphanMountFails

\* Between the calls of the kubelet and the mounts of the host, the saves of
\* NodePublishVolume behave as Credential says: what it proves of the file and
\* the mutex under faults is so here.
THEOREM SavesAreOfCredential == AllSpec => WholeCred!Spec
  <1>1. AllInit => FInv /\ WholeCred!Init
    BY FInvInit DEF AllInit, Cred!Init, WholeCred!Init, Cred!NoLines, WholeCred!NoLines,
                    Cred!Content, WholeCred!Content
  <1>2. FInv /\ [AllNext]_allVars => [WholeCred!Next]_(WholeCred!vars)
    BY StepsOfCred DEF FInv
  <1> QED
    BY <1>1, <1>2, FInvStep, PTL DEF AllSpec, WholeCred!Spec
=============================================================================
