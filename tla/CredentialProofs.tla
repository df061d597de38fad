--------------------------- MODULE CredentialProofs ---------------------------
(***************************************************************************)
(* Proofs about Credential, for any number of handlers, buckets and pairs. *)
(*   TypeCorrect, LockExcludes    hold under every fault.                  *)
(*   AckedReadable, AckedLast     hold while no fault occurs; they follow  *)
(*                                from what the lock holder has in hand at *)
(*                                each step (Holding).                     *)
(*   ImplementsStore              every step of a save is a stutter of     *)
(*                                CredentialStore, or its Save.            *)
(***************************************************************************)
EXTENDS Credential, TLAPS

\* The content serves every acknowledged bucket, apart from those in except.
Serves(content, except) ==
    \A b \in Buckets \ except :
        acked[b] # None => content[b] = OneLine(acked[b])

\* The content after the save of h: its bucket has its pair.
Updated(content, h) ==
    /\ content[req[h][1]] = OneLine(req[h][2])
    /\ Serves(content, {req[h][1]})

\* What is true of the file and of h's copy at each step of the holder h.
Holding(h) ==
    /\ pc[h] = "read"      => Serves(file, {})
    /\ pc[h] = "open"      => Serves(file, {}) /\ buf[h] = file
    /\ pc[h] = "write"     => Serves(buf[h], {})
    /\ pc[h] = "uniqRead"  => Updated(file, h)
    /\ pc[h] = "uniqOpen"  => Updated(file, h) /\ buf[h] = file
    /\ pc[h] = "uniqWrite" => Updated(buf[h], h)
    /\ pc[h] = "saved"     => Updated(file, h)
    /\ pc[h] # "failed"

IInv ==
    /\ TypeOK
    /\ MutualExclusion
    /\ mutex = None => Serves(file, {})
    /\ \A h \in Handlers : mutex = h => Holding(h)

-----------------------------------------------------------------------------
(* What the two rewrites do to a content. *)

LEMMA NoLinesType == NoLines \in Content
  BY BoundAssumption DEF NoLines, Content

LEMMA WithCredentialType ==
    ASSUME NEW c \in Content, NEW b \in Buckets, NEW k \in Keys
    PROVE  WithCredential(c, b, k) \in Content
  BY BoundAssumption DEF WithCredential, Content, OneLine

LEMMA UniqType ==
    ASSUME NEW c \in Content
    PROVE  Uniq(c) \in Content
  BY BoundAssumption DEF Uniq, Content

\* What a write or a read that ends too early leaves is a bag of lines too.
LEMMA PrefixesType ==
    ASSUME NEW c \in Content, NEW b \in Buckets
    PROVE  Prefixes(c, b) \subseteq Content
  BY DEF Prefixes

\* The rewrite gives its bucket one line and leaves the others alone.
LEMMA WithCredentialLines ==
    ASSUME NEW c \in Content, NEW b \in Buckets, NEW k \in Keys
    PROVE  /\ WithCredential(c, b, k)[b] = OneLine(k)
           /\ \A d \in Buckets \ {b} : WithCredential(c, b, k)[d] = c[d]
  BY DEF WithCredential, Content

\* A bucket with one line keeps it through uniq.
LEMMA UniqKeepsOneLine ==
    ASSUME NEW c \in Content, NEW b \in Buckets, NEW k \in Keys,
           c[b] = OneLine(k)
    PROVE  Uniq(c)[b] = OneLine(k)
  BY DEF Uniq, OneLine

\* uniq changes how often a pair is there, never whether it is.
LEMMA UniqKeepsKeys ==
    ASSUME NEW c \in Content, NEW b \in Buckets
    PROVE  KeysIn(Uniq(c), b) = KeysIn(c, b)
  BY DEF Uniq, KeysIn, Content

LEMMA OneLineKeys ==
    ASSUME NEW k \in Keys, NEW c \in Content, NEW b \in Buckets,
           c[b] = OneLine(k)
    PROVE  KeysIn(c, b) = {k}
  BY CutAssumption DEF OneLine, KeysIn

-----------------------------------------------------------------------------
(* TypeOK and MutualExclusion, under every fault. *)

LEMMA TypeStep ==
    ASSUME TypeOK, [Next]_vars
    PROVE  TypeOK'
  <1> USE DEF TypeOK, GoTo, Critical
  <1>1. ASSUME NEW h \in Handlers, Lock(h) PROVE TypeOK'
    BY <1>1 DEF Lock
  <1>2. ASSUME NEW h \in Handlers, ReadOld(h) PROVE TypeOK'
    BY <1>2 DEF ReadOld
  <1>3. ASSUME NEW h \in Handlers, OpenTrunc(h) PROVE TypeOK'
    BY <1>3, NoLinesType DEF OpenTrunc
  <1>4. ASSUME NEW h \in Handlers, WriteNew(h) PROVE TypeOK'
    <2>1. /\ buf[h] \in Content
          /\ req[h][1] \in Buckets
          /\ req[h][2] \in Keys
      BY <1>4 DEF WriteNew
    <2>2. WithCredential(buf[h], req[h][1], req[h][2]) \in Content
      BY <2>1, WithCredentialType
    <2>3. Prefixes(WithCredential(buf[h], req[h][1], req[h][2]), req[h][1])
            \subseteq Content
      BY <2>1, <2>2, PrefixesType
    <2> QED
      BY <1>4, <2>2, <2>3 DEF WriteNew
  <1>5. ASSUME NEW h \in Handlers, UniqRead(h) PROVE TypeOK'
    <2>1. req[h][1] \in Buckets
      BY <1>5 DEF UniqRead
    <2>2. Prefixes(file, req[h][1]) \subseteq Content
      BY <2>1, PrefixesType
    <2> QED
      BY <1>5, <2>2 DEF UniqRead
  <1>6. ASSUME NEW h \in Handlers, UniqOpenTrunc(h) PROVE TypeOK'
    BY <1>6, NoLinesType DEF UniqOpenTrunc
  <1>7. ASSUME NEW h \in Handlers, UniqWrite(h) PROVE TypeOK'
    <2>1. buf[h] \in Content /\ req[h][1] \in Buckets
      BY <1>7 DEF UniqWrite
    <2>2. Uniq(buf[h]) \in Content
      BY <2>1, UniqType
    <2>3. Prefixes(Uniq(buf[h]), req[h][1]) \subseteq Content
      BY <2>1, <2>2, PrefixesType
    <2> QED
      BY <1>7, <2>2, <2>3 DEF UniqWrite
  <1>8. ASSUME NEW h \in Handlers, ReturnNil(h) PROVE TypeOK'
    BY <1>8, NoLinesType DEF ReturnNil
  <1>9. ASSUME NEW h \in Handlers, ReturnError(h) PROVE TypeOK'
    BY <1>9, NoLinesType DEF ReturnError
  <1>10. ASSUME NEW h \in Handlers, NEW b \in Buckets, NEW k \in Keys,
                Publish(h, b, k)
         PROVE  TypeOK'
    BY <1>10 DEF Publish
  <1>11. CASE Restart
    BY <1>11, NoLinesType DEF Restart
  <1>12. CASE UNCHANGED vars
    BY <1>12 DEF vars
  <1> QED
    BY <1>1, <1>2, <1>3, <1>4, <1>5, <1>6, <1>7, <1>8, <1>9, <1>10,
       <1>11, <1>12 DEF Next, Step

\* The variables keep their types: file and copies stay bags of lines through
\* both rewrites of nodeServer.saveOssCredential, whatever fails, and after a
\* write or a read that stops at any point.
THEOREM TypeCorrect == Spec => []TypeOK
  <1>1. Init => TypeOK
    BY NoLinesType DEF Init, TypeOK, Content
  <1>2. TypeOK /\ [Next]_vars => TypeOK'
    BY TypeStep
  <1> QED
    BY <1>1, <1>2, PTL DEF Spec

\* The handlers between Lock and Unlock are those that hold the mutex, in
\* every step: shared by the two theorems below.
LEMMA LockStep ==
    ASSUME TypeOK, MutualExclusion, [Next]_vars
    PROVE  MutualExclusion'
  <1> USE NoneAssumption DEF TypeOK, MutualExclusion, GoTo, Critical
  <1>1. ASSUME NEW h \in Handlers, Step(h) PROVE MutualExclusion'
    <2>1. CASE Lock(h)
      BY <2>1 DEF Lock
    <2>2. CASE ReadOld(h)
      BY <2>2 DEF ReadOld
    <2>3. CASE OpenTrunc(h) \/ WriteNew(h)
      BY <2>3 DEF OpenTrunc, WriteNew
    <2>4. CASE UniqRead(h) \/ UniqOpenTrunc(h) \/ UniqWrite(h)
      BY <2>4 DEF UniqRead, UniqOpenTrunc, UniqWrite
    <2>5. CASE ReturnNil(h) \/ ReturnError(h)
      BY <2>5 DEF ReturnNil, ReturnError
    <2> QED
      BY <1>1, <2>1, <2>2, <2>3, <2>4, <2>5 DEF Step
  <1>2. ASSUME NEW h \in Handlers, NEW b \in Buckets, NEW k \in Keys,
               Publish(h, b, k)
        PROVE  MutualExclusion'
    BY <1>2 DEF Publish
  <1>3. CASE Restart
    BY <1>3 DEF Restart
  <1>4. CASE UNCHANGED vars
    BY <1>4 DEF vars
  <1> QED
    BY <1>1, <1>2, <1>3, <1>4 DEF Next

\* writeCredentialMutex excludes under every fault: no error path or restart
\* leaves it held, and no step enters the section without it.
THEOREM LockExcludes == Spec => []MutualExclusion
  <1>1. Init => MutualExclusion
    BY NoneAssumption DEF Init, MutualExclusion, Critical
  <1>2. TypeOK /\ MutualExclusion /\ [Next]_vars => MutualExclusion'
    BY LockStep
  <1> QED
    BY <1>1, <1>2, TypeCorrect, PTL DEF Spec

-----------------------------------------------------------------------------
(* What an acknowledged save is worth while no fault occurs. *)

LEMMA HoldingInit == Init => IInv
  <1> SUFFICES ASSUME Init PROVE IInv
    OBVIOUS
  <1>1. TypeOK
    BY NoLinesType DEF Init, TypeOK, Content
  <1>2. MutualExclusion /\ mutex = None
    BY NoneAssumption DEF Init, MutualExclusion, Critical
  <1>3. Serves(file, {})
    BY DEF Init, Serves
  <1> QED
    BY <1>1, <1>2, <1>3, NoneAssumption DEF IInv

\* A step of the holder carries its hand over to the next step.
LEMMA HoldingStep ==
    ASSUME Faults = {}, IInv, [Next]_vars
    PROVE  IInv'
  <1>1. TypeOK' /\ MutualExclusion'
    BY TypeStep, LockStep DEF IInv
  <1> SUFFICES ASSUME TRUE
               PROVE  /\ (mutex = None => Serves(file, {}))'
                      /\ \A g \in Handlers : (mutex = g => Holding(g))'
    BY <1>1 DEF IInv
  <1> USE NoneAssumption DEF GoTo
  <1>2. TypeOK /\ MutualExclusion
    BY DEF IInv
  <1>3. ASSUME NEW h \in Handlers, Lock(h)
        PROVE  mutex' = h /\ Holding(h)'
    <2>1. pc'[h] = "read"
      BY <1>2, <1>3 DEF Lock, TypeOK
    <2>2. Serves(file, {})'
      BY <1>3 DEF Lock, IInv, Serves
    <2> QED
      BY <1>3, <2>1, <2>2 DEF Lock, Holding
  <1>4. ASSUME NEW h \in Handlers, pc[h] \in Critical
        PROVE  mutex = h /\ Holding(h)
    BY <1>4 DEF IInv, MutualExclusion
  <1>5. ASSUME NEW h \in Handlers, ReadOld(h)
        PROVE  mutex' = h /\ Holding(h)'
    <2>1. mutex = h /\ Serves(file, {})
      BY <1>4, <1>5 DEF ReadOld, Critical, Holding
    <2>2. pc'[h] = "open" /\ buf'[h] = file /\ UNCHANGED <<file, acked, mutex>>
      BY <1>2, <1>5 DEF ReadOld, TypeOK
    <2> QED
      BY <2>1, <2>2 DEF Holding, Serves
  <1>6. ASSUME NEW h \in Handlers, OpenTrunc(h)
        PROVE  mutex' = h /\ Holding(h)'
    <2>1. mutex = h /\ Serves(buf[h], {})
      BY <1>4, <1>6 DEF OpenTrunc, Critical, Holding
    <2>2. pc'[h] = "write" /\ UNCHANGED <<buf, acked, mutex>>
      BY <1>2, <1>6 DEF OpenTrunc, TypeOK
    <2> QED
      BY <2>1, <2>2 DEF Holding, Serves
  <1>7. ASSUME NEW h \in Handlers, WriteNew(h)
        PROVE  mutex' = h /\ Holding(h)'
    <2> DEFINE b == req[h][1]
               k == req[h][2]
    <2>1. mutex = h /\ Serves(buf[h], {})
      BY <1>4, <1>7 DEF WriteNew, Critical, Holding
    <2>2. /\ pc'[h] = "uniqRead"
          /\ file' = WithCredential(buf[h], b, k)
          /\ UNCHANGED <<req, acked, mutex>>
      BY <1>2, <1>7 DEF WriteNew, TypeOK
    <2>3. buf[h] \in Content /\ b \in Buckets /\ k \in Keys
      BY <1>2, <1>7 DEF TypeOK, WriteNew
    <2>4. /\ file'[b] = OneLine(k)
          /\ \A d \in Buckets \ {b} : file'[d] = buf[h][d]
      BY <2>2, <2>3, WithCredentialLines
    <2>5. Updated(file, h)'
      BY <2>1, <2>2, <2>4 DEF Updated, Serves, OneLine
    <2> QED
      BY <2>1, <2>2, <2>5 DEF Holding
  <1>8. ASSUME NEW h \in Handlers, UniqRead(h)
        PROVE  mutex' = h /\ Holding(h)'
    <2>1. mutex = h /\ Updated(file, h)
      BY <1>4, <1>8 DEF UniqRead, Critical, Holding
    <2>2. /\ pc'[h] = "uniqOpen" /\ buf'[h] = file
          /\ UNCHANGED <<file, req, acked, mutex>>
      BY <1>2, <1>8 DEF UniqRead, TypeOK
    <2> QED
      BY <2>1, <2>2 DEF Holding, Updated, Serves, OneLine
  <1>9. ASSUME NEW h \in Handlers, UniqOpenTrunc(h)
        PROVE  mutex' = h /\ Holding(h)'
    <2>1. mutex = h /\ Updated(buf[h], h)
      BY <1>4, <1>9 DEF UniqOpenTrunc, Critical, Holding
    <2>2. pc'[h] = "uniqWrite" /\ UNCHANGED <<buf, req, acked, mutex>>
      BY <1>2, <1>9 DEF UniqOpenTrunc, TypeOK
    <2> QED
      BY <2>1, <2>2 DEF Holding, Updated, Serves, OneLine
  <1>10. ASSUME NEW h \in Handlers, UniqWrite(h)
         PROVE  mutex' = h /\ Holding(h)'
    <2>1. mutex = h /\ Updated(buf[h], h)
      BY <1>4, <1>10 DEF UniqWrite, Critical, Holding
    <2>2. /\ pc'[h] = "saved" /\ file' = Uniq(buf[h])
          /\ UNCHANGED <<req, acked, mutex>>
      BY <1>2, <1>10 DEF UniqWrite, TypeOK
    <2>3. /\ buf[h] \in Content
          /\ req[h][1] \in Buckets
          /\ req[h][2] \in Keys
          /\ acked \in [Buckets -> Keys \cup {None}]
      BY <1>2, <1>10 DEF TypeOK, UniqWrite
    <2>4. \A d \in Buckets, k \in Keys :
             buf[h][d] = OneLine(k) => file'[d] = OneLine(k)
      BY <2>2, <2>3, UniqKeepsOneLine
    <2>5. file'[req[h][1]] = OneLine(req[h][2])
      BY <2>1, <2>3, <2>4 DEF Updated
    <2>6. \A d \in Buckets \ {req[h][1]} :
             acked[d] # None => file'[d] = OneLine(acked[d])
      BY <2>1, <2>3, <2>4 DEF Updated, Serves
    <2>7. Updated(file, h)'
      BY <2>2, <2>5, <2>6 DEF Updated, Serves, OneLine
    <2> QED
      BY <2>1, <2>2, <2>7 DEF Holding
  <1>11. ASSUME NEW h \in Handlers, ReturnNil(h)
         PROVE  mutex' = None /\ Serves(file, {})'
    <2>1. Updated(file, h)
      BY <1>4, <1>11 DEF ReturnNil, Critical, Holding
    <2>2. /\ mutex' = None /\ UNCHANGED file
          /\ acked' = [acked EXCEPT ![req[h][1]] = req[h][2]]
      BY <1>11 DEF ReturnNil
    <2>3. req[h][1] \in Buckets /\ acked \in [Buckets -> Keys \cup {None}]
      BY <1>2, <1>11 DEF TypeOK, ReturnNil
    <2> QED
      BY <2>1, <2>2, <2>3 DEF Updated, Serves
  <1>12. ASSUME NEW h \in Handlers, ReturnError(h)
         PROVE  FALSE
    BY <1>4, <1>12 DEF ReturnError, Critical, Holding
  <1>13. ASSUME NEW g \in Handlers, NEW h \in Handlers, h # g,
                mutex = g, pc'[g] = pc[g],
                buf'[g] = buf[g], req'[g] = req[g],
                UNCHANGED <<file, mutex, acked>>
         PROVE  Holding(g)'
    <2>1. Holding(g)
      BY <1>13 DEF IInv
    <2> QED
      BY <1>13, <2>1 DEF Holding, Updated, Serves, OneLine
  <1>14. ASSUME NEW h \in Handlers, NEW b \in Buckets, NEW k \in Keys,
                Publish(h, b, k)
         PROVE  /\ (mutex = None => Serves(file, {}))'
                /\ \A g \in Handlers : (mutex = g => Holding(g))'
    <2>1. UNCHANGED <<file, mutex, acked, buf>> /\ pc[h] = "idle"
      BY <1>14 DEF Publish
    <2>2. mutex # h
      BY <1>2, <2>1 DEF MutualExclusion, Critical
    <2>3. \A g \in Handlers \ {h} : pc'[g] = pc[g] /\ req'[g] = req[g]
      BY <1>2, <1>14 DEF Publish, TypeOK
    <2>4. (mutex = None => Serves(file, {}))'
      BY <2>1 DEF IInv, Serves
    <2> QED
      BY <1>13, <2>1, <2>2, <2>3, <2>4
  <1>15. CASE UNCHANGED vars
    BY <1>15 DEF vars, IInv, Holding, Updated, Serves, OneLine
  <1>16. ~Restart
    BY DEF Restart
  <1> QED
    BY <1>3, <1>5, <1>6, <1>7, <1>8, <1>9, <1>10, <1>11, <1>12, <1>14,
       <1>15, <1>16 DEF Next, Step

LEMMA HoldingInvariant == ASSUME Faults = {} PROVE Spec => []IInv
  <1>1. IInv /\ [Next]_vars => IInv'
    BY HoldingStep
  <1> QED
    BY <1>1, HoldingInit, PTL DEF Spec

\* While no fault occurs: whatever a handler does to the file, a bucket whose
\* save returned nil has its pair there, or the file is truncated at present.
THEOREM AckedReadable == ASSUME Faults = {} PROVE Spec => []AckedIsReadable
  <1>1. ASSUME IInv PROVE AckedIsReadable
    <2> SUFFICES ASSUME NEW b \in Buckets, acked[b] # None,
                        \A h \in Handlers : ~Rewriting(h)
                 PROVE  KeysIn(file, b) # {}
      BY DEF AckedIsReadable
    <2>1. TypeOK
      BY <1>1 DEF IInv
    <2>2. PICK k \in Keys : file[b] = OneLine(k)
      <3>1. acked[b] \in Keys
        BY <2>1 DEF TypeOK
      <3>2. CASE mutex = None
        BY <1>1, <3>1, <3>2 DEF IInv, Serves
      <3>3. CASE mutex # None
        <4>1. PICK h \in Handlers : mutex = h
          BY <2>1, <3>3 DEF TypeOK
        <4>2. Holding(h) /\ pc[h] \in Critical \ {"write", "uniqWrite"}
          BY <1>1, <4>1 DEF IInv, MutualExclusion, Rewriting
        <4>3. Serves(file, {}) \/ Updated(file, h)
          BY <4>2 DEF Holding, Critical
        <4>4. req[h][2] \in Keys
          BY <2>1, <4>2 DEF TypeOK, Critical
        <4> QED
          BY <3>1, <4>3, <4>4 DEF Serves, Updated
      <3> QED
        BY <3>2, <3>3
    <2>3. file \in Content
      BY <2>1 DEF TypeOK
    <2> QED
      BY <2>2, <2>3, OneLineKeys
  <1> QED
    BY <1>1, HoldingInvariant, PTL

\* While no fault occurs: at rest an acknowledged bucket has one line, the
\* pair of the save of it that returned last.
THEOREM AckedLast == ASSUME Faults = {} PROVE Spec => []AckedIsLast
  <1>1. IInv => AckedIsLast
    BY DEF IInv, AckedIsLast, Serves, OneLine
  <1> QED
    BY <1>1, HoldingInvariant, PTL

-----------------------------------------------------------------------------
(* Credential implements CredentialStore. *)

Readable(content) == [b \in Buckets |-> KeysIn(content, b)]

LEMMA SaveIsStoreSave ==
    ASSUME NEW c \in Content, NEW b \in Buckets, NEW k \in Keys
    PROVE  Readable(WithCredential(c, b, k))
             = [Readable(c) EXCEPT ![b] = {k}]
  <1> DEFINE n == WithCredential(c, b, k)
  <1>1. /\ n[b] = OneLine(k)
        /\ \A d \in Buckets \ {b} : n[d] = c[d]
    BY WithCredentialLines
  <1>2. n \in Content
    BY WithCredentialType
  <1>3. KeysIn(n, b) = {k}
    BY <1>1, <1>2, OneLineKeys
  <1>4. \A d \in Buckets \ {b} : KeysIn(n, d) = KeysIn(c, d)
    BY <1>1 DEF KeysIn
  <1> QED
    BY <1>3, <1>4 DEF Readable

LEMMA StoreStep ==
    ASSUME Faults = {}, IInv, [Next]_vars
    PROVE  \/ \E b \in Buckets, k \in Keys :
                Readable(Effective)' = [Readable(Effective) EXCEPT ![b] = {k}]
           \/ Readable(Effective)' = Readable(Effective)
  <1> USE NoneAssumption DEF GoTo
  <1>1. TypeOK /\ MutualExclusion
    BY DEF IInv
  <1>2. ASSUME NEW h \in Handlers, pc[h] \in Critical
        PROVE  mutex = h /\ Holding(h)
    BY <1>2 DEF IInv, MutualExclusion
  <1>3. ASSUME NEW h \in Handlers, Lock(h)
        PROVE  Effective' = Effective
    <2>1. pc'[h] = "read"
      BY <1>1, <1>3 DEF Lock, TypeOK
    <2> QED
      BY <1>3, <2>1 DEF Lock, Effective, Rewriting
  <1>4. ASSUME NEW h \in Handlers, ReadOld(h) \/ UniqRead(h)
        PROVE  Effective' = Effective
    <2>1. /\ mutex = h /\ ~Rewriting(h)
          /\ UNCHANGED <<file, mutex>>
      BY <1>2, <1>4 DEF ReadOld, UniqRead, Critical, Rewriting
    <2>2. pc'[h] \in {"open", "uniqOpen"}
      BY <1>1, <1>4 DEF ReadOld, UniqRead, TypeOK
    <2> QED
      BY <2>1, <2>2 DEF Effective, Rewriting
  <1>5. ASSUME NEW h \in Handlers, OpenTrunc(h) \/ UniqOpenTrunc(h)
        PROVE  Effective' = Effective
    <2>1. /\ mutex = h /\ ~Rewriting(h) /\ buf[h] = file
          /\ UNCHANGED <<buf, mutex>>
      BY <1>2, <1>5
         DEF OpenTrunc, UniqOpenTrunc, Critical, Rewriting, Holding
    <2>2. pc'[h] \in {"write", "uniqWrite"}
      BY <1>1, <1>5 DEF OpenTrunc, UniqOpenTrunc, TypeOK
    <2> QED
      BY <2>1, <2>2 DEF Effective, Rewriting
  <1>6. ASSUME NEW h \in Handlers, WriteNew(h)
        PROVE  \E b \in Buckets, k \in Keys :
                 Readable(Effective)' = [Readable(Effective) EXCEPT ![b] = {k}]
    <2>1. mutex = h /\ Effective = buf[h]
      BY <1>2, <1>6 DEF WriteNew, Critical, Effective, Rewriting
    <2>2. pc'[h] = "uniqRead" /\ mutex' = mutex
      BY <1>1, <1>6 DEF WriteNew, TypeOK
    <2>3. Effective' = WithCredential(buf[h], req[h][1], req[h][2])
      BY <1>6, <2>1, <2>2 DEF WriteNew, Effective, Rewriting
    <2>4. buf[h] \in Content /\ req[h][1] \in Buckets /\ req[h][2] \in Keys
      BY <1>1, <1>6 DEF TypeOK, WriteNew
    <2>5. Readable(Effective)' = Readable(Effective')
      BY DEF Readable, KeysIn
    <2>6. Readable(WithCredential(buf[h], req[h][1], req[h][2])) =
              [Readable(buf[h]) EXCEPT ![req[h][1]] = {req[h][2]}]
      BY <2>4, SaveIsStoreSave
    <2> QED
      BY <2>1, <2>3, <2>4, <2>5, <2>6
  <1>7. ASSUME NEW h \in Handlers, UniqWrite(h)
        PROVE  Readable(Effective)' = Readable(Effective)
    <2>1. mutex = h /\ Effective = buf[h]
      BY <1>2, <1>7 DEF UniqWrite, Critical, Effective, Rewriting
    <2>2. pc'[h] = "saved" /\ mutex' = mutex /\ file' = Uniq(buf[h])
      BY <1>1, <1>7 DEF UniqWrite, TypeOK
    <2>3. Effective' = Uniq(buf[h])
      BY <2>1, <2>2 DEF Effective, Rewriting
    <2>4. buf[h] \in Content
      BY <1>1 DEF TypeOK
    <2>5. \A b \in Buckets : KeysIn(Uniq(buf[h]), b) = KeysIn(buf[h], b)
      BY <2>4, UniqKeepsKeys
    <2>6. Readable(Effective)' = Readable(Effective')
      BY DEF Readable, KeysIn
    <2> QED
      BY <2>1, <2>3, <2>5, <2>6 DEF Readable
  <1>8. ASSUME NEW h \in Handlers, ReturnNil(h) \/ ReturnError(h)
        PROVE  Effective' = Effective
    <2>1. mutex = h /\ ~Rewriting(h) /\ mutex' = None /\ UNCHANGED file
      BY <1>2, <1>8 DEF ReturnNil, ReturnError, Critical, Rewriting
    <2> QED
      BY <2>1 DEF Effective
  <1>9. ASSUME NEW h \in Handlers, NEW b \in Buckets, NEW k \in Keys,
               Publish(h, b, k)
        PROVE  Effective' = Effective
    <2>1. mutex # h
      BY <1>1, <1>9 DEF Publish, MutualExclusion, Critical
    <2>2. mutex # None => mutex \in Handlers /\ pc'[mutex] = pc[mutex]
      BY <1>1, <1>9, <2>1 DEF Publish, TypeOK
    <2> QED
      BY <1>9, <2>2 DEF Publish, Effective, Rewriting
  <1>10. CASE UNCHANGED vars
    BY <1>10 DEF vars, Effective, Rewriting, Readable, KeysIn
  <1>11. Effective' = Effective => Readable(Effective)' = Readable(Effective)
    BY DEF Readable, KeysIn
  <1>12. ~Restart
    BY DEF Restart
  <1> QED
    BY <1>3, <1>4, <1>5, <1>6, <1>7, <1>8, <1>9, <1>10, <1>11, <1>12
       DEF Next, Step

\* While no fault occurs a save of one bucket is, for every reader that waits
\* out the truncation, one atomic replacement: saveOssCredential implements
\* CredentialStore.
THEOREM ImplementsStore == ASSUME Faults = {} PROVE Spec => StoreSpec
  <1>1. Init => Store!Init
    <2> SUFFICES ASSUME Init PROVE Store!Init
      OBVIOUS
    <2> QED
      BY DEF Store!Init, KeysIn
  <1>2. IInv /\ [Next]_vars => [Store!Next]_(Readable(Effective))
    BY StoreStep DEF Store!Next, Store!Save, Readable
  <1> QED
    BY <1>1, <1>2, HoldingInvariant, PTL DEF Spec, StoreSpec, Store!Spec,
       Readable
=============================================================================
