------------------------- MODULE MCOssNodeCredential -------------------------
(* TLC's instances of OssNodeCredential.                                   *)
EXTENDS OssNodeCredential, TLC

CONSTANTS t1, t2, shared, single, bucket1, bucket2, old, new, cut

\* One pod on each volume, and each volume on a bucket of its own.
OneEach == (t1 :> shared @@ t2 :> single)
BucketEach == (shared :> bucket1 @@ single :> bucket2)

\* Both buckets have a new pair; the first file may still hold an old one.
NewPair == [b \in Buckets |-> new]

\* A torn line of the new pair may have a cut secret, one of the old has none.
CutOfNew == (old :> {} @@ new :> {cut} @@ cut :> {})

\* The first file is empty, or has an old line for each bucket.
MCInit ==
    /\ AllInit
    /\ file \in {[b \in Buckets |-> [p \in Pairs |-> IF p = old THEN n ELSE 0]] :
                   n \in {0, MaxLines}}

MCFairSpec == MCInit /\ [][AllNext]_allVars /\ AllFairness
=============================================================================
