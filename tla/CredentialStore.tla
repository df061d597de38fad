--------------------------- MODULE CredentialStore ---------------------------
(***************************************************************************)
(* What the credential file of ossfs promises to the rest of the plugin:   *)
(* a store of AK pairs per bucket in which a save replaces every pair of   *)
(* its bucket at once, and touches no other bucket.  Credential.tla shows  *)
(* that the two rewrites of /host/etc/passwd-ossfs under one mutex         *)
(* implement it as long as the file system reports no error.               *)
(***************************************************************************)
CONSTANTS Buckets,   \* OSS buckets named by volumes
          Keys,      \* AkID:AkSecret pairs
          Pairs      \* those, and what else the store may hold at first

VARIABLE creds       \* creds[b]: the pairs a reader of the store finds for b

TypeOK == creds \in [Buckets -> SUBSET Pairs]

Init == creds \in [Buckets -> SUBSET Pairs]

Save(b, k) == creds' = [creds EXCEPT ![b] = {k}]

Next == \E b \in Buckets, k \in Keys : Save(b, k)

Spec == Init /\ [][Next]_creds
=============================================================================
