---------------------------- MODULE MCCredential ----------------------------
(* TLC's instances of Credential: handlers, buckets and pairs are alike.   *)
EXTENDS Credential, TLC

\* Every pair may be cut to any of the cut ones, if there are.
EveryCut == [p \in Pairs |-> IF p \in Keys THEN Pairs \ Keys ELSE {}]

Symmetry ==
    Permutations(Handlers) \cup Permutations(Buckets) \cup Permutations(Keys)
=============================================================================
