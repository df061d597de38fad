------------------------------ MODULE MCOssNode ------------------------------
(* TLC's instances of OssNode.                                             *)
EXTENDS OssNode, TLC

CONSTANTS t1, t2, t3, t4, shared, single

\* Two pods use the shared volume, one the volume mounted for it alone.
TwoAndOne == (t1 :> shared @@ t2 :> shared @@ t3 :> single)

\* One pod on each volume.
OneEach == (t1 :> shared @@ t2 :> single)

\* Three pods use the shared volume, one the other.
ThreeAndOne == TwoAndOne @@ (t4 :> shared)

\* Of the pods on these targets at most two ever exist: any two.  Binding a pod
\* is no step that Fairness asks for, so a bound on it takes no behaviour away
\* from the temporal properties but those with more pods.
TwoPods == Cardinality({t \in Targets : pod[t] # "none"}) <= 2

Symmetry == Permutations(Workers)

\* Targets on the same volume are alike, too.
SymmetryShared == Symmetry \cup Permutations(Targets \ {t3})
=============================================================================
