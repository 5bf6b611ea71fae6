------------------------ MODULE MCSealingKeyManager ------------------------
(* Two nodes, each the other's replication server, and shares of which two  *)
(* determine the seed.                                                       *)
EXTENDS SealingKeyManager, TLC
CONSTANTS a, b, s1, s2, s3

TwoNodes == {a, b}
EachOther == a :> b @@ b :> a
ThreeShares == {s1, s2, s3}
Symmetry == Permutations(TwoNodes) \cup Permutations(ThreeShares)
=============================================================================
