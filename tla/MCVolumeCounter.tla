--------------------------- MODULE MCVolumeCounter ---------------------------
EXTENDS VolumeCounter, TLC

CONSTANTS u1, u2, u3, u4, r1, r2

\* One small upload and three of twice its size.
Sizes == (u1 :> 1) @@ (u2 :> 2) @@ (u3 :> 2) @@ (u4 :> 2)

Symmetry == Permutations(Requests) \cup Permutations({u2, u3, u4})
=============================================================================
