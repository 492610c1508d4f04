------------------------------- MODULE MCSalts -------------------------------
EXTENDS Salts, TLC

CONSTANTS p1, p2, k1, k2

Symmetrical == Permutations({p1, p2}) \cup Permutations({k1, k2})
=============================================================================
