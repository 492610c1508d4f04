------------------------------ MODULE MCSignIn -------------------------------
EXTENDS SignIn, TLC

CONSTANTS l1, l2, m1, b1, b2, r1, r2

\* Two links for one address.
OneAddress == (l1 :> m1) @@ (l2 :> m1)

Symmetry == Permutations(Requests) \cup Permutations(Browsers) \cup Permutations(Links)
=============================================================================
