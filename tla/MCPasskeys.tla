----------------------------- MODULE MCPasskeys ------------------------------
EXTENDS Passkeys, TLC

Symmetry == Permutations(Challenges) \cup Permutations(Authenticators)
            \cup Permutations(Users) \cup Permutations(Requests)
=============================================================================
