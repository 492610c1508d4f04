------------------------------ MODULE MCAccount ------------------------------
EXTENDS Account, TLC

CONSTANTS d1, d2, t1, t2, r1, r2
=============================================================================
