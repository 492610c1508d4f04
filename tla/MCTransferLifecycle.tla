------------------------- MODULE MCTransferLifecycle -------------------------
EXTENDS TransferLifecycle, TLC

CONSTANTS t1, u1, f1, f2, rq1, rq2

\* One transfer, owned by u1 and capped at two downloads.
OneTransfer == (t1 :> u1)
TwoDownloads == (t1 :> 2)
BothInT1 == (f1 :> t1) @@ (f2 :> t1)
OnlyInT1 == (f1 :> t1)

Symmetry == Permutations(Requests) \cup Permutations(Files)
=============================================================================
