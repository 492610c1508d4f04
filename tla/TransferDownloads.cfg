SPECIFICATION FairSpec
CONSTANTS
    t1 = t1  u1 = u1  f1 = f1  f2 = f2  rq1 = rq1  rq2 = rq2
    Transfers = {t1}
    Files = {f1}
    TransferOf <- OnlyInT1
    Users = {u1}
    Anonymous = Anonymous
    Owner <- OneTransfer
    MaxDownloads <- TwoDownloads
    NoLimit = NoLimit
    MaxFiles = 2
    Requests = {rq1, rq2}
    Cleaner = Cleaner
    Endpoints = {"init-multipart", "complete-multipart", "complete", "abort", "file-url", "delete"}
    NoTransfer = NoTransfer
    NoFile = NoFile
    MaxFaults = 1
    MaxClaims = 3
INVARIANTS TypeOK SlotsAreExclusive
PROPERTIES PromiseKept ClosedIsPurged SweepEnds
