SPECIFICATION FairSpec
CONSTANTS
    d1 = d1  d2 = d2  t1 = t1  r1 = r1  r2 = r2
    t2 = t2
    Devices = {d1, d2}
    Transfers = {t1}
    Requests = {r1, r2}
    Nothing = Nothing
    PoolSize = 2
    MaxFaults = 1
INVARIANTS TypeOK ErasedLeavesNothing KeysOpen
PROPERTIES EndsUnlessJammed 
CHECK_DEADLOCK FALSE
