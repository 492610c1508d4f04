SPECIFICATION Spec
CONSTANTS
    d1 = d1  d2 = d2  t1 = t1  t2 = t2  r1 = r1  r2 = r2
    Devices = {d1}
    Transfers = {t1}
    Requests = {r1}
    Nothing = Nothing
    PoolSize = 2
    MaxFaults = 0
INVARIANTS ChildRowsGone
CHECK_DEADLOCK FALSE
