SPECIFICATION Spec
CONSTANTS
    p1 = p1  p2 = p2  k1 = k1  k2 = k2
    Processes = {p1, p2}
    Tasks = {k1, k2}
    Nobody = Nobody
    ROTATE = 4
    RETAIN = 2
    CACHE = 2
    Interval = 1
    MaxSalts = 3
    MaxTime = 8
    MaxFaults = 1
SYMMETRY Symmetrical
INVARIANTS LinkageBounded SaltsExpire
PROPERTIES CorrelatorsKept
CHECK_DEADLOCK FALSE
