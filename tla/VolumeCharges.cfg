SPECIFICATION Spec
CONSTANTS
    u1 = u1  u2 = u2  u3 = u3  u4 = u4  r1 = r1  r2 = r2
    Uploads = {u1, u2, u3, u4}
    Size <- Sizes
    MaxSize = 2
    Requests = {r1, r2}
    NoUpload = NoUpload
    MaxBytes = 2
    MaxRepeats = 1
    MaxFaults = 2
    MaxWindows = 1
SYMMETRY Symmetry
INVARIANTS TypeOK CountersCover OvershootBounded OutageAtMostDoubles
CHECK_DEADLOCK FALSE
