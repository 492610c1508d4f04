SPECIFICATION Spec
CONSTANTS
    e1 = e1  e2 = e2  e3 = e3
    s1 = s1  s2 = s2  u1 = u1  w1 = w1  w2 = w2
    Events = {e1, e2, e3}
    Subs = {s1, s2}
    Users = {u1}
    NoUser = NoUser
    NoEvent = NoEvent
    SubOf <- SubOfEvent
    UserOf <- UserOfSub
    Kind <- KindOfEvent
    StatusOf <- StatusOfEvent
    Workers = {w1, w2}
    MaxFaults = 0
INVARIANT AckedIsProcessed
