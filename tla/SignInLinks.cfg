SPECIFICATION Spec
CONSTANTS
    l1 = l1  l2 = l2  m1 = m1  b1 = b1  b2 = b2  r1 = r1  r2 = r2
    Links = {l1, l2}
    Emails = {m1}
    EmailOf <- OneAddress
    Browsers = {b1, b2}
    Requests = {r1, r2}
    NoLink = NoLink
    NoBrowser = NoBrowser
    CODE_MAX_ATTEMPTS = 2
    MaxAccounts = 2
    MaxFaults = 1
SYMMETRY Symmetry
INVARIANTS TypeOK SignedInWhereRequested AttemptsBurn SessionsHaveAccounts
PROPERTY UsedOnce
CHECK_DEADLOCK FALSE
