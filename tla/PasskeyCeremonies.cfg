SPECIFICATION Spec
CONSTANTS
    Challenges = {c1, c2, c3}
    Authenticators = {p1, p2}
    Credentials = {k1}
    Users = {u1, u2}
    Requests = {r1, r2}
    NoChallenge = NoChallenge
    NoAuthenticator = NoAuthenticator
    NoCredential = NoCredential
    NoUser = NoUser
    MaxCount = 3
    MaxFaults = 1
SYMMETRY Symmetry
INVARIANTS TypeOK EnrolledForBeginner LoginsAreBacked
PROPERTIES AnsweredOnce CountersAdvance
CHECK_DEADLOCK FALSE
