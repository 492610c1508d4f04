SPECIFICATION FairSpec
CONSTANTS
    s1 = s1  s2 = s2  home = home  away = away  r1 = r1  r2 = r2
    Sessions = {s1}
    Networks = {home, away}
    Home = home
    Requests = {r1, r2}
    Nobody = Nobody
    IDLE = 3
    ABSOLUTE = 6
    THROTTLE = 1
    DEDUP = 2
    RETAIN = 1
    Serving = 1
    LastSignIn = 0
    MaxFaults = 1
INVARIANTS TypeOK LoggedOutStaysOut ActiveStaysIn MailsSpaced
PROPERTIES RevokedForGood SecretsAreWiped
CHECK_DEADLOCK FALSE
