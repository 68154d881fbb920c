\* Upgrade, start, sessions, Close and restart; issuer i2 may fail each time.
SPECIFICATION FairSpec
CONSTANTS
    Rows = {r1}
    NoFile = NoFile
    Issuers = {i1, i2}
    Unreliable = {i2}
    Keys = {k1, k2, k3, k4}
    OtherKeys = {k4}
    Rotating = {i1}
    Tokens = {t1}
    Requests = {q1}
    TTL = 1
    MaxTime = 2
    NoToken = NoToken
INVARIANTS TypeOK KeysLoaded RequestsAreAuthorised
PROPERTIES KeepsItsRows KeysCatchUp ExpiredSessionsGo LoopsEnd
