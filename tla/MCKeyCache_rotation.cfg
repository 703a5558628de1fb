SPECIFICATION FairSpec
CONSTANTS
    r1 = r1
    r2 = r2
    k1 = k1
    k2 = k2
    Requests = {r1, r2}
    Keys = {k1, k2}
    Tokens <- MCTokens
    NoToken = NoToken
    UnknownKey = UnknownKey
    TTL = 3
    Interval = 2
    Timeout = 1
    MaxTime = 5
    MaxRotations = 2
PROPERTIES WithdrawnKeysExpire RotationsPickedUp RefreshesSpaced RequestsAnswered
CHECK_DEADLOCK FALSE
