\* The claim of k8srevoker.go:29 at the cap, with the cookies the servers issued.
SPECIFICATION Spec
CONSTANTS
    h1 = h1
    h2 = h2
    h3 = h3
    r1 = r1
    r2 = r2
    Tokens = {t1, t2, t3}
    Sessions = {t1, t2, t3}
    Replicas = {r1, r2}
    Handlers = {h1}
    ReplicaOf <- Alone
    Checks = {}
    MaxEntries = 2
    MaxAttempts = 3
    TTL = 2
    MaxTime = 2
    OtherExps = {}
    MaxKey = 1
    NoToken = NoToken
PROPERTIES
    NewRevocationsLand
