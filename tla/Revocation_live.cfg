\* Three logout requests of one session on two replicas meet the mutex, conflicts
\* and retries, also while the Secret is deleted, recreated and patched.
SPECIFICATION FairSpec
CONSTANTS
    h1 = h1
    h2 = h2
    h3 = h3
    r1 = r1
    r2 = r2
    Tokens = {t1}
    Sessions = {t1}
    Replicas = {r1, r2}
    Handlers = {h1, h2, h3}
    ReplicaOf <- TwoOnFirst
    Checks = {}
    MaxEntries = 1
    MaxAttempts = 3
    TTL = 1
    MaxTime = 1
    OtherExps = {1}
    MaxKey = 2
    NoToken = NoToken
PROPERTY LogoutReturns
