\* A session and a jti no server issued contend for one entry; two replicas, exp
\* claims earlier and later than the session's, the Secret deleted, recreated and
\* patched, a session check meanwhile: what the list may forget, what a check may
\* accept, and that the list is an atomic registry all the same.
SPECIFICATION Spec
CONSTANTS
    h1 = h1
    h2 = h2
    h3 = h3
    r1 = r1
    r2 = r2
    Tokens = {t1, t2}
    Sessions = {t1}
    Replicas = {r1, r2}
    Handlers = {h1, h2}
    ReplicaOf <- OneEach
    Checks = {c1}
    MaxEntries = 1
    MaxAttempts = 2
    TTL = 2
    MaxTime = 2
    OtherExps = {2}
    MaxKey = 2
    NoToken = NoToken
SYMMETRY MirrorSymmetry
INVARIANTS
    TypeOK
    ListBounded
    RevokedRemembered
    RevokedRejected
PROPERTIES
    ImplementsRegistry
