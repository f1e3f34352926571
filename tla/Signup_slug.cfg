\* Two users whose identifiers share the part the slug is made of.
SPECIFICATION Spec
CONSTANTS
    u1 = u1
    u2 = u2
    s1 = s1
    s2 = s2
    s3 = s3
    Ids = {u1, u2}
    Emails = {e1, e2}
    Absent = Absent
    Active = Active
    Grace = 9
    IPs = {ip1}
    Calls = {c1, c2}
    Idle = Idle
    NoBucket = NoBucket
    Slugs = {s1, s2, s3}
    SlugOf <- Colliding
    AdminSlugs = {s3}
    Admin = Admin
    MaxInstances = 1
    Capacity = 2
    Hour = 3
    TTL = 1
    MaxTime = 2
    MaxRestarts = 0
    MaxAdmin = 0
SYMMETRY CallSymmetry
INVARIANT OwnWorkspace
CHECK_DEADLOCK FALSE
