\* Two deletions of the same user.
SPECIFICATION Spec
CONSTANTS
    Ids = {u1, u2}
    Emails = {e1}
    Attrs = {a1, a2}
    Absent = Absent
    Active = Active
    Unlogged = Unlogged
    Grace = 2
    Calls = {c1, c2}
    MaxClock = 4
SYMMETRY CallSymmetry

PROPERTY AuditAtomic
CHECK_DEADLOCK FALSE
