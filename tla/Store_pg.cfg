\* Two users competing for one address, two calls, and time for a purge.
SPECIFICATION Spec
CONSTANTS
    Ids = {u1, u2}
    Emails = {e1}
    Attrs = {a1, a2}
    Absent = Absent
    Active = Active
    Unlogged = Unlogged
    Grace = 2
    Calls = {c1, c2}
    MaxClock = 4
SYMMETRY CallSymmetry
INVARIANTS TypeOK DeletionsLogged
PROPERTY ImplementsStore
CHECK_DEADLOCK FALSE
