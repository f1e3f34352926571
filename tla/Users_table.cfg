\* Two requests of any kind on two emails, while the Secret is deleted once or
\* the workspace or an account changes once.
SPECIFICATION LoginSpec
CONSTANTS
    Emails = {e1, e2}
    Passwords = {p1, p2}
    Absent = Absent
    Requests = {q1, q2}
    NoOp = NoOp
    MaxDeletes = 1
    Ids = {u1, u2}
    Internal = Internal
    Gone = Gone
    NoId = NoId
    Unbound = Unbound
    MaxChanges = 1
SYMMETRY LoginSymmetry
INVARIANTS
    LoginTypeOK
    OneAdminPerSetup
PROPERTIES
    SessionsHaveUsers
    ImplementsTable
    OnlyEntitled
