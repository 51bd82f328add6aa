\* A sign-in that overlaps a password change.
SPECIFICATION Spec
CONSTANTS
    Emails = {e1}
    Passwords = {p1, p2}
    IPs = {i1}
    Cookies = {k1, k2}
    Requests = {r1, r2}
    Nothing = Nothing
    Idle = 2
    Absolute = 3
    Limit = 2
    Window = 1
    MaxTime = 0
SYMMETRY Symmetry
INVARIANTS
    StoredIsLastChosen
