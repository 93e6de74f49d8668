SPECIFICATION Spec
CONSTANTS
    Users = {u1, u2}
    Addresses = {a1, a2, a3}
    Passwords = {w1, w2}
    Googles = {g1}
    Procs = {p1, p2}
    MaxRequests = 4
    None = None
SYMMETRY Interchangeable
INVARIANTS TypeOK LinkWorksOnce PasswordIsTheLatest
PROPERTY PromiseKept
