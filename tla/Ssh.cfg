\* One tab on an SSH profile and the user working in it, reconnecting at will:
\* its open, its close and an operation compete for the pool.
SPECIFICATION Spec
CONSTANTS
    p1 = p1
    Sid = {s1}
    Profile = {p1}
    ProfileOf <- OneProfile
    Ssh = {p1}
    Conn = {c1, c2, c3}
    None = None
    Users = {s1}
    NoticeCap = 1
    MayQuit = FALSE
SYMMETRY Interchangeable
INVARIANTS OneAtATime PooledIsReal OwnConnection
PROPERTY Refinement
