\* Two tabs on one FTP profile, which share one key of the pool.
SPECIFICATION Spec
CONSTANTS
    p1 = p1
    Sid = {s1, s2}
    Profile = {p1}
    ProfileOf <- OneProfile
    Ssh = {}
    Conn = {c1, c2}
    None = None
    Users = {}
    NoticeCap = 1
    MayQuit = FALSE
PROPERTY Refinement
