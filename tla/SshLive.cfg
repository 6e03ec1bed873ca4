\* An SSH tab opening, closing and the application quitting all want the pool.
SPECIFICATION FairSpec
CONSTANTS
    p1 = p1
    Sid = {s1}
    Profile = {p1}
    ProfileOf <- OneProfile
    Ssh = {p1}
    Conn = {c1, c2, c3}
    None = None
    Users = {}
    NoticeCap = 1
    MayQuit = TRUE
PROPERTY OpensAndClosesEnd
