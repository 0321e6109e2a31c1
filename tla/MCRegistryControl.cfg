CONSTANTS
    u1 = u1
    u2 = u2
    s1 = s1
    f1 = f1
    f2 = f2
    NoFd = NoFd
    Users = {u1, u2}
    Streams = {s1}
    Fds = {f1, f2}
    FirstSessionId = 1000
    MaxSessionId = 1002
SPECIFICATION Spec
SYMMETRY Symmetry
PROPERTY ControlFollowsMedia
