CONSTANTS
    s1 = s1
    s2 = s2
    Servers = {s1, s2}
    v1 = v1
    v2 = v2
    Versions = {v1}
    MaxTime = 1
SPECIFICATION Spec
CHECK_DEADLOCK FALSE
INVARIANT NoLinkNoServer
