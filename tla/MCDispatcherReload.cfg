SPECIFICATION Spec
CONSTANTS
    c1 = c1
    c2 = c2
    s1 = s1
    s2 = s2
    workercnt = 2
    Conns = {c1, c2}
    Kinds <- MCClient
    Servers = {s1, s2}
    Lines = 2
    Routes <- MCRoutes
    BufSize = 4
    PipeSize = 2
    MaxReloads = 1
INVARIANT
    FreedUnreferenced
CHECK_DEADLOCK FALSE
