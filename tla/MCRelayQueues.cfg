SPECIFICATION Spec
CONSTANTS
    Configs <- MCTwice
    Addrs <- MCAddrs
    NoFamily = {"v6"}
    Taken = {"used"}
    BadPem = {"bad"}
    MAX_LISTENERS = 3
    MaxReloads = 2
INVARIANT
    IdenticalKept
