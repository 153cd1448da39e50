SPECIFICATION Spec
CONSTANTS
    Configs <- MCConfigs
    Addrs <- MCAddrs
    NoFamily = {"v6"}
    Taken = {"used"}
    BadPem = {"bad"}
    MAX_LISTENERS = 3
    MaxReloads = 2
INVARIANTS
    ListenersMatch
    QueuesKept
    
PROPERTIES
    SignalsServed
