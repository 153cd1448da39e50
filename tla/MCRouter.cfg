\* Every expression up to four characters, every replacement up to four, every
\* list of up to four rules, every list of up to three other statements.
CONSTANTS
    regcomp <- MCregcomp
    regexec <- MCregexec
    RE_MAX_MATCHES = 3
    PatBuf = 4
    MetricBuf = 12
    DataLen = 4
    RetSize = 4
    Threshold = 3
    MaxPat = 4
    MaxRepl = 4
    MaxRules = 4
    MaxStmts = 3
    Inputs <- MCInputs
    Rules <- MCRules
    Names <- MCNames
    Datas <- MCDatas
    Files <- MCFiles
    Resolve <- MCResolve
    Inet6 = {"::"}
    Writable = {"log"}
    Features = {"gzip"}
    MaxPort = 2
    ListenPort = 1
    Hostname <- MCHostname
SPECIFICATION Spec
INVARIANTS
    ShortcutAgrees
    RewriteMeans
    OptimisedAlike
    TestModeAgrees
    AggregatesPrivate
    NowhereIsCounted
    
CHECK_DEADLOCK FALSE
