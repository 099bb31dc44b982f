SPECIFICATION ScriptFairSpec
CONSTANTS
    Parts = {"engine", "dict", "code", "socket"}
    Requests = {r1, r2, r3}
    Setters = {r1}
    States = {s1, s2, s3, s4, s5, s6}
    Timers = {t1, t2}
    None = None
    MaxCoroutines = 2
    InitialStates = 2
    MaxStates = 1
    QueueSize = 1
    DictKeys = {k1, k2, k3}
    DictCallers = {c1}
    MaxItems = 2
    MaxNumber = 1
    Scripts = {f1, f2}
    Runs = {x1, x2}
    CodeSize = 1
    CodeTTL = 1
    FileWatch = TRUE
    MaxEdits = 2
    MaxOps = 3
CHECK_DEADLOCK FALSE
INVARIANTS StatesExact TimersExact BookkeepingExact
PROPERTIES NothingLingers ImplementsMap ScriptsCatchUp
