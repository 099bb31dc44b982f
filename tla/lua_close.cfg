SPECIFICATION Spec
CONSTANTS
    Requests = {r1}
    Setters = {r1}
    States = {s1, s2, s3}
    Timers = {t1}
    None = None
    MaxCoroutines = 1
    InitialStates = 1
    MaxStates = 1
    QueueSize = 1
CHECK_DEADLOCK FALSE
INVARIANT RequestsSurviveClose
