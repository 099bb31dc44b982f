INIT FilesInit
NEXT FilesNext
CONSTANTS
    Parts = {"limits", "static"}
    Requests = {r1, r2}
    Keys = {k1}
    Buckets = {b1, b2}
    None = None
    Rate = 1
    Burst = 2
    CleanupAge = 4
    Window = 2
    Limit = 2
    MaxConns = 1
    StaticRequests = {c1, c2}
    StaticPaths = {f, g}
    Objs = {o1, o2, o3}
    StaticNone = StaticNone
    First = f
    Fallback = g
    MaxChanges = 1
    MaxSpan = 0
    TTL = 1
    Size <- MCSize
    MaxEntries = 2
    MaxSize = 2
    LargeFrom = 3
    Validators = {{"If-None-Match", "If-Modified-Since"}}
SYMMETRY MCSymmetry
INVARIANTS LimitsRespected CacheExact AnswersSound
