SPECIFICATION ServicesFairSpec
CONSTANTS
    Parts = {"pool", "udp", "stream", "dns", "app", "upstreams"}
    Requests = {r1, r2}
    Slots = {w1, w2, w3}
    MaxWorkers = 1
    MinWorkers = 1
    QueueSize = 1
    NoTask = NoTask
    Clients = {a1, a2}
    Sessions = {s1, s2}
    UdpTargets = {u1, u2}
    UdpNone = UdpNone
    Conns = {c1, c2}
    Targets = {t1, t2}
    Checked = TRUE
    StreamStarts = 2
    StreamNone = StreamNone
    Hosts = {h1, h2}
    Callers = {g1}
    CacheSize = 1
    DnsStarts = 2
    DnsNone = DnsNone
    MaxProcs = 2
    MaxReloads = 2
    Upstream = {x1}
    Addresses = {"a", "b"}
    MatchHeaders = {FALSE, TRUE}
    MaxChanges = 3
CHECK_DEADLOCK FALSE
INVARIANTS
    CountersExact OvershootBounded TaskConserved
    SessionsExact ConnsExact CacheKept ServiceKept
PROPERTIES
    StopDrains StopReleases StreamEnds OldLoopsEnd OldOnesEnd UpstreamsFollow
