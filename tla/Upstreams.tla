----------------------------- MODULE Upstreams -----------------------------
(***************************************************************************)
(* What runs beside the requests of one proxy: the health checks           *)
(* (proxy/health.go, health_match.go) and the DNS refresh of the targets   *)
(* (proxy_dns.go).  The targets themselves and the name server are the     *)
(* environment: they change a bounded number of times.                     *)
(***************************************************************************)
EXTENDS Integers, FiniteSets

CONSTANTS
    Upstream,       \* targets, named by host
    Addresses,      \* that a host can have
    MatchHeaders,   \* the values to try: whether health_check.match names headers
    MaxChanges      \* bound: changes of the environment

ASSUME UpstreamAssumption == Addresses # {} /\ MatchHeaders \subseteq BOOLEAN /\ MaxChanges \in Nat

VARIABLES
    matchHeaders,    \* of this configuration
    backend,         \* "up", "sick" (answers, but not with 2xx) or "down"
    marked,          \* Target.Healthy
    prober,          \* the goroutine of run: "checking", "waiting" or "off"
    probesStopping,  \* HealthChecker.Stop waits for it
    checks,          \* per target: "none", "asked", or what the check has found
    passive,         \* per target: "none", or what a request has found and is about to mark
    hostAddr,        \* the address the name stands for
    lookup,          \* per target: the address refreshDNS is about to install, or none
    addr,            \* HostClient.Addr
    loopsStarted,    \* Proxy.started
    changes

upVars == <<matchHeaders, backend, marked, prober, probesStopping, checks, passive,
            hostAddr, lookup, addr, loopsStarted, changes>>

NoAddress == "none"
States == {"up", "sick", "down"}
SomeAddress == CHOOSE a \in Addresses : TRUE

\* NewProxy, NewHealthChecker
UpInit ==
    /\ matchHeaders \in MatchHeaders
    /\ backend = [t \in Upstream |-> "up"] /\ marked = [t \in Upstream |-> TRUE]
    /\ prober = "off" /\ probesStopping = FALSE /\ changes = 0 /\ loopsStarted = FALSE
    /\ checks = [t \in Upstream |-> "none"] /\ passive = [t \in Upstream |-> "none"]
    /\ hostAddr = [t \in Upstream |-> SomeAddress] /\ addr = [t \in Upstream |-> NoAddress]
    /\ lookup = [t \in Upstream |-> NoAddress]

\* Proxy.Start and HealthChecker.Start; the first checks begin at once.
StartLoops ==
    /\ ~loopsStarted /\ loopsStarted' = TRUE /\ prober' = "checking"
    /\ checks' = [t \in Upstream |-> "asked"]
    /\ UNCHANGED <<matchHeaders, backend, marked, probesStopping, passive, hostAddr,
                   lookup, addr, changes>>

Change ==
    /\ loopsStarted /\ changes < MaxChanges /\ changes' = changes + 1
    /\ UNCHANGED <<matchHeaders, marked, prober, probesStopping, checks, passive,
                   lookup, addr, loopsStarted>>

BackendChanges(t, s) == Change /\ backend' = [backend EXCEPT ![t] = s] /\ UNCHANGED hostAddr
HostMoves(t, a) == Change /\ hostAddr' = [hostAddr EXCEPT ![t] = a] /\ UNCHANGED backend

\* HealthMatch.Match: a status in range, and the headers named.  Their names are
\* put in lower case (health_match.go:148) and looked up among names as the answer
\* has them, which fasthttp (external) writes in canonical case: none is found.
Match(s) == s = "up" /\ ~matchHeaders

\* checkTarget: the answer, or that there is none
CheckAnswered(t) ==
    /\ checks[t] = "asked"
    /\ checks' = [checks EXCEPT ![t] = IF Match(backend[t]) THEN "good" ELSE "bad"]
    /\ UNCHANGED <<matchHeaders, backend, marked, prober, probesStopping, passive,
                   hostAddr, lookup, addr, loopsStarted, changes>>

\* Mutant of Mark: a target that a request has marked is left alone.
MarkOnce(t) == marked' = [marked EXCEPT ![t] = @ /\ checks[t] = "good"]

\* MarkHealthy, MarkUnhealthy
Mark(t) == marked' = [marked EXCEPT ![t] = (checks[t] = "good")]

CheckMarks(t) ==
    /\ checks[t] \in {"good", "bad"} /\ Mark(t)
    /\ checks' = [checks EXCEPT ![t] = "none"]
    /\ UNCHANGED <<matchHeaders, backend, prober, probesStopping, passive, hostAddr,
                   lookup, addr, loopsStarted, changes>>

\* checkAll has waited for all checks.
ChecksDone ==
    /\ prober = "checking" /\ \A t \in Upstream : checks[t] = "none" /\ prober' = "waiting"
    /\ UNCHANGED <<matchHeaders, backend, marked, probesStopping, checks, passive,
                   hostAddr, lookup, addr, loopsStarted, changes>>

\* run: the ticker, or the stop channel, whichever select takes
CheckAll ==
    /\ prober = "waiting" /\ prober' = "checking"
    /\ checks' = [t \in Upstream |-> "asked"]
    /\ UNCHANGED <<matchHeaders, backend, marked, probesStopping, passive, hostAddr,
                   lookup, addr, loopsStarted, changes>>

StopHealthChecks ==
    /\ ~probesStopping /\ prober # "off" /\ changes = MaxChanges /\ probesStopping' = TRUE
    /\ UNCHANGED <<matchHeaders, backend, marked, prober, checks, passive, hostAddr,
                   lookup, addr, loopsStarted, changes>>

\* The goroutine ends and Stop, which waited for it, returns.
ChecksEnd ==
    /\ probesStopping /\ prober = "waiting" /\ prober' = "off" /\ probesStopping' = FALSE
    /\ UNCHANGED <<matchHeaders, backend, marked, checks, passive, hostAddr, lookup,
                   addr, loopsStarted, changes>>

\* A request marks its target after it has ended: unhealthy if it failed, healthy
\* if it was a retry (proxy.go:861-867, 940-951).
RequestEnds(t, found) ==
    /\ loopsStarted /\ passive[t] = "none" /\ passive' = [passive EXCEPT ![t] = found]
    /\ (found = "good" => backend[t] = "up") /\ (found = "bad" => backend[t] # "up")
    /\ UNCHANGED <<matchHeaders, backend, marked, prober, probesStopping, checks,
                   hostAddr, lookup, addr, loopsStarted, changes>>

RequestMarks(t) ==
    /\ passive[t] # "none" /\ passive' = [passive EXCEPT ![t] = "none"]
    /\ marked' = [marked EXCEPT ![t] = (passive[t] = "good")]
    /\ UNCHANGED <<matchHeaders, backend, prober, probesStopping, checks, hostAddr,
                   lookup, addr, loopsStarted, changes>>

\* refreshDNS: the lookup of a target whose answer is older than the TTL
LookupHost(t) ==
    /\ loopsStarted /\ lookup[t] = NoAddress /\ addr[t] # hostAddr[t]
    /\ lookup' = [lookup EXCEPT ![t] = hostAddr[t]]
    /\ UNCHANGED <<matchHeaders, backend, marked, prober, probesStopping, checks,
                   passive, hostAddr, addr, loopsStarted, changes>>

\* updateHostClientAddr: a new client for the address; nothing ends this loop.
UpdateHostClientAddr(t) ==
    /\ lookup[t] # NoAddress /\ addr' = [addr EXCEPT ![t] = lookup[t]]
    /\ lookup' = [lookup EXCEPT ![t] = NoAddress]
    /\ UNCHANGED <<matchHeaders, backend, marked, prober, probesStopping, checks,
                   passive, hostAddr, loopsStarted, changes>>

UpNext ==
    \/ StartLoops \/ ChecksDone \/ CheckAll \/ StopHealthChecks \/ ChecksEnd
    \/ \E t \in Upstream :
         \/ CheckAnswered(t) \/ CheckMarks(t)
         \/ (\E f \in {"good", "bad"} : RequestEnds(t, f)) \/ RequestMarks(t)
         \/ LookupHost(t) \/ UpdateHostClientAddr(t)
         \/ (\E s \in States \ {backend[t]} : BackendChanges(t, s))
         \/ (\E a \in Addresses \ {hostAddr[t]} : HostMoves(t, a))

\* Checks have a timeout (health.go:240), the ticker goes on, select does not pass
\* over a stop forever, and a request that has ended goes on.
UpFairness ==
    /\ WF_upVars(ChecksDone) /\ WF_upVars(CheckAll) /\ SF_upVars(ChecksEnd)
    /\ \A t \in Upstream : WF_upVars(CheckAnswered(t)) /\ WF_upVars(CheckMarks(t))
                           /\ WF_upVars(RequestMarks(t))
                           /\ WF_upVars(LookupHost(t)) /\ WF_upVars(UpdateHostClientAddr(t))

UpSpec == UpInit /\ [][UpNext]_upVars /\ UpFairness

-----------------------------------------------------------------------------
\* Once the world stops changing, a target that is up is marked healthy and stays
\* so, whatever the checks and the requests that were under way found, unless the
\* checks were stopped or match headers; the client of a target has the address
\* its name has; and no Stop waits (health.go:145-290, proxy_dns.go:76-218).
UpstreamsFollow ==
    <>[](/\ ~probesStopping
         /\ loopsStarted => \A t \in Upstream : addr[t] = hostAddr[t]
         /\ prober # "off" /\ ~matchHeaders => \A t \in Upstream : backend[t] = "up" => marked[t])
=============================================================================
