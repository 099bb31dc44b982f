---------------------------- MODULE MCServices ----------------------------
(***************************************************************************)
(* The long-lived services of the process in one instance.  They share no  *)
(* state, so that a behaviour is that of one of them, chosen at the start, *)
(* while the others stay as they are.                                      *)
(***************************************************************************)
EXTENDS GoroutinePool, StreamUDP, StreamServer, Resolver, App, Upstreams, TLC

CONSTANT Parts    \* the services to check

VARIABLE part

Pooled == CHOOSE S \in SUBSET Slots : Cardinality(S) = MinWorkers

ServicesInit ==
    /\ part \in Parts
    /\ IF part = "pool" THEN Init
       ELSE wpc = [w \in Slots |-> IF w \in Pooled THEN "mark" ELSE "free"] /\ Init
    /\ UdpInit /\ StreamInit /\ DnsInit
    /\ IF part = "app" THEN AppInit ELSE multi = FALSE /\ AppInit
    /\ IF part = "upstreams" THEN UpInit ELSE matchHeaders = FALSE /\ UpInit

Others(p) ==
    /\ UNCHANGED part
    /\ IF p = "pool" THEN TRUE ELSE UNCHANGED vars
    /\ IF p = "udp" THEN TRUE ELSE UNCHANGED udpVars
    /\ IF p = "stream" THEN TRUE ELSE UNCHANGED streamVars
    /\ IF p = "dns" THEN TRUE ELSE UNCHANGED dnsVars
    /\ IF p = "app" THEN TRUE ELSE UNCHANGED appVars
    /\ IF p = "upstreams" THEN TRUE ELSE UNCHANGED upVars

ServicesNext ==
    \/ part = "pool" /\ Next /\ Others("pool")
    \/ part = "udp" /\ UdpNext /\ Others("udp")
    \/ part = "stream" /\ StreamNext /\ Others("stream")
    \/ part = "dns" /\ DnsNext /\ Others("dns")
    \/ part = "app" /\ AppNext /\ Others("app")
    \/ part = "upstreams" /\ UpNext /\ Others("upstreams")

allVars == <<part, vars, udpVars, streamVars, dnsVars, appVars, upVars>>

\* A loop that waits in a select chooses the stop channel.
StopSelected ==
    \/ part = "pool" /\ (\E w \in Slots : CtxDone(w)) /\ Others("pool")
    \/ part = "dns" /\ (\E g \in Loops : LoopEnds(g)) /\ Others("dns")
    \/ part = "upstreams" /\ ChecksEnd /\ Others("upstreams")

\* The fairness of each service, asked only of the one that runs.
ServicesFairSpec ==
    /\ ServicesInit /\ [][ServicesNext]_allVars
    /\ SF_allVars(StopSelected)
    \* PoolFairness
    /\ WF_vars(part = "pool" /\ Start) /\ WF_vars(part = "pool" /\ StopCancel)
    /\ \A r \in Requests : WF_vars(part = "pool" /\ Submit(r))
    /\ \A w \in Slots : WF_vars(part = "pool" /\ Worker(w))
    \* UdpFairness
    /\ WF_udpVars(part = "udp" /\ Serve) /\ WF_udpVars(part = "udp" /\ CleanerEnds)
    /\ \A s \in Sessions :
         WF_udpVars(part = "udp" /\ Reader(s)) /\ WF_udpVars(part = "udp" /\ BecomesIdle(s))
    \* StreamFairness
    /\ WF_streamVars(part = "stream" /\ StartBody)
    /\ WF_streamVars(part = "stream" /\ CheckerEnds)
    /\ WF_streamVars(part = "stream" /\ (StopClose \/ StopWait \/ StopReset))
    /\ \A g \in 1..StreamStarts :
         /\ WF_streamVars(part = "stream" /\ AcceptEnds(g))
         /\ WF_streamVars(part = "stream" /\ UDPLoopsEnd(g))
    /\ \A c \in Conns :
         WF_streamVars(part = "stream" /\ HandleConnection(c) /\ copying[c] # {"up", "down"})
    \* DnsFairness
    /\ \A l \in Lookers : WF_dnsVars(part = "dns" /\ Lookup(l))
    /\ \A g \in Loops : WF_dnsVars(part = "dns" /\ RefreshLoop(g))
    \* AppFairness
    /\ \A p \in Procs :
         /\ WF_appVars(part = "app" /\ (Boot(p) \/ BootFails(p)))
         /\ WF_appVars(part = "app" /\ Handler(p))
         /\ \A g \in Gens : WF_appVars(part = "app" /\ Server(p, g))
    \* UpFairness
    /\ WF_upVars(part = "upstreams" /\ ChecksDone) /\ WF_upVars(part = "upstreams" /\ CheckAll)
    /\ \A t \in Upstream :
         /\ WF_upVars(part = "upstreams" /\ CheckAnswered(t))
         /\ WF_upVars(part = "upstreams" /\ CheckMarks(t))
         /\ WF_upVars(part = "upstreams" /\ RequestMarks(t))
         /\ WF_upVars(part = "upstreams" /\ LookupHost(t))
         /\ WF_upVars(part = "upstreams" /\ UpdateHostClientAddr(t))
=============================================================================
